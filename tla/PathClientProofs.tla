-------------------------- MODULE PathClientProofs --------------------------
(***************************************************************************)
(* Proofs about PathClient: the types of its state; that an Execute=1 is   *)
(* built only after the turntable was sent the angle of that very pose;    *)
(* and, for a controller whose motions outlast a round trip, that a wait   *)
(* that ends well ends at the pose that was asked for.  For any poses,     *)
(* angles and bounds.                                                      *)
(***************************************************************************)
EXTENDS PathClient, TLAPS

\* The state after __init__ has its types.
LEMMA InitTypeOK == Init => TypeOK
  <1> SUFFICES ASSUME Init PROVE TypeOK
    OBVIOUS
  <1>1. FieldsTypeOK
    BY DEF Init, FieldsTypeOK, Links
  <1>2. ThreadsTypeOK
    BY DEF Init, ThreadsTypeOK, TxAt, TurnTxAt, Holds, Waiting
  <1>3. ChannelsTypeOK
    BY DEF Init, ChannelsTypeOK
  <1>4. CountsTypeOK
    <2>1. unsettled \in BOOLEAN
      BY DEF Init
    <2>2. moves = 0 /\ cancels = 0 /\ losses = 0
      BY DEF Init
    <2> QED
      BY BoundsAssumption, <2>1, <2>2 DEF CountsTypeOK
  <1> QED
    BY <1>1, <1>2, <1>3, <1>4 DEF TypeOK

\* Every step keeps the types of the shared fields.
LEMMA NextFieldsTypeOK == TypeOK /\ [Next]_vars => FieldsTypeOK'
  <1> SUFFICES ASSUME TypeOK, [Next]_vars PROVE FieldsTypeOK'
    OBVIOUS
  <1>f. FieldsTypeOK
    BY DEF TypeOK
  <1>t. ThreadsTypeOK
    BY DEF TypeOK
  <1>c. ChannelsTypeOK
    BY DEF TypeOK
  <1> USE DEF FieldsTypeOK, Links, Statuses, SafeClose, SafeCloseTurn,
          Install, InstallTurn, clientVars, pathVars, turnVars, restVars
  <1>1. CASE StartPath
    BY <1>f, <1>1 DEF StartPath
  <1>2. CASE StarterInstalls
    BY <1>f, <1>2 DEF StarterInstalls
  <1>3. CASE StarterGivesUp
    <2>1. CASE SafeClose
      BY <1>f, <1>3, <2>1 DEF StarterGivesUp
    <2>2. CASE UNCHANGED <<conn, pendingExecute, executeSent, awaitingIdle>>
      BY <1>f, <1>3, <2>2 DEF StarterGivesUp
    <2> QED
      BY <1>3, <2>1, <2>2 DEF StarterGivesUp
  <1>4. CASE StartTurn
    BY <1>f, <1>4 DEF StartTurn
  <1>5. CASE StarterInstallsTurn
    BY <1>f, <1>5 DEF StarterInstallsTurn
  <1>6. CASE StarterGivesUpTurn
    <2>1. CASE SafeCloseTurn
      BY <1>f, <1>6, <2>1 DEF StarterGivesUpTurn
    <2>2. CASE UNCHANGED <<turnReady, turnConn>>
      BY <1>f, <1>6, <2>2 DEF StarterGivesUpTurn
    <2> QED
      BY <1>6, <2>1, <2>2 DEF StarterGivesUpTurn
  <1>7. CASE TxExit
    BY <1>f, <1>7 DEF TxExit
  <1>8. CASE TxDials
    BY <1>f, <1>8 DEF TxDials
  <1>9. CASE TxInstalls
    BY <1>f, <1>9 DEF TxInstalls
  <1>10. CASE TxDialFails
    BY <1>f, <1>10 DEF TxDialFails
  <1>11. CASE TxBuilds
    BY <1>f, <1>11 DEF TxBuilds
  <1>12. CASE TxSends
    BY <1>f, <1>12 DEF TxSends
  <1>13. CASE TxSendFails
    BY <1>f, <1>13 DEF TxSendFails
  <1>14. CASE TxMarks
    BY <1>f, <1>14 DEF TxMarks
  <1>15. CASE RxExit
    BY <1>f, <1>15 DEF RxExit
  <1>16. CASE RxListens
    BY <1>f, <1>16 DEF RxListens
  <1>17. CASE RxHandles
    <2>1. CASE rxPartial
      BY <1>f, <1>17, <2>1 DEF RxHandles
    <2>2. CASE ~rxPartial
      <3>1. Head(fromRobot) \in Statuses
        BY <1>c, <1>17 DEF RxHandles, ChannelsTypeOK
      <3>2. /\ robotStatus' = Head(fromRobot) /\ rxPartial' = FALSE
            /\ UNCHANGED <<stopEvent, motionCancel, currentTarget, turnReady, conn,
                           turnConn, turnSent>>
        BY <1>17, <2>2 DEF RxHandles
      <3>3. /\ pendingExecute' \in BOOLEAN
            /\ executeSent' \in BOOLEAN /\ awaitingIdle' \in BOOLEAN
        BY <1>f, <1>17, <2>2 DEF RxHandles
      <3> QED
        BY <1>f, <3>1, <3>2, <3>3
    <2> QED
      BY <2>1, <2>2
  <1>18. CASE RxFails
    BY <1>f, <1>18 DEF RxFails
  <1>19. CASE TurnTxExit
    BY <1>f, <1>19 DEF TurnTxExit
  <1>20. CASE TurnTxDials
    BY <1>f, <1>20 DEF TurnTxDials
  <1>21. CASE TurnTxInstalls
    BY <1>f, <1>21 DEF TurnTxInstalls
  <1>22. CASE TurnTxDialFails
    BY <1>f, <1>22 DEF TurnTxDialFails
  <1>23. CASE TurnTxReads
    BY <1>f, <1>23 DEF TurnTxReads
  <1>24. CASE TurnTxSends
    BY <1>f, <1>t, <1>24 DEF TurnTxSends, ThreadsTypeOK
  <1>25. CASE TurnTxSendFails
    BY <1>f, <1>25 DEF TurnTxSendFails
  <1>26. CASE TurnTxMarks
    BY <1>f, <1>26 DEF TurnTxMarks
  <1>27. CASE TurnRxExit
    BY <1>f, <1>27 DEF TurnRxExit
  <1>28. CASE TurnRxListens
    BY <1>f, <1>28 DEF TurnRxListens
  <1>29. CASE TurnRxFails
    BY <1>f, <1>29 DEF TurnRxFails
  <1>30. CASE ClearMotionCancel
    BY <1>f, <1>30 DEF ClearMotionCancel
  <1>31. ASSUME NEW t \in Targets, WorkerBegins(t) PROVE FieldsTypeOK'
    BY <1>f, <1>31 DEF WorkerBegins
  <1>32. CASE WorkerSeesIdle
    BY <1>f, <1>32 DEF WorkerSeesIdle
  <1>33. CASE WorkerTriggers
    <2>1. worker.target \in Targets
      BY <1>t DEF ThreadsTypeOK
    <2> QED
      BY <1>f, <1>33, <2>1 DEF WorkerTriggers
  <1>34. CASE WorkerPolls
    BY <1>f, <1>34 DEF WorkerPolls
  <1>35. CASE WorkerAborts
    BY <1>f, <1>35 DEF WorkerAborts
  <1>36. CASE CancelMotion
    BY <1>f, <1>36 DEF CancelMotion
  <1>37. CASE Stop
    BY <1>f, <1>37 DEF Stop
  <1>38. CASE RobotReceives
    BY <1>f, <1>38 DEF RobotReceives
  <1>39. CASE RobotFinishes
    BY <1>f, <1>39 DEF RobotFinishes
  <1>40. CASE RobotReports
    BY <1>f, <1>40 DEF RobotReports
  <1>41. CASE LosePath
    BY <1>f, <1>41 DEF LosePath
  <1>42. CASE LoseTurn
    BY <1>f, <1>42 DEF LoseTurn
  <1>43. CASE UNCHANGED vars
    BY <1>f, <1>43 DEF vars
  <1> QED
    BY <1>1, <1>2, <1>3, <1>4, <1>5, <1>6, <1>7, <1>8, <1>9, <1>10,
       <1>11, <1>12, <1>13, <1>14, <1>15, <1>16, <1>17, <1>18,
       <1>19, <1>20, <1>21, <1>22, <1>23, <1>24, <1>25, <1>26,
       <1>27, <1>28, <1>29, <1>30, <1>31, <1>32, <1>33, <1>34,
       <1>35, <1>36, <1>37, <1>38, <1>39, <1>40, <1>41, <1>42,
       <1>43
    DEF Next, Starter, Tx, Rx, TurnTx, TurnRx, Worker, Others, Robot, Network

\* Every step keeps the types of the locals of the threads and of the robot.
LEMMA NextThreadsTypeOK == TypeOK /\ [Next]_vars => ThreadsTypeOK'
  <1> SUFFICES ASSUME TypeOK, [Next]_vars PROVE ThreadsTypeOK'
    OBVIOUS
  <1>f. FieldsTypeOK
    BY DEF TypeOK
  <1>t. ThreadsTypeOK
    BY DEF TypeOK
  <1>c. ChannelsTypeOK
    BY DEF TypeOK
  <1> USE DEF ThreadsTypeOK, Holds, Waiting, TxAt, TurnTxAt, Closed, Replaced,
          clientVars, pathVars, turnVars, restVars
  <1>1. CASE StartPath
    BY <1>t, <1>1 DEF StartPath
  <1>2. CASE StarterInstalls
    BY <1>t, <1>2 DEF StarterInstalls
  <1>3. CASE StarterGivesUp
    BY <1>t, <1>3 DEF StarterGivesUp
  <1>4. CASE StartTurn
    BY <1>t, <1>4 DEF StartTurn
  <1>5. CASE StarterInstallsTurn
    BY <1>t, <1>5 DEF StarterInstallsTurn
  <1>6. CASE StarterGivesUpTurn
    BY <1>t, <1>6 DEF StarterGivesUpTurn
  <1>7. CASE TxExit
    BY <1>t, <1>7 DEF TxExit
  <1>8. CASE TxDials
    BY <1>t, <1>8 DEF TxDials
  <1>9. CASE TxInstalls
    BY <1>t, <1>9 DEF TxInstalls
  <1>10. CASE TxDialFails
    BY <1>t, <1>10 DEF TxDialFails
  <1>11. CASE TxBuilds
    BY <1>f, <1>t, <1>11 DEF TxBuilds, FieldsTypeOK
  <1>12. CASE TxSends
    BY <1>t, <1>12 DEF TxSends
  <1>13. CASE TxSendFails
    BY <1>t, <1>13 DEF TxSendFails
  <1>14. CASE TxMarks
    BY <1>t, <1>14 DEF TxMarks
  <1>15. CASE RxExit
    BY <1>t, <1>15 DEF RxExit
  <1>16. CASE RxListens
    BY <1>t, <1>16 DEF RxListens
  <1>17. CASE RxHandles
    BY <1>t, <1>17 DEF RxHandles
  <1>18. CASE RxFails
    BY <1>t, <1>18 DEF RxFails
  <1>19. CASE TurnTxExit
    BY <1>t, <1>19 DEF TurnTxExit
  <1>20. CASE TurnTxDials
    BY <1>t, <1>20 DEF TurnTxDials
  <1>21. CASE TurnTxInstalls
    BY <1>t, <1>21 DEF TurnTxInstalls
  <1>22. CASE TurnTxDialFails
    BY <1>t, <1>22 DEF TurnTxDialFails
  <1>23. CASE TurnTxReads
    BY WireTurnAssumption, <1>f, <1>t, <1>23 DEF TurnTxReads, FieldsTypeOK
  <1>24. CASE TurnTxSends
    BY <1>t, <1>24 DEF TurnTxSends
  <1>25. CASE TurnTxSendFails
    BY <1>t, <1>25 DEF TurnTxSendFails
  <1>26. CASE TurnTxMarks
    BY <1>t, <1>26 DEF TurnTxMarks
  <1>27. CASE TurnRxExit
    BY <1>t, <1>27 DEF TurnRxExit
  <1>28. CASE TurnRxListens
    BY <1>t, <1>28 DEF TurnRxListens
  <1>29. CASE TurnRxFails
    BY <1>t, <1>29 DEF TurnRxFails
  <1>30. CASE ClearMotionCancel
    BY <1>t, <1>30 DEF ClearMotionCancel
  <1>31. ASSUME NEW t \in Targets, WorkerBegins(t) PROVE ThreadsTypeOK'
    BY <1>t, <1>31 DEF WorkerBegins
  <1>32. CASE WorkerSeesIdle
    BY <1>t, <1>32 DEF WorkerSeesIdle
  <1>33. CASE WorkerTriggers
    BY <1>t, <1>33 DEF WorkerTriggers
  <1>34. CASE WorkerPolls
    BY <1>t, <1>34 DEF WorkerPolls
  <1>35. CASE WorkerAborts
    BY <1>t, <1>35 DEF WorkerAborts
  <1>36. CASE CancelMotion
    BY <1>t, <1>36 DEF CancelMotion
  <1>37. CASE Stop
    BY <1>t, <1>37 DEF Stop
  <1>38. CASE RobotReceives
    <2>1. UNCHANGED <<tx, rx, turnTx, turnRx, starter, worker>>
      BY <1>38 DEF RobotReceives
    <2>2. Head(toRobot) \in Targets
      BY <1>c, <1>38 DEF RobotReceives, ChannelsTypeOK
    <2>3. CASE robot.moving
      BY <1>t, <1>38, <2>1, <2>3 DEF RobotReceives
    <2>4. CASE ~robot.moving
      <3>1. robot' \in [moving : BOOLEAN, pose : Targets, goal : Targets]
        BY <1>t, <1>38, <2>2, <2>4 DEF RobotReceives
      <3> QED
        BY <1>t, <2>1, <3>1
    <2> QED
      BY <2>3, <2>4
  <1>39. CASE RobotFinishes
    <2>1. UNCHANGED <<tx, rx, turnTx, turnRx, starter, worker>>
      BY <1>39 DEF RobotFinishes
    <2>2. robot' \in [moving : BOOLEAN, pose : Targets, goal : Targets]
      BY <1>t, <1>39 DEF RobotFinishes
    <2> QED
      BY <1>t, <2>1, <2>2
  <1>40. CASE RobotReports
    BY <1>t, <1>40 DEF RobotReports
  <1>41. CASE LosePath
    BY <1>t, <1>41 DEF LosePath
  <1>42. CASE LoseTurn
    BY <1>t, <1>42 DEF LoseTurn
  <1>43. CASE UNCHANGED vars
    BY <1>t, <1>43 DEF vars
  <1> QED
    BY <1>1, <1>2, <1>3, <1>4, <1>5, <1>6, <1>7, <1>8, <1>9, <1>10,
       <1>11, <1>12, <1>13, <1>14, <1>15, <1>16, <1>17, <1>18,
       <1>19, <1>20, <1>21, <1>22, <1>23, <1>24, <1>25, <1>26,
       <1>27, <1>28, <1>29, <1>30, <1>31, <1>32, <1>33, <1>34,
       <1>35, <1>36, <1>37, <1>38, <1>39, <1>40, <1>41, <1>42,
       <1>43
    DEF Next, Starter, Tx, Rx, TurnTx, TurnRx, Worker, Others, Robot, Network

\* Every step keeps the types of the packets in flight.
LEMMA NextChannelsTypeOK == TypeOK /\ [Next]_vars => ChannelsTypeOK'
  <1> SUFFICES ASSUME TypeOK, [Next]_vars PROVE ChannelsTypeOK'
    OBVIOUS
  <1>t. ThreadsTypeOK
    BY DEF TypeOK
  <1>c. ChannelsTypeOK
    BY DEF TypeOK
  <1> USE DEF ChannelsTypeOK, Statuses, SafeClose, Install, RobotReport,
          clientVars, pathVars, restVars
  <1>1. CASE StarterGivesUp
    <2>1. CASE SafeClose
      BY <1>c, <1>1, <2>1 DEF StarterGivesUp
    <2>2. CASE UNCHANGED <<toRobot, fromRobot>>
      BY <1>c, <1>1, <2>2 DEF StarterGivesUp
    <2> QED
      BY <1>1, <2>1, <2>2 DEF StarterGivesUp
  <1>2. CASE StartPath
    BY <1>c, <1>2 DEF StartPath
  <1>3. CASE StarterInstalls
    BY <1>c, <1>3 DEF StarterInstalls
  <1>4. CASE StartTurn
    BY <1>c, <1>4 DEF StartTurn
  <1>5. CASE StarterInstallsTurn
    BY <1>c, <1>5 DEF StarterInstallsTurn
  <1>6. CASE StarterGivesUpTurn
    BY <1>c, <1>6 DEF StarterGivesUpTurn
  <1>7. CASE TxSends
    <2>1. tx.execute # NoTarget => tx.execute \in Targets
      BY <1>t DEF ThreadsTypeOK
    <2>2. /\ fromRobot' = fromRobot
          /\ \/ toRobot' = toRobot
             \/ tx.execute # NoTarget /\ toRobot' = Append(toRobot, tx.execute)
      BY <1>7 DEF TxSends
    <2> QED
      BY <1>c, <2>1, <2>2
  <1>8. CASE TxExit
    BY <1>c, <1>8 DEF TxExit
  <1>9. CASE TxDials
    BY <1>c, <1>9 DEF TxDials
  <1>10. CASE TxInstalls
    BY <1>c, <1>10 DEF TxInstalls
  <1>11. CASE TxDialFails
    BY <1>c, <1>11 DEF TxDialFails
  <1>12. CASE TxBuilds
    BY <1>c, <1>12 DEF TxBuilds
  <1>13. CASE TxSendFails
    BY <1>c, <1>13 DEF TxSendFails
  <1>14. CASE TxMarks
    BY <1>c, <1>14 DEF TxMarks
  <1>15. CASE RxExit
    BY <1>c, <1>15 DEF RxExit
  <1>16. CASE RxListens
    BY <1>c, <1>16 DEF RxListens
  <1>17. CASE RxHandles
    BY <1>c, <1>17 DEF RxHandles
  <1>18. CASE RxFails
    BY <1>c, <1>18 DEF RxFails
  <1>19. CASE TurnTx
    BY <1>c, <1>19
    DEF TurnTx, TurnTxExit, TurnTxDials, TurnTxInstalls, TurnTxDialFails,
        TurnTxReads, TurnTxSends, TurnTxSendFails, TurnTxMarks
  <1>20. CASE TurnRx
    BY <1>c, <1>20
    DEF TurnRx, TurnRxExit, TurnRxListens, TurnRxFails
  <1>21. CASE Worker
    BY <1>c, <1>21
    DEF Worker, ClearMotionCancel, WorkerBegins, WorkerSeesIdle,
        WorkerTriggers, WorkerPolls, WorkerAborts
  <1>22. CASE CancelMotion
    BY <1>c, <1>22 DEF CancelMotion
  <1>23. CASE Stop
    BY <1>c, <1>23 DEF Stop
  <1>24. CASE RobotReceives
    BY <1>c, <1>24 DEF RobotReceives
  <1>25. CASE RobotFinishes
    BY <1>c, <1>25 DEF RobotFinishes
  <1>26. CASE RobotReports
    BY <1>c, <1>26 DEF RobotReports
  <1>27. CASE LosePath
    BY <1>c, <1>27 DEF LosePath
  <1>28. CASE LoseTurn
    BY <1>c, <1>28 DEF LoseTurn
  <1>29. CASE UNCHANGED vars
    BY <1>c, <1>29 DEF vars
  <1> QED
    BY <1>1, <1>2, <1>3, <1>4, <1>5, <1>6, <1>7, <1>8, <1>9, <1>10, <1>11,
       <1>12, <1>13, <1>14, <1>15, <1>16, <1>17, <1>18, <1>19, <1>20,
       <1>21, <1>22, <1>23, <1>24, <1>25, <1>26, <1>27, <1>28, <1>29
    DEF Next, Starter, Tx, Rx, Others, Robot, Network

\* Every step keeps the counters within their bounds.
LEMMA NextCountsTypeOK == TypeOK /\ [Next]_vars => CountsTypeOK'
  <1> SUFFICES ASSUME TypeOK, [Next]_vars PROVE CountsTypeOK'
    OBVIOUS
  <1>k. CountsTypeOK
    BY DEF TypeOK
  <1> USE DEF CountsTypeOK, DialRefused, countVars, restVars
  <1>1. CASE StarterGivesUp
    <2>1. DialRefused \/ UNCHANGED countVars
      BY <1>1 DEF StarterGivesUp
    <2> QED
      BY BoundsAssumption, <1>k, <2>1
  <1>2. CASE StarterGivesUpTurn
    <2>1. DialRefused \/ UNCHANGED countVars
      BY <1>2 DEF StarterGivesUpTurn
    <2> QED
      BY BoundsAssumption, <1>k, <2>1
  <1>3. CASE StartPath
    BY <1>k, <1>3 DEF StartPath
  <1>4. CASE StarterInstalls
    BY <1>k, <1>4 DEF StarterInstalls
  <1>5. CASE StartTurn
    BY <1>k, <1>5 DEF StartTurn
  <1>6. CASE StarterInstallsTurn
    BY <1>k, <1>6 DEF StarterInstallsTurn
  <1>7. CASE Tx
    BY BoundsAssumption, <1>k, <1>7
    DEF Tx, TxExit, TxDials, TxInstalls, TxDialFails, TxBuilds, TxSends,
        TxSendFails, TxMarks
  <1>8. CASE Rx
    BY <1>k, <1>8
    DEF Rx, RxExit, RxListens, RxHandles, RxFails
  <1>9. CASE TurnTx
    BY BoundsAssumption, <1>k, <1>9
    DEF TurnTx, TurnTxExit, TurnTxDials, TurnTxInstalls, TurnTxDialFails,
        TurnTxReads, TurnTxSends, TurnTxSendFails, TurnTxMarks
  <1>10. CASE TurnRx
    BY <1>k, <1>10
    DEF TurnRx, TurnRxExit, TurnRxListens, TurnRxFails
  <1>11. CASE Worker
    <2>1. CASE ClearMotionCancel
      <3>1. unsettled' \in BOOLEAN
        BY <2>1 DEF ClearMotionCancel
      <3>2. UNCHANGED <<moves, cancels, losses>>
        BY <2>1 DEF ClearMotionCancel
      <3> QED
        BY <1>k, <3>1, <3>2
    <2>2. CASE ~ClearMotionCancel
      BY BoundsAssumption, <1>k, <1>11, <2>2
      DEF Worker, WorkerBegins, WorkerSeesIdle, WorkerTriggers, WorkerPolls, WorkerAborts
    <2> QED
      BY <2>1, <2>2
  <1>12. CASE Others
    BY BoundsAssumption, <1>k, <1>12
    DEF Others, CancelMotion, Stop
  <1>13. CASE Robot
    BY <1>k, <1>13
    DEF Robot, RobotReceives, RobotFinishes, RobotReports
  <1>14. CASE Network
    BY BoundsAssumption, <1>k, <1>14
    DEF Network, LosePath, LoseTurn
  <1>15. CASE UNCHANGED vars
    BY <1>k, <1>15 DEF vars
  <1> QED
    BY <1>1, <1>2, <1>3, <1>4, <1>5, <1>6, <1>7, <1>8, <1>9, <1>10, <1>11,
       <1>12, <1>13, <1>14, <1>15
    DEF Next, Starter

-----------------------------------------------------------------------------
\* Every state of the client, its threads and its links has its types, in all
\* interleavings of path_client.py.
THEOREM TypeCorrect == Spec => []TypeOK
  <1>1. TypeOK /\ [Next]_vars => TypeOK'
    BY NextFieldsTypeOK, NextThreadsTypeOK, NextChannelsTypeOK, NextCountsTypeOK
    DEF TypeOK
  <1> QED
    BY InitTypeOK, <1>1, PTL DEF Spec

-----------------------------------------------------------------------------
\* The inductive form of TurnAllowsExecute.  It needs two more facts about the
\* turntable sender: what it is about to check against the target is what it
\* sent, and while the permission stands it is not about to send another angle.
TurnInv ==
    /\ TurnAllowsExecute
    /\ turnTx.pc = "mark" => turnSent = turnTx.wire
    /\ turnReady /\ turnTx.pc = "send" => turnTx.wire = WireTurn[currentTarget]

\* The permission to execute is not given at first.
LEMMA InitTurnInv == Init => TurnInv
  BY DEF Init, TurnInv, TurnAllowsExecute, TurnTxAt

\* Every step keeps TurnInv.
LEMMA NextTurnInv == TypeOK /\ TurnInv /\ [Next]_vars => TurnInv'
  <1> SUFFICES ASSUME TypeOK /\ TurnInv, [Next]_vars PROVE TurnInv'
    OBVIOUS
  <1>t. ThreadsTypeOK
    BY DEF TypeOK
  <1> USE DEF ThreadsTypeOK, TurnInv, TurnAllowsExecute, TurnTxAt, Closed, Replaced,
          SafeCloseTurn, InstallTurn, AngleMatches,
          clientVars, pathVars, turnVars, restVars
  <1>1. CASE StartPath
    BY <1>t, <1>1 DEF StartPath
  <1>2. CASE StarterInstalls
    BY <1>t, <1>2 DEF StarterInstalls
  <1>3. CASE StarterGivesUp
    BY <1>t, <1>3 DEF StarterGivesUp
  <1>4. CASE StartTurn
    BY <1>t, <1>4 DEF StartTurn
  <1>5. CASE StarterInstallsTurn
    BY <1>t, <1>5 DEF StarterInstallsTurn
  <1>6. CASE StarterGivesUpTurn
    BY <1>t, <1>6 DEF StarterGivesUpTurn
  <1>7. CASE TxExit
    BY <1>t, <1>7 DEF TxExit
  <1>8. CASE TxDials
    BY <1>t, <1>8 DEF TxDials
  <1>9. CASE TxInstalls
    BY <1>t, <1>9 DEF TxInstalls
  <1>10. CASE TxDialFails
    BY <1>t, <1>10 DEF TxDialFails
  <1>11. CASE TxBuilds
    BY <1>t, <1>11 DEF TxBuilds
  <1>12. CASE TxSends
    BY <1>t, <1>12 DEF TxSends
  <1>13. CASE TxSendFails
    BY <1>t, <1>13 DEF TxSendFails
  <1>14. CASE TxMarks
    BY <1>t, <1>14 DEF TxMarks
  <1>15. CASE RxExit
    BY <1>t, <1>15 DEF RxExit
  <1>16. CASE RxListens
    BY <1>t, <1>16 DEF RxListens
  <1>17. CASE RxHandles
    BY <1>t, <1>17 DEF RxHandles
  <1>18. CASE RxFails
    BY <1>t, <1>18 DEF RxFails
  <1>19. CASE TurnTxExit
    BY <1>t, <1>19 DEF TurnTxExit
  <1>20. CASE TurnTxDials
    BY <1>t, <1>20 DEF TurnTxDials
  <1>21. CASE TurnTxInstalls
    BY <1>t, <1>21 DEF TurnTxInstalls
  <1>22. CASE TurnTxDialFails
    BY <1>t, <1>22 DEF TurnTxDialFails
  <1>23. CASE TurnTxReads
    BY <1>t, <1>23 DEF TurnTxReads
  <1>24. CASE TurnTxSends
    BY <1>t, <1>24 DEF TurnTxSends
  <1>25. CASE TurnTxSendFails
    BY <1>t, <1>25 DEF TurnTxSendFails
  <1>26. CASE TurnTxMarks
    BY <1>t, <1>26 DEF TurnTxMarks
  <1>27. CASE TurnRxExit
    BY <1>t, <1>27 DEF TurnRxExit
  <1>28. CASE TurnRxListens
    BY <1>t, <1>28 DEF TurnRxListens
  <1>29. CASE TurnRxFails
    BY <1>t, <1>29 DEF TurnRxFails
  <1>30. CASE ClearMotionCancel
    BY <1>t, <1>30 DEF ClearMotionCancel
  <1>31. ASSUME NEW t \in Targets, WorkerBegins(t) PROVE TurnInv'
    BY <1>t, <1>31 DEF WorkerBegins
  <1>32. CASE WorkerSeesIdle
    BY <1>t, <1>32 DEF WorkerSeesIdle
  <1>33. CASE WorkerTriggers
    BY <1>t, <1>33 DEF WorkerTriggers
  <1>34. CASE WorkerPolls
    BY <1>t, <1>34 DEF WorkerPolls
  <1>35. CASE WorkerAborts
    BY <1>t, <1>35 DEF WorkerAborts
  <1>36. CASE CancelMotion
    BY <1>t, <1>36 DEF CancelMotion
  <1>37. CASE Stop
    BY <1>t, <1>37 DEF Stop
  <1>38. CASE RobotReceives
    BY <1>t, <1>38 DEF RobotReceives
  <1>39. CASE RobotFinishes
    BY <1>t, <1>39 DEF RobotFinishes
  <1>40. CASE RobotReports
    BY <1>t, <1>40 DEF RobotReports
  <1>41. CASE LosePath
    BY <1>t, <1>41 DEF LosePath
  <1>42. CASE LoseTurn
    BY <1>t, <1>42 DEF LoseTurn
  <1>43. CASE UNCHANGED vars
    BY <1>t, <1>43 DEF vars
  <1> QED
    BY <1>1, <1>2, <1>3, <1>4, <1>5, <1>6, <1>7, <1>8, <1>9, <1>10,
       <1>11, <1>12, <1>13, <1>14, <1>15, <1>16, <1>17, <1>18,
       <1>19, <1>20, <1>21, <1>22, <1>23, <1>24, <1>25, <1>26,
       <1>27, <1>28, <1>29, <1>30, <1>31, <1>32, <1>33, <1>34,
       <1>35, <1>36, <1>37, <1>38, <1>39, <1>40, <1>41, <1>42,
       <1>43
    DEF Next, Starter, Tx, Rx, TurnTx, TurnRx, Worker, Others, Robot, Network

\* _turntable_ready_for_execute always belongs to the present current_target:
\* the last angle sent to the turntable is that target's.
THEOREM TurnAllowsExecuteCorrect == Spec => []TurnAllowsExecute
  <1>1. TypeOK /\ TurnInv /\ [Next]_vars => TurnInv'
    BY NextTurnInv
  <1>2. TurnInv => TurnAllowsExecute
    BY DEF TurnInv
  <1> QED
    BY TypeCorrect, InitTurnInv, <1>1, <1>2, PTL DEF Spec

\* Only _tx_loop under the lock decides on an Execute=1.
ExecuteKept == tx'.execute \in {tx.execute, NoTarget}

\* No other step than TxBuilds puts an Execute=1 in the hands of _tx_loop.
LEMMA OnlyTxBuilds == TypeOK /\ [Next]_vars => (TxBuilds \/ ExecuteKept)
  <1> SUFFICES ASSUME TypeOK, [Next]_vars PROVE (TxBuilds \/ ExecuteKept)
    OBVIOUS
  <1>t. ThreadsTypeOK
    BY DEF TypeOK
  <1> USE DEF ThreadsTypeOK, ExecuteKept, TxAt, clientVars, pathVars, restVars
  <1>1. CASE StartPath
    BY <1>t, <1>1 DEF StartPath
  <1>2. CASE StarterInstalls
    BY <1>t, <1>2 DEF StarterInstalls
  <1>3. CASE StarterGivesUp
    BY <1>t, <1>3 DEF StarterGivesUp
  <1>4. CASE StartTurn
    BY <1>t, <1>4 DEF StartTurn
  <1>5. CASE StarterInstallsTurn
    BY <1>t, <1>5 DEF StarterInstallsTurn
  <1>6. CASE StarterGivesUpTurn
    BY <1>t, <1>6 DEF StarterGivesUpTurn
  <1>7. CASE TxExit
    BY <1>t, <1>7 DEF TxExit
  <1>8. CASE TxDials
    BY <1>t, <1>8 DEF TxDials
  <1>9. CASE TxInstalls
    BY <1>t, <1>9 DEF TxInstalls
  <1>10. CASE TxDialFails
    BY <1>t, <1>10 DEF TxDialFails
  <1>11. CASE TxBuilds
    BY <1>t, <1>11 DEF TxBuilds
  <1>12. CASE TxSends
    BY <1>t, <1>12 DEF TxSends
  <1>13. CASE TxSendFails
    BY <1>t, <1>13 DEF TxSendFails
  <1>14. CASE TxMarks
    BY <1>t, <1>14 DEF TxMarks
  <1>15. CASE RxExit
    BY <1>t, <1>15 DEF RxExit
  <1>16. CASE RxListens
    BY <1>t, <1>16 DEF RxListens
  <1>17. CASE RxHandles
    BY <1>t, <1>17 DEF RxHandles
  <1>18. CASE RxFails
    BY <1>t, <1>18 DEF RxFails
  <1>19. CASE TurnTxExit
    BY <1>t, <1>19 DEF TurnTxExit
  <1>20. CASE TurnTxDials
    BY <1>t, <1>20 DEF TurnTxDials
  <1>21. CASE TurnTxInstalls
    BY <1>t, <1>21 DEF TurnTxInstalls
  <1>22. CASE TurnTxDialFails
    BY <1>t, <1>22 DEF TurnTxDialFails
  <1>23. CASE TurnTxReads
    BY <1>t, <1>23 DEF TurnTxReads
  <1>24. CASE TurnTxSends
    BY <1>t, <1>24 DEF TurnTxSends
  <1>25. CASE TurnTxSendFails
    BY <1>t, <1>25 DEF TurnTxSendFails
  <1>26. CASE TurnTxMarks
    BY <1>t, <1>26 DEF TurnTxMarks
  <1>27. CASE TurnRxExit
    BY <1>t, <1>27 DEF TurnRxExit
  <1>28. CASE TurnRxListens
    BY <1>t, <1>28 DEF TurnRxListens
  <1>29. CASE TurnRxFails
    BY <1>t, <1>29 DEF TurnRxFails
  <1>30. CASE ClearMotionCancel
    BY <1>t, <1>30 DEF ClearMotionCancel
  <1>31. ASSUME NEW t \in Targets, WorkerBegins(t) PROVE (TxBuilds \/ ExecuteKept)
    BY <1>t, <1>31 DEF WorkerBegins
  <1>32. CASE WorkerSeesIdle
    BY <1>t, <1>32 DEF WorkerSeesIdle
  <1>33. CASE WorkerTriggers
    BY <1>t, <1>33 DEF WorkerTriggers
  <1>34. CASE WorkerPolls
    BY <1>t, <1>34 DEF WorkerPolls
  <1>35. CASE WorkerAborts
    BY <1>t, <1>35 DEF WorkerAborts
  <1>36. CASE CancelMotion
    BY <1>t, <1>36 DEF CancelMotion
  <1>37. CASE Stop
    BY <1>t, <1>37 DEF Stop
  <1>38. CASE RobotReceives
    BY <1>t, <1>38 DEF RobotReceives
  <1>39. CASE RobotFinishes
    BY <1>t, <1>39 DEF RobotFinishes
  <1>40. CASE RobotReports
    BY <1>t, <1>40 DEF RobotReports
  <1>41. CASE LosePath
    BY <1>t, <1>41 DEF LosePath
  <1>42. CASE LoseTurn
    BY <1>t, <1>42 DEF LoseTurn
  <1>43. CASE UNCHANGED vars
    BY <1>t, <1>43 DEF vars
  <1> QED
    BY <1>1, <1>2, <1>3, <1>4, <1>5, <1>6, <1>7, <1>8, <1>9, <1>10,
       <1>11, <1>12, <1>13, <1>14, <1>15, <1>16, <1>17, <1>18,
       <1>19, <1>20, <1>21, <1>22, <1>23, <1>24, <1>25, <1>26,
       <1>27, <1>28, <1>29, <1>30, <1>31, <1>32, <1>33, <1>34,
       <1>35, <1>36, <1>37, <1>38, <1>39, <1>40, <1>41, <1>42,
       <1>43
    DEF Next, Starter, Tx, Rx, TurnTx, TurnRx, Worker, Others, Robot, Network

\* _tx_loop never builds an Execute=1 packet for a pose whose angle was not the
\* last one sent to the turntable.
THEOREM ExecuteAfterTurnCorrect == Spec => ExecuteAfterTurn
  <1> DEFINE Allowed == tx.execute = NoTarget /\ tx'.execute # NoTarget
                          => turnSent = WireTurn[tx'.execute]
  <1>1. TypeOK /\ TurnAllowsExecute /\ [Next]_vars => [Allowed]_vars
    <2> SUFFICES ASSUME TypeOK, TurnAllowsExecute, [Next]_vars PROVE Allowed
      OBVIOUS
    <2>1. CASE TxBuilds
      <3>1. CASE CanSendExecute
        BY <2>1, <3>1 DEF TxBuilds, CanSendExecute, TurnAllowsExecute
      <3>2. CASE ~CanSendExecute
        BY <2>1, <3>2 DEF TxBuilds
      <3> QED
        BY <3>1, <3>2
    <2>2. CASE ExecuteKept
      BY <2>2 DEF ExecuteKept
    <2> QED
      BY OnlyTxBuilds, <2>1, <2>2
  <1> QED
    BY TypeCorrect, TurnAllowsExecuteCorrect, <1>1, PTL DEF Spec, ExecuteAfterTurn

-----------------------------------------------------------------------------
(***************************************************************************)
(* What a finished motion means, for a controller whose motions outlast a  *)
(* round trip (LateExecute is FALSE).  The worker polls robot_status only, *)
(* so the argument is about what the statuses still on their way can say.  *)
(***************************************************************************)

\* All of a queue says s.
Only(q, s) == \A i \in DOMAIN q : q[i] = s

\* Once q has said s, it says nothing else.
EndsWith(q, s) == \A i, j \in DOMAIN q : i < j /\ q[i] = s => q[j] = s

\* After this status the client hears nothing else.
Settles(s) ==
    /\ EndsWith(fromRobot, s)
    /\ robotStatus = s => Only(fromRobot, s)

\* An Execute=1 that the robot will receive if the link holds.
OnItsWay == conn = "up" /\ tx.sock = "live" /\ tx.execute # NoTarget

\* The robot may still be told to move.
Owed == \/ conn = "up" /\ pendingExecute
        \/ OnItsWay \/ toRobot # <<>>

\* Only a link that is up holds packets.
LinkInv == conn # "up" => toRobot = <<>> /\ fromRobot = <<>>

\* A pending execute was withdrawn by the first MOVING.
PendingInv == pendingExecute => robotStatus # "MOVING"

\* Every Execute=1 on its way is for the present target, and the turntable was
\* sent that target's angle and is sent no other.
PacketInv ==
    /\ Only(toRobot, currentTarget)
    /\ OnItsWay => tx.execute = currentTarget
    /\ OnItsWay \/ toRobot # <<>> =>
         /\ turnSent = WireTurn[currentTarget]
         /\ turnTx.pc \in {"send", "mark"} => turnTx.wire = WireTurn[currentTarget]

\* While the worker waits, the target is its own.
TargetInv == worker.pc \in {"waitMoving", "waitIdle"} => currentTarget = worker.target

\* The stages of a motion: the client has heard of nothing since it asked, the
\* robot is on its way, it is there and will not be sent anywhere else.
NotStarted == ~robot.moving /\ robotStatus # "MOVING" /\ Only(fromRobot, "IDLE")
OnTheMove  == robot.moving /\ robot.goal = worker.target
Arrived    == ~robot.moving /\ robot.pose = worker.target /\ ~Owed /\ Settles("IDLE")

\* A worker that is not waiting has nothing under way that could look like an
\* answer.
RestInv ==
    worker.pc \in {"idle", "done", "ensure", "trigger"} =>
        /\ ~Owed /\ Settles("IDLE")
        /\ robot.moving => robotStatus # "IDLE" /\ Only(fromRobot, "MOVING")

\* A worker that waits is in one of the stages, and what the robot may still say
\* cannot be taken for a later one.
StageInv ==
    /\ worker.pc = "trigger" => NotStarted
    /\ worker.pc = "waitMoving" => \/ NotStarted
                                   \/ OnTheMove /\ Settles("MOVING")
                                   \/ Arrived
    /\ worker.pc = "waitIdle" =>
         \/ OnTheMove /\ robotStatus # "IDLE" /\ Only(fromRobot, "MOVING")
         \/ Arrived
    /\ worker.pc = "done" => Arrived

MotionInv == LinkInv /\ PendingInv /\ PacketInv /\ TargetInv /\ RestInv /\ StageInv

\* What a queue of statuses or poses says when it is empty or has one entry.
LEMMA ShortQueue ==
  ASSUME NEW s, NEW t
  PROVE  /\ Only(<<>>, s) /\ EndsWith(<<>>, s)
         /\ Only(<<s>>, s) /\ EndsWith(<<t>>, s)
  BY DEF Only, EndsWith

\* What it says when the first entry is taken out.
LEMMA TailOfQueue ==
  ASSUME NEW T, NEW q \in Seq(T), q # <<>>, NEW s
  PROVE  /\ Only(q, s) => Head(q) = s /\ Only(Tail(q), s)
         /\ EndsWith(q, s) => /\ EndsWith(Tail(q), s)
                              /\ Head(q) = s => Only(Tail(q), s)
  <1>1. /\ Len(q) \in Nat \ {0} /\ DOMAIN q = 1..Len(q)
        /\ DOMAIN Tail(q) = 1..(Len(q) - 1) /\ Head(q) = q[1]
        /\ \A i \in DOMAIN Tail(q) : Tail(q)[i] = q[i + 1]
    OBVIOUS
  <1> QED
    BY <1>1 DEF Only, EndsWith

\* What it says when an entry is added.
LEMMA AppendToQueue ==
  ASSUME NEW T, NEW q \in Seq(T), NEW s \in T
  PROVE  /\ Only(q, s) => Only(Append(q, s), s)
         /\ \A t : t # s /\ Only(q, t) => EndsWith(Append(q, s), s)
  <1>1. /\ Len(q) \in Nat /\ DOMAIN q = 1..Len(q)
        /\ DOMAIN Append(q, s) = 1..(Len(q) + 1)
        /\ \A i \in DOMAIN q : Append(q, s)[i] = q[i]
        /\ Append(q, s)[Len(q) + 1] = s
    OBVIOUS
  <1> QED
    BY <1>1 DEF Only, EndsWith

\* At first no motion is under way.
LEMMA InitMotionInv == Init => MotionInv
  <1> SUFFICES ASSUME Init PROVE MotionInv
    OBVIOUS
  <1>1. /\ toRobot = <<>> /\ fromRobot = <<>> /\ pendingExecute = FALSE
        /\ tx.sock = "closed" /\ worker.pc = "idle" /\ ~robot.moving
    BY DEF Init, TxAt
  <1>2. LinkInv /\ PendingInv /\ TargetInv /\ StageInv
    BY <1>1 DEF LinkInv, PendingInv, TargetInv, StageInv
  <1>3. PacketInv
    BY <1>1, ShortQueue DEF PacketInv, OnItsWay
  <1>4. RestInv
    BY <1>1, ShortQueue DEF RestInv, Owed, OnItsWay, Settles
  <1> QED
    BY <1>2, <1>3, <1>4 DEF MotionInv

\* Packets are dropped with the link.
LEMMA NextLinkInv ==
  ASSUME TypeOK, LinkInv, [Next]_vars
  PROVE  LinkInv'
  <1>f. FieldsTypeOK /\ ThreadsTypeOK /\ ChannelsTypeOK
    BY DEF TypeOK
  <1>m. LinkInv
    OBVIOUS
  <1> USE DEF LinkInv, SafeClose, Install, clientVars, pathVars, turnVars, restVars
  <1>1. CASE Starter
    BY <1>f, <1>m, <1>1
    DEF Starter, StartPath, StarterInstalls, StarterGivesUp, StartTurn,
        StarterInstallsTurn, StarterGivesUpTurn
  <1>2. CASE Tx
    BY <1>f, <1>m, <1>2
    DEF Tx, TxExit, TxDials, TxInstalls, TxDialFails, TxBuilds, TxSends,
        TxSendFails, TxMarks
  <1>3. CASE Rx
    BY <1>f, <1>m, <1>3
    DEF Rx, RxExit, RxListens, RxHandles, RxFails
  <1>4. CASE TurnTx
    BY <1>f, <1>m, <1>4
    DEF TurnTx, TurnTxExit, TurnTxDials, TurnTxInstalls, TurnTxDialFails,
        TurnTxReads, TurnTxSends, TurnTxSendFails, TurnTxMarks
  <1>5. CASE TurnRx
    BY <1>f, <1>m, <1>5
    DEF TurnRx, TurnRxExit, TurnRxListens, TurnRxFails
  <1>6. CASE Worker
    BY <1>f, <1>m, <1>6
    DEF Worker, ClearMotionCancel, WorkerBegins, WorkerSeesIdle,
        WorkerTriggers, WorkerPolls, WorkerAborts
  <1>7. CASE Others
    BY <1>f, <1>m, <1>7
    DEF Others, CancelMotion, Stop
  <1>8. CASE Robot
    BY <1>f, <1>m, <1>8
    DEF Robot, RobotReceives, RobotFinishes, RobotReports
  <1>9. CASE Network
    BY <1>f, <1>m, <1>9
    DEF Network, LosePath, LoseTurn
  <1>10. CASE UNCHANGED vars
    BY <1>f, <1>m, <1>10 DEF vars
  <1> QED
    BY <1>1, <1>2, <1>3, <1>4, <1>5, <1>6, <1>7, <1>8, <1>9, <1>10
    DEF Next

\* An execute is asked for only of a robot that was not heard moving.
LEMMA NextPendingInv ==
  ASSUME LateExecute = FALSE, TypeOK, TurnInv, MotionInv, [Next]_vars
  PROVE  PendingInv'
  <1>f. FieldsTypeOK /\ ThreadsTypeOK /\ ChannelsTypeOK
    BY DEF TypeOK
  <1>m. LinkInv /\ PendingInv /\ PacketInv /\ TargetInv /\ RestInv /\ StageInv
    BY DEF MotionInv
  <1> USE DEF PendingInv, StageInv, NotStarted, FieldsTypeOK, SafeClose, Install,
          clientVars, pathVars, turnVars, restVars
  <1>1. CASE Starter
    BY <1>f, <1>m, <1>1
    DEF Starter, StartPath, StarterInstalls, StarterGivesUp, StartTurn,
        StarterInstallsTurn, StarterGivesUpTurn
  <1>2. CASE Tx
    BY <1>f, <1>m, <1>2
    DEF Tx, TxExit, TxDials, TxInstalls, TxDialFails, TxBuilds, TxSends,
        TxSendFails, TxMarks
  <1>3. CASE Rx
    BY <1>f, <1>m, <1>3
    DEF Rx, RxExit, RxListens, RxHandles, RxFails
  <1>4. CASE TurnTx
    BY <1>f, <1>m, <1>4
    DEF TurnTx, TurnTxExit, TurnTxDials, TurnTxInstalls, TurnTxDialFails,
        TurnTxReads, TurnTxSends, TurnTxSendFails, TurnTxMarks
  <1>5. CASE TurnRx
    BY <1>f, <1>m, <1>5
    DEF TurnRx, TurnRxExit, TurnRxListens, TurnRxFails
  <1>6. CASE Worker
    BY <1>f, <1>m, <1>6
    DEF Worker, ClearMotionCancel, WorkerBegins, WorkerSeesIdle,
        WorkerTriggers, WorkerPolls, WorkerAborts
  <1>7. CASE Others
    BY <1>f, <1>m, <1>7
    DEF Others, CancelMotion, Stop
  <1>8. CASE Robot
    BY <1>f, <1>m, <1>8
    DEF Robot, RobotReceives, RobotFinishes, RobotReports
  <1>9. CASE Network
    BY <1>f, <1>m, <1>9
    DEF Network, LosePath, LoseTurn
  <1>10. CASE UNCHANGED vars
    BY <1>f, <1>m, <1>10 DEF vars
  <1> QED
    BY <1>1, <1>2, <1>3, <1>4, <1>5, <1>6, <1>7, <1>8, <1>9, <1>10
    DEF Next

\* Every step keeps the packets in step with the turntable.
LEMMA NextPacketInv ==
  ASSUME LateExecute = FALSE, TypeOK, TurnInv, MotionInv, [Next]_vars
  PROVE  PacketInv'
  <1>f. FieldsTypeOK /\ ThreadsTypeOK /\ ChannelsTypeOK
    BY DEF TypeOK
  <1>m. LinkInv /\ PendingInv /\ PacketInv /\ TargetInv /\ RestInv /\ StageInv
    BY DEF MotionInv
  <1> USE DEF PacketInv, LinkInv, RestInv, Owed, OnItsWay,
          TurnInv, TurnAllowsExecute, CanSendExecute, ThreadsTypeOK, FieldsTypeOK,
          TxAt, TurnTxAt, Closed, Replaced, Holds, SafeClose, SafeCloseTurn, Install,
          InstallTurn, clientVars, pathVars, turnVars, restVars
  <1>1. CASE StartPath
    BY <1>f, <1>m, <1>1, ShortQueue DEF StartPath
  <1>2. CASE StarterInstalls
    BY <1>f, <1>m, <1>2, ShortQueue DEF StarterInstalls
  <1>3. CASE StarterGivesUp
    <2>1. CASE SafeClose /\ tx' = [tx EXCEPT !.sock = Closed(@)]
      BY <1>f, <1>m, <1>3, <2>1, ShortQueue DEF StarterGivesUp
    <2>2. CASE UNCHANGED <<conn, pendingExecute, executeSent, awaitingIdle, toRobot,
                           fromRobot, tx, rx, countVars>>
      BY <1>f, <1>m, <1>3, <2>2 DEF StarterGivesUp
    <2> QED
      BY <1>3, <2>1, <2>2 DEF StarterGivesUp
  <1>4. CASE StartTurn
    BY <1>f, <1>m, <1>4, ShortQueue DEF StartTurn
  <1>5. CASE StarterInstallsTurn
    BY <1>f, <1>m, <1>5, ShortQueue DEF StarterInstallsTurn
  <1>6. CASE StarterGivesUpTurn
    BY <1>f, <1>m, <1>6, ShortQueue DEF StarterGivesUpTurn
  <1>7. CASE TxExit
    BY <1>f, <1>m, <1>7, ShortQueue DEF TxExit
  <1>8. CASE TxDials
    BY <1>f, <1>m, <1>8, ShortQueue DEF TxDials
  <1>9. CASE TxInstalls
    BY <1>f, <1>m, <1>9, ShortQueue DEF TxInstalls
  <1>10. CASE TxDialFails
    BY <1>f, <1>m, <1>10, ShortQueue DEF TxDialFails
  <1>11. CASE TxBuilds
    BY <1>f, <1>m, <1>11, ShortQueue DEF TxBuilds
  <1>12. CASE TxSends
    <2>1. \/ toRobot' = toRobot
          \/ /\ tx.sock = "live" /\ conn = "up" /\ tx.execute \in Targets
             /\ toRobot' = Append(toRobot, tx.execute)
      BY <1>f, <1>12 DEF TxSends
    <2>2. Only(toRobot', currentTarget)
      <3>1. CASE toRobot' = toRobot
        BY <1>m, <3>1
      <3>2. CASE toRobot' = Append(toRobot, tx.execute) /\ OnItsWay
        <4>1. toRobot \in Seq(Targets) /\ currentTarget \in Targets
          BY <1>f DEF ChannelsTypeOK
        <4>2. toRobot' = Append(toRobot, currentTarget) /\ Only(toRobot, currentTarget)
          BY <1>m, <3>2
        <4> QED
          BY <4>1, <4>2, AppendToQueue
      <3> QED
        BY <2>1, <3>1, <3>2, NoValueAssumption
    <2>3. ~OnItsWay' /\ UNCHANGED <<currentTarget, turnSent, turnTx>>
      BY <1>12 DEF TxSends
    <2>4. toRobot' # <<>> => toRobot # <<>> \/ OnItsWay
      BY <2>1, NoValueAssumption
    <2> QED
      BY <1>m, <2>2, <2>3, <2>4
  <1>13. CASE TxSendFails
    BY <1>f, <1>m, <1>13, ShortQueue DEF TxSendFails
  <1>14. CASE TxMarks
    BY <1>f, <1>m, <1>14, ShortQueue DEF TxMarks
  <1>15. CASE RxExit
    BY <1>f, <1>m, <1>15, ShortQueue DEF RxExit
  <1>16. CASE RxListens
    BY <1>f, <1>m, <1>16, ShortQueue DEF RxListens
  <1>17. CASE RxHandles
    BY <1>f, <1>m, <1>17, ShortQueue DEF RxHandles
  <1>18. CASE RxFails
    BY <1>f, <1>m, <1>18, ShortQueue DEF RxFails
  <1>19. CASE TurnTxExit
    BY <1>f, <1>m, <1>19, ShortQueue DEF TurnTxExit
  <1>20. CASE TurnTxDials
    BY <1>f, <1>m, <1>20, ShortQueue DEF TurnTxDials
  <1>21. CASE TurnTxInstalls
    BY <1>f, <1>m, <1>21, ShortQueue DEF TurnTxInstalls
  <1>22. CASE TurnTxDialFails
    BY <1>f, <1>m, <1>22, ShortQueue DEF TurnTxDialFails
  <1>23. CASE TurnTxReads
    BY <1>f, <1>m, <1>23, ShortQueue DEF TurnTxReads
  <1>24. CASE TurnTxSends
    BY <1>f, <1>m, <1>24, ShortQueue DEF TurnTxSends
  <1>25. CASE TurnTxSendFails
    BY <1>f, <1>m, <1>25, ShortQueue DEF TurnTxSendFails
  <1>26. CASE TurnTxMarks
    BY <1>f, <1>m, <1>26, ShortQueue DEF TurnTxMarks
  <1>27. CASE TurnRx
    BY <1>f, <1>m, <1>27, ShortQueue
    DEF TurnRx, TurnRxExit, TurnRxListens, TurnRxFails
  <1>28. CASE ClearMotionCancel
    BY <1>f, <1>m, <1>28, ShortQueue DEF ClearMotionCancel
  <1>29. ASSUME NEW t \in Targets, WorkerBegins(t) PROVE PacketInv'
    BY <1>f, <1>m, <1>29, ShortQueue DEF WorkerBegins
  <1>30. CASE WorkerSeesIdle
    BY <1>f, <1>m, <1>30, ShortQueue DEF WorkerSeesIdle
  <1>31. CASE WorkerTriggers
    <2>1. toRobot = <<>> /\ ~OnItsWay
      BY <1>m, <1>31 DEF WorkerTriggers
    <2>2. UNCHANGED <<toRobot, conn, tx>>
      BY <1>31 DEF WorkerTriggers
    <2> QED
      BY <2>1, <2>2, ShortQueue
  <1>32. CASE WorkerPolls
    BY <1>f, <1>m, <1>32, ShortQueue DEF WorkerPolls
  <1>33. CASE WorkerAborts
    BY <1>f, <1>m, <1>33, ShortQueue DEF WorkerAborts
  <1>34. CASE CancelMotion
    BY <1>f, <1>m, <1>34, ShortQueue DEF CancelMotion
  <1>35. CASE Stop
    BY <1>f, <1>m, <1>35, ShortQueue DEF Stop
  <1>36. CASE RobotReceives
    <2>1. /\ toRobot # <<>> /\ toRobot' = Tail(toRobot)
          /\ UNCHANGED <<currentTarget, conn, tx, turnSent, turnTx>>
      BY <1>36 DEF RobotReceives
    <2>2. Only(toRobot', currentTarget)
      BY <1>f, <1>m, <2>1, TailOfQueue DEF ChannelsTypeOK
    <2> QED
      BY <1>m, <2>1, <2>2
  <1>37. CASE RobotFinishes
    BY <1>f, <1>m, <1>37, ShortQueue DEF RobotFinishes
  <1>38. CASE RobotReports
    BY <1>f, <1>m, <1>38, ShortQueue DEF RobotReports
  <1>39. CASE LosePath
    BY <1>f, <1>m, <1>39, ShortQueue DEF LosePath
  <1>40. CASE LoseTurn
    BY <1>f, <1>m, <1>40, ShortQueue DEF LoseTurn
  <1>41. CASE UNCHANGED vars
    BY <1>f, <1>m, <1>41 DEF vars
  <1> QED
    BY <1>1, <1>2, <1>3, <1>4, <1>5, <1>6, <1>7, <1>8, <1>9, <1>10, <1>11,
        <1>12, <1>13, <1>14, <1>15, <1>16, <1>17, <1>18, <1>19, <1>20, <1>21,
        <1>22, <1>23, <1>24, <1>25, <1>26, <1>27, <1>28, <1>29, <1>30, <1>31,
        <1>32, <1>33, <1>34, <1>35, <1>36, <1>37, <1>38, <1>39, <1>40, <1>41
    DEF Next, Starter, Tx, Rx, TurnTx, Worker, Others, Robot, Network

\* The target changes only when a worker triggers its own.
LEMMA NextTargetInv ==
  ASSUME LateExecute = FALSE, TypeOK, TurnInv, MotionInv, [Next]_vars
  PROVE  TargetInv'
  <1>f. FieldsTypeOK /\ ThreadsTypeOK /\ ChannelsTypeOK
    BY DEF TypeOK
  <1>m. LinkInv /\ PendingInv /\ PacketInv /\ TargetInv /\ RestInv /\ StageInv
    BY DEF MotionInv
  <1> USE DEF TargetInv, ThreadsTypeOK, clientVars, pathVars, turnVars, restVars
  <1>1. CASE Starter
    BY <1>f, <1>m, <1>1
    DEF Starter, StartPath, StarterInstalls, StarterGivesUp, StartTurn,
        StarterInstallsTurn, StarterGivesUpTurn
  <1>2. CASE Tx
    BY <1>f, <1>m, <1>2
    DEF Tx, TxExit, TxDials, TxInstalls, TxDialFails, TxBuilds, TxSends,
        TxSendFails, TxMarks
  <1>3. CASE Rx
    BY <1>f, <1>m, <1>3
    DEF Rx, RxExit, RxListens, RxHandles, RxFails
  <1>4. CASE TurnTx
    BY <1>f, <1>m, <1>4
    DEF TurnTx, TurnTxExit, TurnTxDials, TurnTxInstalls, TurnTxDialFails,
        TurnTxReads, TurnTxSends, TurnTxSendFails, TurnTxMarks
  <1>5. CASE TurnRx
    BY <1>f, <1>m, <1>5
    DEF TurnRx, TurnRxExit, TurnRxListens, TurnRxFails
  <1>6. CASE Worker
    BY <1>f, <1>m, <1>6
    DEF Worker, ClearMotionCancel, WorkerBegins, WorkerSeesIdle,
        WorkerTriggers, WorkerPolls, WorkerAborts
  <1>7. CASE Others
    BY <1>f, <1>m, <1>7
    DEF Others, CancelMotion, Stop
  <1>8. CASE Robot
    BY <1>f, <1>m, <1>8
    DEF Robot, RobotReceives, RobotFinishes, RobotReports
  <1>9. CASE Network
    BY <1>f, <1>m, <1>9
    DEF Network, LosePath, LoseTurn
  <1>10. CASE UNCHANGED vars
    BY <1>f, <1>m, <1>10 DEF vars
  <1> QED
    BY <1>1, <1>2, <1>3, <1>4, <1>5, <1>6, <1>7, <1>8, <1>9, <1>10
    DEF Next

\* A cycle that begins when the last one has settled begins with nothing under way.
LEMMA RestartRests ==
  ASSUME TypeOK, ClearMotionCancel, ~unsettled'
  PROVE  /\ ~Owed' /\ Settles("IDLE")'
         /\ robot'.moving => robotStatus' # "IDLE" /\ Only(fromRobot', "MOVING")
         /\ ~pendingExecute' /\ ~OnItsWay' /\ toRobot' = <<>>
         /\ worker'.pc = "idle"
  <1>1. /\ Settled /\ worker'.pc = "idle"
        /\ UNCHANGED <<robotStatus, pendingExecute, conn, tx, toRobot, fromRobot, robot>>
    BY DEF ClearMotionCancel, pathVars, TypeOK, ThreadsTypeOK
  <1>2. ~Owed /\ ~OnItsWay /\ ~pendingExecute /\ toRobot = <<>>
    BY <1>1 DEF Settled, ExecuteInFlight, Owed, OnItsWay
  <1>3. CASE robot.moving
    <2>1. Only(fromRobot, "MOVING") /\ robotStatus # "IDLE"
      BY <1>1, <1>3 DEF Settled, RobotReport, Only
    <2> QED
      BY <1>1, <1>2, <2>1 DEF Settles, EndsWith, Only, Owed, OnItsWay
  <1>4. CASE ~robot.moving
    <2>1. Only(fromRobot, "IDLE")
      BY <1>1, <1>4 DEF Settled, RobotReport, Only
    <2> QED
      BY <1>1, <1>2, <1>4, <2>1 DEF Settles, EndsWith, Only, Owed, OnItsWay
  <1> QED
    BY <1>3, <1>4

\* Every step leaves a worker that is not waiting with nothing under way.
LEMMA NextRestInv ==
  ASSUME LateExecute = FALSE, TypeOK, TurnInv, MotionInv, [Next]_vars, ~unsettled'
  PROVE  RestInv'
  <1>f. FieldsTypeOK /\ ThreadsTypeOK /\ ChannelsTypeOK
    BY DEF TypeOK
  <1>m. LinkInv /\ PendingInv /\ PacketInv /\ TargetInv /\ RestInv /\ StageInv
    BY DEF MotionInv
  <1> USE DEF RestInv, StageInv, NotStarted, Arrived, PendingInv, Settled, ExecuteInFlight,
          Owed, OnItsWay, CanSendExecute, Settles, LinkInv, FieldsTypeOK,
          ThreadsTypeOK, TxAt, Closed, Replaced, Holds, Statuses, SafeClose, Install,
          RobotReport, clientVars, pathVars, turnVars, restVars
  <1>1. CASE StartPath
    BY <1>f, <1>m, <1>1, ShortQueue DEF StartPath
  <1>2. CASE StarterInstalls
    BY <1>f, <1>m, <1>2, ShortQueue DEF StarterInstalls
  <1>3. CASE StarterGivesUp
    <2>1. CASE SafeClose /\ tx' = [tx EXCEPT !.sock = Closed(@)]
      BY <1>f, <1>m, <1>3, <2>1, ShortQueue DEF StarterGivesUp
    <2>2. CASE UNCHANGED <<conn, pendingExecute, executeSent, awaitingIdle, toRobot,
                           fromRobot, tx, rx, countVars>>
      BY <1>f, <1>m, <1>3, <2>2 DEF StarterGivesUp
    <2> QED
      BY <1>3, <2>1, <2>2 DEF StarterGivesUp
  <1>4. CASE StartTurn
    BY <1>f, <1>m, <1>4, ShortQueue DEF StartTurn
  <1>5. CASE StarterInstallsTurn
    BY <1>f, <1>m, <1>5, ShortQueue DEF StarterInstallsTurn
  <1>6. CASE StarterGivesUpTurn
    BY <1>f, <1>m, <1>6, ShortQueue DEF StarterGivesUpTurn
  <1>7. CASE TxExit
    BY <1>f, <1>m, <1>7, ShortQueue DEF TxExit
  <1>8. CASE TxDials
    BY <1>f, <1>m, <1>8, ShortQueue DEF TxDials
  <1>9. CASE TxInstalls
    BY <1>f, <1>m, <1>9, ShortQueue DEF TxInstalls
  <1>10. CASE TxDialFails
    BY <1>f, <1>m, <1>10, ShortQueue DEF TxDialFails
  <1>11. CASE TxBuilds
    BY <1>f, <1>m, <1>11, ShortQueue DEF TxBuilds
  <1>12. CASE TxSends
    BY <1>f, <1>m, <1>12, ShortQueue DEF TxSends
  <1>13. CASE TxSendFails
    BY <1>f, <1>m, <1>13, ShortQueue DEF TxSendFails
  <1>14. CASE TxMarks
    BY <1>f, <1>m, <1>14, ShortQueue DEF TxMarks
  <1>15. CASE RxExit
    BY <1>f, <1>m, <1>15, ShortQueue DEF RxExit
  <1>16. CASE RxListens
    BY <1>f, <1>m, <1>16, ShortQueue DEF RxListens
  <1>17. CASE RxHandles
    <2>1. /\ fromRobot # <<>> /\ fromRobot' = Tail(fromRobot)
          /\ pendingExecute' => pendingExecute
          /\ robotStatus' = robotStatus \/ robotStatus' = Head(fromRobot)
          /\ UNCHANGED <<conn, tx, toRobot, worker, robot>>
      BY <1>f, <1>17 DEF RxHandles
    <2>2. /\ Owed' => Owed
          /\ \A s : Only(fromRobot, s) => Head(fromRobot) = s /\ Only(fromRobot', s)
          /\ \A s : Settles(s) => Settles(s)'
      <3>1. \A s : Only(fromRobot, s) => Head(fromRobot) = s /\ Only(Tail(fromRobot), s)
        BY <1>f, <2>1, TailOfQueue DEF ChannelsTypeOK
      <3>2. \A s : EndsWith(fromRobot, s) =>
              /\ EndsWith(Tail(fromRobot), s)
              /\ Head(fromRobot) = s => Only(Tail(fromRobot), s)
        BY <1>f, <2>1, TailOfQueue DEF ChannelsTypeOK
      <3> QED
        BY <2>1, <3>1, <3>2
    <2> HIDE DEF Owed, Settles
    <2> QED
      BY <1>m, <2>1, <2>2
  <1>18. CASE RxFails
    BY <1>f, <1>m, <1>18, ShortQueue DEF RxFails
  <1>19. CASE TurnTx
    BY <1>f, <1>m, <1>19, ShortQueue
    DEF TurnTx, TurnTxExit, TurnTxDials, TurnTxInstalls, TurnTxDialFails,
        TurnTxReads, TurnTxSends, TurnTxSendFails, TurnTxMarks
  <1>20. CASE TurnRx
    BY <1>f, <1>m, <1>20, ShortQueue
    DEF TurnRx, TurnRxExit, TurnRxListens, TurnRxFails
  <1>21. CASE ClearMotionCancel
    BY <1>21, RestartRests DEF RestInv
  <1>22. ASSUME NEW t \in Targets, WorkerBegins(t) PROVE RestInv'
    BY <1>f, <1>m, <1>22, ShortQueue DEF WorkerBegins
  <1>23. CASE WorkerSeesIdle
    BY <1>f, <1>m, <1>23, ShortQueue DEF WorkerSeesIdle
  <1>24. CASE WorkerTriggers
    BY <1>f, <1>m, <1>24, ShortQueue DEF WorkerTriggers
  <1>25. CASE WorkerPolls
    BY <1>f, <1>m, <1>25, ShortQueue DEF WorkerPolls
  <1>26. CASE WorkerAborts
    BY <1>f, <1>m, <1>26, ShortQueue DEF WorkerAborts
  <1>27. CASE CancelMotion
    BY <1>f, <1>m, <1>27, ShortQueue DEF CancelMotion
  <1>28. CASE Stop
    BY <1>f, <1>m, <1>28, ShortQueue DEF Stop
  <1>29. CASE RobotReceives
    BY <1>f, <1>m, <1>29, ShortQueue DEF RobotReceives
  <1>30. CASE RobotFinishes
    <2>1. /\ robot.moving /\ ~robot'.moving /\ robot'.pose = robot.goal
          /\ UNCHANGED <<robotStatus, pendingExecute, conn, tx, toRobot, worker>>
      BY <1>f, <1>30 DEF RobotFinishes
    <2>2. conn # "up" \/ (~ExecuteInFlight /\ robotStatus = "MOVING")
      BY <1>30 DEF RobotFinishes
    <2>3. ~Owed'
      BY <1>m, <2>1, <2>2
    <2>4. fromRobot' = fromRobot \/ fromRobot' = Append(fromRobot, "IDLE")
      BY <1>30 DEF RobotFinishes
    <2>5. conn # "up" => fromRobot' = <<>>
      BY <1>m, <1>30 DEF RobotFinishes
    <2>6. Only(fromRobot, "MOVING") => EndsWith(fromRobot', "IDLE")
      <3>1. "IDLE" \in Statuses /\ fromRobot \in Seq(Statuses) /\ "MOVING" # "IDLE"
        BY <1>f DEF ChannelsTypeOK
      <3>2. Only(fromRobot, "MOVING") => EndsWith(Append(fromRobot, "IDLE"), "IDLE")
        BY <3>1, AppendToQueue
      <3>3. fromRobot' = Append(fromRobot, "IDLE") \/ conn # "up"
        BY <1>30 DEF RobotFinishes
      <3> QED
        BY <2>5, <3>2, <3>3, ShortQueue
    <2>7. worker.pc \in {"idle", "done", "ensure", "trigger"} => Settles("IDLE")'
      <3>1. CASE conn # "up"
        BY <2>5, <3>1, ShortQueue
      <3>2. CASE robotStatus = "MOVING"
        BY <1>m, <2>1, <2>6, <3>2
      <3> QED
        BY <2>2, <3>1, <3>2
    <2> HIDE DEF Owed, Settles
    <2> QED
      BY <2>1, <2>3, <2>7
  <1>31. CASE RobotReports
    BY <1>f, <1>m, <1>31, ShortQueue DEF RobotReports
  <1>32. CASE LosePath
    BY <1>f, <1>m, <1>32, ShortQueue DEF LosePath
  <1>33. CASE LoseTurn
    BY <1>f, <1>m, <1>33, ShortQueue DEF LoseTurn
  <1>34. CASE UNCHANGED vars
    BY <1>f, <1>m, <1>34 DEF vars
  <1> QED
    BY <1>1, <1>2, <1>3, <1>4, <1>5, <1>6, <1>7, <1>8, <1>9, <1>10, <1>11,
        <1>12, <1>13, <1>14, <1>15, <1>16, <1>17, <1>18, <1>19, <1>20, <1>21,
        <1>22, <1>23, <1>24, <1>25, <1>26, <1>27, <1>28, <1>29, <1>30, <1>31,
        <1>32, <1>33, <1>34
    DEF Next, Starter, Tx, Rx, Worker, Others, Robot, Network

\* Every step keeps the stage of a motion or takes it to the next one.
LEMMA NextStageInv ==
  ASSUME LateExecute = FALSE, TypeOK, TurnInv, MotionInv, [Next]_vars
  PROVE  StageInv'
  <1>f. FieldsTypeOK /\ ThreadsTypeOK /\ ChannelsTypeOK
    BY DEF TypeOK
  <1>m. LinkInv /\ PendingInv /\ PacketInv /\ TargetInv /\ RestInv /\ StageInv
    BY DEF MotionInv
  <1> USE DEF StageInv, RestInv, PendingInv, PacketInv, TargetInv, NotStarted, OnTheMove,
          Arrived, ExecuteInFlight,
          Owed, OnItsWay, CanSendExecute, Settles, LinkInv, FieldsTypeOK,
          ThreadsTypeOK, TxAt, Closed, Replaced, Holds, Statuses, SafeClose, Install,
          RobotReport, clientVars, pathVars, turnVars, restVars
  <1>1. CASE StartPath
    BY <1>f, <1>m, <1>1, ShortQueue DEF StartPath
  <1>2. CASE StarterInstalls
    BY <1>f, <1>m, <1>2, ShortQueue DEF StarterInstalls
  <1>3. CASE StarterGivesUp
    <2>1. CASE SafeClose /\ tx' = [tx EXCEPT !.sock = Closed(@)]
      BY <1>f, <1>m, <1>3, <2>1, ShortQueue DEF StarterGivesUp
    <2>2. CASE UNCHANGED <<conn, pendingExecute, executeSent, awaitingIdle, toRobot,
                           fromRobot, tx, rx, countVars>>
      BY <1>f, <1>m, <1>3, <2>2 DEF StarterGivesUp
    <2> QED
      BY <1>3, <2>1, <2>2 DEF StarterGivesUp
  <1>4. CASE StartTurn
    BY <1>f, <1>m, <1>4, ShortQueue DEF StartTurn
  <1>5. CASE StarterInstallsTurn
    BY <1>f, <1>m, <1>5, ShortQueue DEF StarterInstallsTurn
  <1>6. CASE StarterGivesUpTurn
    BY <1>f, <1>m, <1>6, ShortQueue DEF StarterGivesUpTurn
  <1>7. CASE TxExit
    BY <1>f, <1>m, <1>7, ShortQueue DEF TxExit
  <1>8. CASE TxDials
    BY <1>f, <1>m, <1>8, ShortQueue DEF TxDials
  <1>9. CASE TxInstalls
    BY <1>f, <1>m, <1>9, ShortQueue DEF TxInstalls
  <1>10. CASE TxDialFails
    BY <1>f, <1>m, <1>10, ShortQueue DEF TxDialFails
  <1>11. CASE TxBuilds
    BY <1>f, <1>m, <1>11, ShortQueue DEF TxBuilds
  <1>12. CASE TxSends
    BY <1>f, <1>m, <1>12, ShortQueue DEF TxSends
  <1>13. CASE TxSendFails
    BY <1>f, <1>m, <1>13, ShortQueue DEF TxSendFails
  <1>14. CASE TxMarks
    BY <1>f, <1>m, <1>14, ShortQueue DEF TxMarks
  <1>15. CASE RxExit
    BY <1>f, <1>m, <1>15, ShortQueue DEF RxExit
  <1>16. CASE RxListens
    BY <1>f, <1>m, <1>16, ShortQueue DEF RxListens
  <1>17. CASE RxHandles
    <2>1. /\ fromRobot # <<>> /\ fromRobot' = Tail(fromRobot)
          /\ pendingExecute' => pendingExecute
          /\ robotStatus' = robotStatus \/ robotStatus' = Head(fromRobot)
          /\ UNCHANGED <<conn, tx, toRobot, worker, robot>>
      BY <1>f, <1>17 DEF RxHandles
    <2>2. /\ Owed' => Owed
          /\ \A s : Only(fromRobot, s) => Head(fromRobot) = s /\ Only(fromRobot', s)
          /\ \A s : Settles(s) => Settles(s)'
      <3>1. \A s : Only(fromRobot, s) => Head(fromRobot) = s /\ Only(Tail(fromRobot), s)
        BY <1>f, <2>1, TailOfQueue DEF ChannelsTypeOK
      <3>2. \A s : EndsWith(fromRobot, s) =>
              /\ EndsWith(Tail(fromRobot), s)
              /\ Head(fromRobot) = s => Only(Tail(fromRobot), s)
        BY <1>f, <2>1, TailOfQueue DEF ChannelsTypeOK
      <3> QED
        BY <2>1, <3>1, <3>2
    <2> HIDE DEF Owed, Settles
    <2> QED
      BY <1>m, <2>1, <2>2
  <1>18. CASE RxFails
    BY <1>f, <1>m, <1>18, ShortQueue DEF RxFails
  <1>19. CASE TurnTx
    BY <1>f, <1>m, <1>19, ShortQueue
    DEF TurnTx, TurnTxExit, TurnTxDials, TurnTxInstalls, TurnTxDialFails,
        TurnTxReads, TurnTxSends, TurnTxSendFails, TurnTxMarks
  <1>20. CASE TurnRx
    BY <1>f, <1>m, <1>20, ShortQueue
    DEF TurnRx, TurnRxExit, TurnRxListens, TurnRxFails
  <1>21. CASE ClearMotionCancel
    BY <1>f, <1>m, <1>21, ShortQueue DEF ClearMotionCancel
  <1>22. ASSUME NEW t \in Targets, WorkerBegins(t) PROVE StageInv'
    BY <1>f, <1>m, <1>22, ShortQueue DEF WorkerBegins
  <1>23. CASE WorkerSeesIdle
    BY <1>f, <1>m, <1>23, ShortQueue DEF WorkerSeesIdle
  <1>24. CASE WorkerTriggers
    BY <1>f, <1>m, <1>24, ShortQueue DEF WorkerTriggers
  <1>25. CASE WorkerPolls
    BY <1>f, <1>m, <1>25, ShortQueue DEF WorkerPolls
  <1>26. CASE WorkerAborts
    BY <1>f, <1>m, <1>26, ShortQueue DEF WorkerAborts
  <1>27. CASE CancelMotion
    BY <1>f, <1>m, <1>27, ShortQueue DEF CancelMotion
  <1>28. CASE Stop
    BY <1>f, <1>m, <1>28, ShortQueue DEF Stop
  <1>29. CASE RobotReceives
    <2>1. /\ toRobot # <<>> /\ toRobot' = Tail(toRobot) /\ Head(toRobot) = currentTarget
          /\ UNCHANGED <<robotStatus, pendingExecute, conn, tx, worker>>
      BY <1>f, <1>m, <1>29, TailOfQueue DEF RobotReceives, ChannelsTypeOK
    <2>2. CASE robot.moving
      <3>1. UNCHANGED <<robot, fromRobot>>
        BY <1>29, <2>2 DEF RobotReceives
      <3> QED
        BY <1>m, <2>1, <2>2, <3>1
    <2>3. CASE ~robot.moving
      <3>1. /\ robot'.moving /\ robot'.goal = currentTarget
            /\ fromRobot' = Append(fromRobot, "MOVING")
        BY <1>f, <1>29, <2>1, <2>3 DEF RobotReceives
      <3>2. worker.pc \notin {"trigger", "waitIdle", "done"}
        BY <1>m, <2>1, <2>3
      <3>3. worker.pc = "waitMoving" => NotStarted
        BY <1>m, <2>1, <2>3
      <3>4. Only(fromRobot, "IDLE") => EndsWith(fromRobot', "MOVING")
        <4>1. "MOVING" \in Statuses /\ fromRobot \in Seq(Statuses) /\ "MOVING" # "IDLE"
          BY <1>f DEF ChannelsTypeOK
        <4> QED
          BY <3>1, <4>1, AppendToQueue
      <3> QED
        BY <1>m, <2>1, <3>1, <3>2, <3>3, <3>4
    <2> QED
      BY <2>2, <2>3
  <1>30. CASE RobotFinishes
    <2>1. /\ robot.moving /\ ~robot'.moving /\ robot'.pose = robot.goal
          /\ UNCHANGED <<robotStatus, pendingExecute, conn, tx, toRobot, worker>>
      BY <1>f, <1>30 DEF RobotFinishes
    <2>2. conn # "up" \/ (~ExecuteInFlight /\ robotStatus = "MOVING")
      BY <1>30 DEF RobotFinishes
    <2>3. ~Owed'
      BY <1>m, <2>1, <2>2
    <2>4. fromRobot' = fromRobot \/ fromRobot' = Append(fromRobot, "IDLE")
      BY <1>30 DEF RobotFinishes
    <2>5. conn # "up" => fromRobot' = <<>>
      BY <1>m, <1>30 DEF RobotFinishes
    <2>6. Only(fromRobot, "MOVING") => EndsWith(fromRobot', "IDLE")
      <3>1. "IDLE" \in Statuses /\ fromRobot \in Seq(Statuses) /\ "MOVING" # "IDLE"
        BY <1>f DEF ChannelsTypeOK
      <3>2. Only(fromRobot, "MOVING") => EndsWith(Append(fromRobot, "IDLE"), "IDLE")
        BY <3>1, AppendToQueue
      <3>3. fromRobot' = Append(fromRobot, "IDLE") \/ conn # "up"
        BY <1>30 DEF RobotFinishes
      <3> QED
        BY <2>5, <3>2, <3>3, ShortQueue
    <2>7. worker.pc \in {"waitMoving", "waitIdle"} => Arrived'
      <3>1. CASE conn # "up"
        <4>1. Settles("IDLE")'
          BY <2>5, <3>1, ShortQueue
        <4>2. worker.pc \in {"waitMoving", "waitIdle"} => robot.goal = worker.target
          BY <1>m, <2>1
        <4> QED
          BY <2>1, <2>3, <4>1, <4>2
      <3>2. CASE robotStatus = "MOVING"
        <4>1. worker.pc \in {"waitMoving", "waitIdle"} =>
                robot.goal = worker.target /\ Only(fromRobot, "MOVING")
          BY <1>m, <2>1, <3>2
        <4> QED
          BY <2>1, <2>3, <2>6, <3>2, <4>1
      <3> QED
        BY <2>2, <3>1, <3>2
    <2>8. worker.pc \notin {"trigger", "done"}
      BY <1>m, <2>1
    <2> HIDE DEF Arrived
    <2> QED
      BY <2>1, <2>7, <2>8
  <1>31. CASE RobotReports
    BY <1>f, <1>m, <1>31, ShortQueue DEF RobotReports
  <1>32. CASE LosePath
    BY <1>f, <1>m, <1>32, ShortQueue DEF LosePath
  <1>33. CASE LoseTurn
    BY <1>f, <1>m, <1>33, ShortQueue DEF LoseTurn
  <1>34. CASE UNCHANGED vars
    BY <1>f, <1>m, <1>34 DEF vars
  <1> QED
    BY <1>1, <1>2, <1>3, <1>4, <1>5, <1>6, <1>7, <1>8, <1>9, <1>10, <1>11,
        <1>12, <1>13, <1>14, <1>15, <1>16, <1>17, <1>18, <1>19, <1>20, <1>21,
        <1>22, <1>23, <1>24, <1>25, <1>26, <1>27, <1>28, <1>29, <1>30, <1>31,
        <1>32, <1>33, <1>34
    DEF Next, Starter, Tx, Rx, Worker, Others, Robot, Network

\* What holds whether or not the last cycle had settled, and what if it had.
CycleInv == LinkInv /\ (~unsettled => MotionInv)

\* Only the beginning or the end of a cycle makes a difference to unsettled.
LEMMA UnsettledStays ==
  ASSUME [Next]_vars, ~ClearMotionCancel
  PROVE  unsettled' = unsettled
  <1> USE DEF clientVars, pathVars, turnVars, restVars, countVars
  <1>1. CASE Starter
    BY <1>1 DEF Starter, StartPath, StarterInstalls, StarterGivesUp, StartTurn,
       StarterInstallsTurn, StarterGivesUpTurn, DialRefused
  <1>2. CASE Tx
    BY <1>2 DEF Tx, TxExit, TxDials, TxInstalls, TxDialFails, TxBuilds, TxSends,
       TxSendFails, TxMarks, DialRefused
  <1>3. CASE Rx
    BY <1>3 DEF Rx, RxExit, RxListens, RxHandles, RxFails
  <1>4. CASE TurnTx
    BY <1>4 DEF TurnTx, TurnTxExit, TurnTxDials, TurnTxInstalls, TurnTxDialFails,
       TurnTxReads, TurnTxSends, TurnTxSendFails, TurnTxMarks, DialRefused
  <1>5. CASE TurnRx
    BY <1>5 DEF TurnRx, TurnRxExit, TurnRxListens, TurnRxFails
  <1>6. CASE Worker
    BY <1>6 DEF Worker, WorkerBegins, WorkerSeesIdle, WorkerTriggers, WorkerPolls,
       WorkerAborts
  <1>7. CASE Others
    BY <1>7 DEF Others, CancelMotion, Stop
  <1>8. CASE Robot
    BY <1>8 DEF Robot, RobotReceives, RobotFinishes, RobotReports
  <1>9. CASE Network
    BY <1>9 DEF Network, LosePath, LoseTurn
  <1>10. CASE UNCHANGED vars
    BY <1>10 DEF vars
  <1> QED
    BY <1>1, <1>2, <1>3, <1>4, <1>5, <1>6, <1>7, <1>8, <1>9, <1>10 DEF Next

\* A cycle that begins settled makes everything good again that an earlier one
\* left; the steps of a settled one keep it so.
LEMMA NextCycleInv ==
  ASSUME LateExecute = FALSE, TypeOK, TurnInv, CycleInv, [Next]_vars
  PROVE  CycleInv'
  <1>1. LinkInv'
    BY NextLinkInv DEF CycleInv
  <1>2. ASSUME ~unsettled', ClearMotionCancel PROVE MotionInv'
    <2>1. PendingInv'
      BY <1>2, RestartRests DEF PendingInv
    <2>2. PacketInv'
      BY <1>2, RestartRests, ShortQueue DEF PacketInv
    <2>3. TargetInv'
      BY <1>2, RestartRests DEF TargetInv
    <2>4. RestInv'
      BY <1>2, RestartRests DEF RestInv
    <2>5. StageInv'
      BY <1>2, RestartRests DEF StageInv
    <2> QED
      BY <1>1, <2>1, <2>2, <2>3, <2>4, <2>5 DEF MotionInv
  <1>3. ASSUME ~unsettled', ~ClearMotionCancel PROVE MotionInv'
    <2>1. MotionInv
      BY <1>3, UnsettledStays DEF CycleInv
    <2> QED
      BY <1>1, <1>3, <2>1, NextPendingInv, NextPacketInv, NextTargetInv, NextRestInv,
         NextStageInv DEF MotionInv
  <1> QED
    BY <1>1, <1>2, <1>3 DEF CycleInv

\* In every state of a settled cycle the motion is in a stage that the statuses on
\* their way agree with, through cancels, stops, losses and reconnects.
THEOREM CycleInvCorrect == ASSUME LateExecute = FALSE PROVE Spec => []CycleInv
  <1>1. TypeOK /\ TurnInv /\ [Next]_vars => TurnInv'
    BY NextTurnInv
  <1>2. TypeOK /\ TurnInv /\ CycleInv /\ [Next]_vars => CycleInv'
    BY NextCycleInv
  <1>3. Init => CycleInv
    BY InitMotionInv DEF CycleInv, MotionInv
  <1> QED
    BY TypeCorrect, InitTurnInv, <1>1, <1>2, <1>3, PTL DEF Spec

\* When wait_motion_done returns True in a cycle that began settled, the robot
\* stands at the pose that was asked for, whatever cancels, stops, losses and
\* reconnects happened on the way.
THEOREM MotionDoneCorrect == ASSUME LateExecute = FALSE PROVE Spec => []MotionDone
  <1>1. CycleInv => MotionDone
    BY DEF CycleInv, MotionInv, StageInv, Arrived, MotionDone
  <1> QED
    BY CycleInvCorrect, <1>1, PTL

\* In a cycle that began settled the robot begins to move only to the present
\* target, whose angle the turntable was sent last.
THEOREM MovesWithTableCorrect == ASSUME LateExecute = FALSE PROVE Spec => MovesWithTable
  <1> DEFINE WithTable == ~robot.moving /\ robot'.moving /\ robot'.goal # robot.pose
                              /\ ~unsettled
                            => turnSent = WireTurn[robot'.goal]
  <1>1. TypeOK /\ CycleInv /\ [Next]_vars => [WithTable]_vars
    <2> SUFFICES ASSUME TypeOK, CycleInv, Next, ~robot.moving, robot'.moving, ~unsettled
                 PROVE  turnSent = WireTurn[robot'.goal]
      BY DEF vars
    <2>m. MotionInv
      BY DEF CycleInv
    <2>t. ThreadsTypeOK /\ ChannelsTypeOK
      BY DEF TypeOK
    <2>1. RobotReceives
      <3>1. CASE Starter
        BY <3>1 DEF Starter, StartPath, StarterInstalls, StarterGivesUp, StartTurn,
          StarterInstallsTurn, StarterGivesUpTurn
      <3>2. CASE Tx
        BY <3>2 DEF Tx, TxExit, TxDials, TxInstalls, TxDialFails, TxBuilds, TxSends,
          TxSendFails, TxMarks, restVars
      <3>3. CASE Rx
        BY <3>3 DEF Rx, RxExit, RxListens, RxHandles, RxFails, restVars
      <3>4. CASE TurnTx
        BY <3>4 DEF TurnTx, TurnTxExit, TurnTxDials, TurnTxInstalls, TurnTxDialFails,
          TurnTxReads, TurnTxSends, TurnTxSendFails, TurnTxMarks, restVars
      <3>5. CASE TurnRx
        BY <3>5 DEF TurnRx, TurnRxExit, TurnRxListens, TurnRxFails, restVars
      <3>6. CASE Worker
        BY <3>6 DEF Worker, ClearMotionCancel, WorkerBegins, WorkerSeesIdle,
          WorkerTriggers, WorkerPolls, WorkerAborts
      <3>7. CASE Others \/ Network
        BY <3>7 DEF Others, CancelMotion, Stop, Network, LosePath, LoseTurn, restVars
      <3>8. CASE RobotFinishes \/ RobotReports
        BY <2>t, <3>8 DEF ThreadsTypeOK, RobotFinishes, RobotReports, restVars
      <3> QED
        BY <3>1, <3>2, <3>3, <3>4, <3>5, <3>6, <3>7, <3>8 DEF Next, Robot
    <2>2. toRobot # <<>> /\ Only(toRobot, currentTarget)
      BY <2>m, <2>1 DEF RobotReceives, MotionInv, PacketInv
    <2>3. Head(toRobot) = currentTarget
      BY <2>t, <2>2, TailOfQueue DEF ChannelsTypeOK
    <2>4. robot'.goal = Head(toRobot)
      BY <2>t, <2>1 DEF RobotReceives, ThreadsTypeOK
    <2> QED
      BY <2>m, <2>2, <2>3, <2>4 DEF MotionInv, PacketInv
  <1> QED
    BY TypeCorrect, CycleInvCorrect, <1>1, PTL DEF Spec, MovesWithTable

=============================================================================
