---------------------------- MODULE DisWqStopProofs --------------------------
(***************************************************************************)
(* Proofs about the end of a work queue: what dis_qp_exit leaves behind,   *)
(* which thread it stops, and which completion is the last.  They hold for *)
(* any number of posting threads, with or without delayed stores.          *)
(***************************************************************************)
EXTENDS DisWqProofs

\* Where the worker is between dis_wq_thread's first and last step.
Running == {"init", "loop", "scan", "op", "post_cqe", "retire",
            "wait", "queue", "check", "sleep", "exit"}

\* The worker has not run, or has no message queue yet or any more.
AtRest == {"none", "created", "init", "dead"}

\* The verbs thread has not told the worker to stop.
NotStopping == {"down", "flag", "create", "up", "stop"}

\* Where the verbs thread is says how far the worker can be.
CtlInv ==
  /\ ctl \in {"down", "flag", "create"} => pc = "none"
  /\ ctl \in {"up", "stop", "join", "spin"} => pc # "none"
  /\ ctl = "spin" => pc = "dead"
  /\ ctl = "freed" => pc \in {"none", "dead"}
  /\ ctl \in NotStopping => ~should_stop

\* A queue pair is destroyed only when its users have returned from posting.
CallInv == ctl \in {"stop", "join", "spin", "freed"} => \A p \in Posters : ppc[p] = "idle"

\* wq_state says where the worker is: dis_qp_exit relies on it.
StateInv ==
  /\ ctl = "down" => wq_state = "UNINITIALIZED"
  /\ ctl \in {"flag", "create"} => wq_state = "INITIALIZED"
  /\ pc = "none" => wq_state \in {"UNINITIALIZED", "INITIALIZED"}
  /\ pc = "created" => wq_state = "INITIALIZED"
  /\ pc \in Running => wq_state = "RUNNING"
  /\ pc = "dead" => wq_state \in {"INITIALIZED", "EXITED"}

\* The worker ends only when it is told to, and leaves nothing behind.
EndInv ==
  /\ pc \in AtRest => ~flag_buf /\ msq = "none"
  /\ pc \in {"exit", "dead"} => should_stop \/ killed

LifeInv == CtlInv /\ CallInv /\ StateInv /\ EndInv

\* Posting and polling touch neither the worker nor the verbs thread.
LEMMA PostAndPoll ==
    ASSUME (\E p \in Posters : PostCheck(p) \/ PostRest(p)) \/ PollCq
    PROVE  UNCHANGED <<pc, flag_buf, msq, wq_state, should_stop, killed, ctl, wc_status>>
  BY DEF PostCheck, PostRest, FillStatic, FillDynamic, FillFail, Publish, NotifyTooEarly,
         NotifyFlag, NotifyWake, PollCq, postFrame, workerVars, consumeVars, wakeVars

\* No step of any thread breaks the life cycle.
LEMMA LifeStep == TypeOK /\ LifeInv /\ [Next]_vars => LifeInv'
  <1> SUFFICES ASSUME TypeOK, LifeInv, [Next]_vars PROVE LifeInv'
    OBVIOUS
  <1> USE DEF LifeInv, CtlInv, CallInv, StateInv, EndInv, Running, AtRest, NotStopping, posterVars
  <1>1. CASE (\E p \in Posters : PostCheck(p) \/ PostRest(p)) \/ PollCq
    <2>1. UNCHANGED <<pc, flag_buf, msq, wq_state, should_stop, killed, ctl>>
      BY <1>1, PostAndPoll
    <2>2. ASSUME NEW p \in Posters, PostCheck(p) PROVE ctl \in NotStopping
      BY <2>2 DEF PostCheck, MayPost
    <2>3. ASSUME NEW p \in Posters, PostRest(p) PROVE ppc[p] # "idle"
      BY <2>3 DEF PostRest, FillStatic, FillDynamic, FillFail, Publish, NotifyTooEarly,
                  NotifyFlag, NotifyWake
    <2>4. CallInv'
      BY <1>1, <2>1, <2>2, <2>3 DEF PostCheck, MayPost, PollCq
    <2> QED BY <2>1, <2>4
  <1>2. CASE ThreadNeverRuns
    BY <1>2 DEF ThreadNeverRuns, Goto, threadFrame, workerFrame
  <1>3. CASE ThreadStart
    BY <1>3 DEF ThreadStart, threadFrame, workerFrame
  <1>4. CASE InitStopped
    BY <1>4 DEF InitStopped, threadFrame, workerFrame
  <1>5. CASE LoopReset
    BY <1>5 DEF LoopReset, threadFrame, workerFrame
  <1>6. CASE LoopStopped
    BY <1>6 DEF LoopStopped, Goto, threadFrame, workerFrame
  <1>7. CASE ThreadExit
    BY <1>7 DEF ThreadExit, threadFrame, workerFrame
  <1>8. CASE ScanStopped
    BY <1>8 DEF ScanStopped, Goto, threadFrame, workerFrame
  <1>9. CASE ScanEmpty
    BY <1>9 DEF ScanEmpty, Goto, threadFrame, workerFrame
  <1>10. CASE ScanTake
    BY <1>10 DEF ScanTake, consumeFrame, workerFrame
  <1>11. CASE OpStopped
    BY <1>11 DEF OpStopped, consumeFrame, workerFrame
  <1>12. CASE PostCqe
    BY <1>12 DEF PostCqe, consumeFrame, workerFrame
  <1>13. CASE Retire
    BY <1>13 DEF Retire, consumeFrame, workerFrame
  <1>14. CASE WaitFirst
    BY <1>14 DEF WaitFirst, Goto, threadFrame, workerFrame
  <1>15. CASE WaitQueue
    BY <1>15 DEF WaitQueue, threadFrame, workerFrame
  <1>16. CASE WaitCheck
    BY <1>16 DEF WaitCheck, Goto, threadFrame, workerFrame
  <1>17. CASE WaitAwake
    BY <1>17 DEF WaitAwake, Goto, threadFrame, workerFrame
  <1>18. CASE InitConnects
    BY <1>18 DEF InitConnects, threadFrame, workerFrame
  <1>19. CASE SendMsg
    BY <1>19 DEF SendMsg, consumeFrame, workerFrame
  <1>20. CASE ReceiveMsg
    BY <1>20 DEF ReceiveMsg, consumeFrame, workerFrame
  <1>21. CASE DrainFlag
    BY <1>21 DEF DrainFlag, threadFrame, workerFrame
  <1>22. CASE Kill
    BY <1>22 DEF Kill, workerVars
  <1>23. CASE QpInitState
    BY <1>23 DEF QpInitState, ctlFrame
  <1>24. CASE QpInitFlag
    BY <1>24 DEF QpInitFlag, ctlFrame
  <1>25. CASE QpInitThread
    BY <1>25 DEF QpInitThread, ctlFrame
  <1>26. CASE QpExit
    BY <1>26 DEF QpExit, ctlFrame, TypeOK, WorkerType
  <1>27. CASE QpExitStop
    BY <1>27 DEF QpExitStop, ctlFrame
  <1>28. CASE QpExitJoin
    BY <1>28 DEF QpExitJoin, ctlFrame
  <1>29. CASE QpExitSpin
    BY <1>29 DEF QpExitSpin, ctlFrame
  <1>30. CASE UNCHANGED vars
    BY <1>30 DEF vars, wakeVars, workerVars
  <1> QED
    BY <1>1, <1>2, <1>3, <1>4, <1>5, <1>6, <1>7, <1>8, <1>9, <1>10, <1>11, <1>12, <1>13,
       <1>14, <1>15, <1>16, <1>17, <1>18, <1>19, <1>20, <1>21, <1>22, <1>23, <1>24, <1>25,
       <1>26, <1>27, <1>28, <1>29, <1>30
    DEF Next, WorkerLocal, WorkerPeer, QpInitRest, QpExitRest

\* dis_create_qp leaves a queue without a worker.
LEMMA LifeInit == Init => LifeInv
  BY DEF Init, LifeInv, CtlInv, CallInv, StateInv, EndInv, Running, AtRest, NotStopping

\* Where every thread is stays consistent with wq_state in every behaviour.
LEMMA LifeHolds == Spec => [](TypeOK /\ LifeInv)
  BY TypeInit, TypeStep, LifeInit, LifeStep, PTL DEF Spec

\* When dis_destroy_qp frees the ring, the worker thread does not exist or has
\* ended and its message queue is closed, wherever the worker was when
\* dis_qp_exit looked at wq_state, and although that look takes no lock.
THEOREM FreedIsAtRest == Spec => []FreedIsQuiet
  <1>1. LifeInv => FreedIsQuiet
    BY DEF LifeInv, CtlInv, EndInv, AtRest, FreedIsQuiet
  <1> QED BY <1>1, LifeHolds, PTL

\* kthread_stop is called on a thread that still exists, unless a signal ended
\* it: dis_wq_thread never returns before it is told to stop.
THEOREM StopFindsThread == Spec => []StopsLiveThread
  <1>1. LifeInv => StopsLiveThread
    BY DEF LifeInv, CtlInv, EndInv, NotStopping, StopsLiveThread
  <1> QED BY <1>1, LifeHolds, PTL

------------------------------------------------------------------------------
(* The completion that reports a failure.                                   *)

\* Where the worker is once it has given up a request.
GivingUp == {"post_cqe", "retire", "scan", "exit", "dead"}

\* After a failed request the worker takes no other.
ErrorInv ==
  /\ wc_status # "SUCCESS" => should_stop /\ pc \in GivingUp
  /\ ErrorIsLast
  /\ \A k \in DOMAIN cqes : cqes[k].status # "SUCCESS" => pc \in GivingUp \ {"post_cqe"}

\* What a step that posts no completion must do.
LEMMA ErrorFrame ==
    ASSUME ErrorInv, UNCHANGED cqes,
           should_stop => should_stop',
           pc \in GivingUp \ {"post_cqe"} /\ should_stop => pc' \in GivingUp \ {"post_cqe"},
           wc_status' # "SUCCESS" => should_stop' /\ pc' \in GivingUp
    PROVE  ErrorInv'
  BY DEF ErrorInv, ErrorIsLast

\* No step puts a completion after a failed one.
LEMMA ErrorStep == TypeOK /\ LifeInv /\ ErrorInv /\ [Next]_vars => ErrorInv'
  <1> SUFFICES ASSUME TypeOK, LifeInv, ErrorInv, [Next]_vars PROVE ErrorInv'
    OBVIOUS
  <1> USE DEF GivingUp
  <1>e. wc_status # "SUCCESS" => should_stop /\ pc \in GivingUp
    BY DEF ErrorInv
  <1>1. CASE (\E p \in Posters : PostCheck(p) \/ PostRest(p)) \/ PollCq
    <2>1. UNCHANGED cqes
      BY <1>1 DEF PostCheck, PostRest, FillStatic, FillDynamic, FillFail, Publish,
                  NotifyTooEarly, NotifyFlag, NotifyWake, PollCq, postFrame, cqVars
    <2> QED BY <1>1, <1>e, <2>1, PostAndPoll, ErrorFrame
  <1>2. CASE ThreadNeverRuns
    BY <1>2, <1>e, ErrorFrame DEF ThreadNeverRuns, Goto, threadFrame, workerFrame, consumeVars
  <1>3. CASE ThreadStart
    BY <1>3, <1>e, ErrorFrame DEF ThreadStart, threadFrame, workerFrame, consumeVars
  <1>4. CASE InitStopped
    BY <1>4, <1>e, ErrorFrame DEF InitStopped, threadFrame, workerFrame, consumeVars
  <1>5. CASE LoopReset
    BY <1>5, <1>e, ErrorFrame DEF LoopReset, threadFrame, workerFrame, consumeVars
  <1>6. CASE LoopStopped
    BY <1>6, <1>e, ErrorFrame DEF LoopStopped, Goto, threadFrame, workerFrame, consumeVars
  <1>7. CASE ThreadExit
    BY <1>7, <1>e, ErrorFrame DEF ThreadExit, threadFrame, workerFrame, consumeVars
  <1>8. CASE ScanStopped
    BY <1>8, <1>e, ErrorFrame DEF ScanStopped, Goto, threadFrame, workerFrame, consumeVars
  <1>9. CASE ScanEmpty
    BY <1>9, <1>e, ErrorFrame DEF ScanEmpty, Goto, threadFrame, workerFrame, consumeVars
  <1>10. CASE ScanTake
    BY <1>10, <1>e, ErrorFrame DEF ScanTake, consumeFrame, workerFrame, consumeVars
  <1>11. CASE OpStopped
    BY <1>11, <1>e, ErrorFrame DEF OpStopped, consumeFrame, workerFrame
  <1>12. CASE PostCqe
    <2>1. \A k \in DOMAIN cqes : cqes[k].status = "SUCCESS"
      BY <1>12 DEF PostCqe, ErrorInv
    <2>2. cqes \in Seq(Wcs)
      BY DEF TypeOK, HistoryType
    <2>3. pc' = "retire" /\ UNCHANGED <<should_stop, wc_status>>
      BY <1>12 DEF PostCqe, consumeFrame, workerFrame, consumeVars
    <2>4. CASE cqes' = cqes
      BY <1>e, <2>3, <2>4, ErrorFrame
    <2>5. CASE cqes' = Append(cqes, Cqe)
      <3>1. /\ Len(cqes') = Len(cqes) + 1
            /\ DOMAIN cqes' = 1..Len(cqes) + 1
            /\ \A k \in 1..Len(cqes) : cqes'[k] = cqes[k] /\ k \in DOMAIN cqes
            /\ cqes'[Len(cqes) + 1] = Cqe
        BY <2>2, <2>5
      <3>2. Cqe.status # "SUCCESS" => should_stop'
        BY <1>12, <1>e, <2>3 DEF PostCqe, Cqe
      <3>3. ASSUME NEW k \in DOMAIN cqes', cqes'[k].status # "SUCCESS"
            PROVE  should_stop' /\ k = Len(cqes')
        <4>1. k = Len(cqes) + 1
          BY <2>1, <3>1, <3>3
        <4> QED BY <3>1, <3>2, <3>3, <4>1
      <3> QED BY <2>3, <3>3 DEF ErrorInv, ErrorIsLast
    <2> QED BY <1>12, <2>4, <2>5 DEF PostCqe
  <1>13. CASE Retire
    BY <1>13, <1>e, ErrorFrame DEF Retire, consumeFrame, workerFrame, consumeVars
  <1>14. CASE WaitFirst
    BY <1>14, <1>e, ErrorFrame DEF WaitFirst, Goto, threadFrame, workerFrame, consumeVars
  <1>15. CASE WaitQueue
    BY <1>15, <1>e, ErrorFrame DEF WaitQueue, threadFrame, workerFrame, consumeVars
  <1>16. CASE WaitCheck
    BY <1>16, <1>e, ErrorFrame DEF WaitCheck, Goto, threadFrame, workerFrame, consumeVars
  <1>17. CASE WaitAwake
    BY <1>17, <1>e, ErrorFrame DEF WaitAwake, Goto, threadFrame, workerFrame, consumeVars
  <1>18. CASE InitConnects
    BY <1>18, <1>e, ErrorFrame DEF InitConnects, threadFrame, workerFrame, consumeVars
  <1>19. CASE SendMsg
    BY <1>19, <1>e, ErrorFrame DEF SendMsg, consumeFrame, workerFrame
  <1>20. CASE ReceiveMsg
    BY <1>20, <1>e, ErrorFrame DEF ReceiveMsg, consumeFrame, workerFrame
  <1>21. CASE DrainFlag
    BY <1>21, <1>e, ErrorFrame DEF DrainFlag, threadFrame, workerFrame, consumeVars
  <1>22. CASE Kill
    BY <1>22, <1>e, ErrorFrame DEF Kill, workerVars, consumeVars, cqVars
  <1>23. CASE QpInitState
    BY <1>23, <1>e, ErrorFrame DEF QpInitState, ctlFrame, consumeVars, cqVars
  <1>24. CASE QpInitFlag
    BY <1>24, <1>e, ErrorFrame DEF QpInitFlag, ctlFrame, consumeVars, cqVars
  <1>25. CASE QpInitThread
    BY <1>25, <1>e, ErrorFrame DEF QpInitThread, ctlFrame, consumeVars, cqVars, LifeInv, CtlInv
  <1>26. CASE QpExit
    BY <1>26, <1>e, ErrorFrame DEF QpExit, ctlFrame, consumeVars, cqVars
  <1>27. CASE QpExitStop
    BY <1>27, <1>e, ErrorFrame DEF QpExitStop, ctlFrame, consumeVars, cqVars
  <1>28. CASE QpExitJoin
    BY <1>28, <1>e, ErrorFrame DEF QpExitJoin, ctlFrame, consumeVars, cqVars
  <1>29. CASE QpExitSpin
    BY <1>29, <1>e, ErrorFrame DEF QpExitSpin, ctlFrame, consumeVars, cqVars
  <1>30. CASE UNCHANGED vars
    BY <1>30, <1>e, ErrorFrame DEF vars, wakeVars, workerVars, consumeVars, cqVars
  <1> QED
    BY <1>1, <1>2, <1>3, <1>4, <1>5, <1>6, <1>7, <1>8, <1>9, <1>10, <1>11, <1>12, <1>13,
       <1>14, <1>15, <1>16, <1>17, <1>18, <1>19, <1>20, <1>21, <1>22, <1>23, <1>24, <1>25,
       <1>26, <1>27, <1>28, <1>29, <1>30
    DEF Next, WorkerLocal, WorkerPeer, QpInitRest, QpExitRest

\* A request is given up only when the worker is told to stop, and then its
\* completion is the last one: dis_wq_consume_all takes no other request, and
\* every earlier completion reports success.
THEOREM FailureComesLast == Spec => []ErrorIsLast
  <1>1. Init => ErrorInv
    BY DEF Init, ErrorInv, ErrorIsLast, GivingUp
  <1>2. ErrorInv => ErrorIsLast
    BY DEF ErrorInv
  <1> QED BY <1>1, <1>2, LifeHolds, ErrorStep, PTL DEF Spec

------------------------------------------------------------------------------
(* The life of the worker.                                                  *)

\* The worker's places in its loop are one place of its life.
InLoop == {"loop", "scan", "op", "post_cqe", "retire", "wait", "queue", "check", "sleep", "exit"}

\* The steps of the loop do not leave it.
LoopStep ==
  \/ LoopReset \/ LoopStopped \/ ScanStopped \/ ScanEmpty \/ ScanTake \/ SendMsg \/ ReceiveMsg
  \/ OpStopped \/ PostCqe \/ Retire \/ WaitFirst \/ WaitQueue \/ WaitCheck \/ WaitAwake

LEMMA LoopPlaces ==
    ASSUME LoopStep
    PROVE  /\ pc \in InLoop /\ pc' \in InLoop
           /\ UNCHANGED <<should_stop, killed, msq, wq_state, ctl>>
  <1> USE DEF InLoop, workerFrame
  <1>1. CASE LoopReset \/ LoopStopped \/ ScanStopped \/ ScanEmpty
    BY <1>1 DEF LoopReset, LoopStopped, ScanStopped, ScanEmpty, Goto, threadFrame
  <1>2. CASE ScanTake \/ SendMsg \/ OpStopped
    BY <1>2 DEF ScanTake, SendMsg, OpStopped, consumeFrame
  <1>3. CASE ReceiveMsg
    BY <1>3 DEF ReceiveMsg, consumeFrame
  <1>4. CASE PostCqe \/ Retire
    BY <1>4 DEF PostCqe, Retire, consumeFrame
  <1>5. CASE WaitFirst \/ WaitQueue \/ WaitAwake
    BY <1>5 DEF WaitFirst, WaitQueue, WaitAwake, Goto, threadFrame
  <1>6. CASE WaitCheck
    BY <1>6 DEF WaitCheck, Goto, threadFrame
  <1> QED BY <1>1, <1>2, <1>3, <1>4, <1>5, <1>6 DEF LoopStep

\* The other steps of the worker.
EdgeStep == ThreadNeverRuns \/ ThreadStart \/ InitConnects \/ InitStopped \/ ThreadExit \/ DrainFlag

VerbStep == QpInitState \/ QpInitRest \/ QpExit \/ QpExitRest

LEMMA Steps ==
    ASSUME [Next]_vars
    PROVE  \/ (\E p \in Posters : PostCheck(p) \/ PostRest(p)) \/ PollCq
           \/ LoopStep \/ EdgeStep \/ Kill \/ VerbStep \/ UNCHANGED vars
  BY DEF Next, WorkerLocal, WorkerPeer, LoopStep, EdgeStep, VerbStep

\* A fatal signal is pending only where one reaches the worker.
KillInv == killed => Killable

LEMMA KillStep == KillInv /\ [Next]_vars => KillInv'
  <1> SUFFICES ASSUME KillInv, [Next]_vars PROVE KillInv'
    OBVIOUS
  <1>0. ASSUME UNCHANGED killed PROVE KillInv'
    BY <1>0 DEF KillInv
  <1>1. CASE (\E p \in Posters : PostCheck(p) \/ PostRest(p)) \/ PollCq
    BY <1>0, <1>1, PostAndPoll
  <1>2. CASE LoopStep
    BY <1>0, <1>2, LoopPlaces
  <1>3. CASE EdgeStep
    BY <1>0, <1>3 DEF EdgeStep, ThreadNeverRuns, ThreadStart, InitConnects, InitStopped,
                      ThreadExit, DrainFlag, Goto, threadFrame, workerFrame
  <1>4. CASE Kill
    BY <1>4 DEF Kill, KillInv
  <1>5. CASE VerbStep
    BY <1>0, <1>5 DEF VerbStep, QpInitState, QpInitRest, QpInitFlag, QpInitThread, QpExit,
                      QpExitRest, QpExitStop, QpExitJoin, QpExitSpin, ctlFrame
  <1>6. CASE UNCHANGED vars
    BY <1>0, <1>6 DEF vars, wakeVars
  <1> QED BY <1>1, <1>2, <1>3, <1>4, <1>5, <1>6, Steps

\* A step that does not touch what WorkerLife speaks of is none of its steps.
LEMMA LifeStutters ==
    ASSUME UNCHANGED <<Place, should_stop, msq>>,
           wq_state' = "EXITED" <=> wq_state = "EXITED",
           ctl' = "freed" <=> ctl = "freed"
    PROVE  [Life!Next]_(Life!vars)
  BY DEF Life!vars

\* The thread's beginning and end.
LEMMA EdgeLives ==
    ASSUME TypeOK, LifeInv, KillInv, EdgeStep
    PROVE  [Life!Next]_(Life!vars)
  <1> USE DEF threadFrame, workerFrame
  <1>1. CASE ThreadNeverRuns
    <2>1. /\ pc = "created" /\ pc' = "dead" /\ should_stop
          /\ UNCHANGED <<should_stop, msq, wq_state, ctl>>
      BY <1>1 DEF ThreadNeverRuns, Goto
    <2>2. Life!NeverRun
      BY <2>1 DEF Life!NeverRun, Place
    <2> QED BY <2>2 DEF Life!Next
  <1>2. CASE ThreadStart
    <2>1. /\ pc = "created" /\ pc' = "init" /\ ~should_stop /\ wq_state' = "RUNNING"
          /\ UNCHANGED <<should_stop, msq, ctl>>
      BY <1>2 DEF ThreadStart
    <2>2. wq_state = "INITIALIZED"
      BY <2>1 DEF LifeInv, StateInv
    <2>3. Life!Enter
      BY <2>1, <2>2 DEF Life!Enter, Place
    <2> QED BY <2>3 DEF Life!Next
  <1>3. CASE InitConnects
    <2>1. /\ pc = "init" /\ pc' = "loop" /\ ~should_stop /\ msq' = "open"
          /\ UNCHANGED <<should_stop, wq_state, ctl>>
      BY <1>3 DEF InitConnects
    <2>2. Life!Open
      BY <2>1 DEF Life!Open, Place
    <2> QED BY <2>2 DEF Life!Next
  <1>4. CASE InitStopped
    <2>1. /\ pc = "init" /\ pc' = "dead" /\ should_stop /\ wq_state' = "EXITED"
          /\ UNCHANGED <<should_stop, msq, ctl>>
      BY <1>4 DEF InitStopped
    <2>2. msq = "none"
      BY <2>1 DEF LifeInv, EndInv, AtRest
    <2>3. Life!End
      BY <2>1, <2>2 DEF Life!End, Place
    <2> QED BY <2>3 DEF Life!Next
  <1>5. CASE ThreadExit
    <2>1. /\ pc = "exit" /\ pc' = "dead" /\ wq_state' = "EXITED" /\ msq' = "none"
          /\ UNCHANGED <<should_stop, ctl>>
      BY <1>5 DEF ThreadExit
    <2>2. should_stop \/ Killable
      BY <2>1 DEF LifeInv, EndInv, KillInv
    <2>3. Life!End
      BY <2>1, <2>2 DEF Life!End, Place
    <2> QED BY <2>3 DEF Life!Next
  <1>6. CASE DrainFlag
    <2>1. UNCHANGED <<pc, should_stop, msq, wq_state, ctl>>
      BY <1>6 DEF DrainFlag
    <2> QED BY <2>1, LifeStutters DEF Place
  <1> QED BY <1>1, <1>2, <1>3, <1>4, <1>5, <1>6 DEF EdgeStep

\* The verbs thread starts the worker, tells it to stop and gives up the queue.
LEMMA VerbLives ==
    ASSUME TypeOK, LifeInv, VerbStep
    PROVE  [Life!Next]_(Life!vars)
  <1> USE DEF ctlFrame
  <1>1. CASE QpInitState \/ QpInitFlag
    <2>1. /\ UNCHANGED <<pc, should_stop, msq>> /\ ctl # "freed" /\ ctl' # "freed"
          /\ (wq_state = "UNINITIALIZED" /\ wq_state' = "INITIALIZED") \/ UNCHANGED wq_state
      BY <1>1 DEF QpInitState, QpInitFlag, LifeInv, StateInv
    <2> QED BY <2>1, LifeStutters DEF Place
  <1>2. CASE QpInitThread
    <2>1. /\ ctl = "create" /\ ctl' = "up" /\ pc' = "created"
          /\ UNCHANGED <<should_stop, msq, wq_state>>
      BY <1>2 DEF QpInitThread
    <2>2. pc = "none"
      BY <2>1 DEF LifeInv, CtlInv
    <2>3. Life!Begin
      BY <2>1, <2>2 DEF Life!Begin, Place
    <2> QED BY <2>3 DEF Life!Next
  <1>3. CASE QpExit
    <2>1. /\ ctl # "freed" /\ UNCHANGED <<pc, should_stop, msq, wq_state>>
          /\ ctl' = IF wq_state \in {"UNINITIALIZED", "EXITED"} THEN "freed" ELSE "stop"
      BY <1>3 DEF QpExit
    <2>2. CASE wq_state \in {"UNINITIALIZED", "EXITED"}
      <3>1. pc = "none" \/ wq_state = "EXITED"
        <4>1. pc # "none" => pc \in {"created", "dead"} \cup Running
          BY DEF TypeOK, WorkerType, Running
        <4> QED BY <2>2, <4>1 DEF LifeInv, StateInv
      <3>2. Life!Release
        BY <2>1, <2>2, <3>1 DEF Life!Release, Place
      <3> QED BY <3>2 DEF Life!Next
    <2>3. CASE wq_state \notin {"UNINITIALIZED", "EXITED"}
      BY <2>1, <2>3, LifeStutters DEF Place
    <2> QED BY <2>2, <2>3
  <1>4. CASE QpExitStop
    <2>1. /\ ctl = "stop" /\ ctl' = "join" /\ should_stop' = TRUE
          /\ UNCHANGED <<pc, msq, wq_state>>
      BY <1>4 DEF QpExitStop
    <2>2. Place # "none"
      BY <2>1 DEF LifeInv, CtlInv, Place
    <2>3. Life!Tell
      BY <2>1, <2>2 DEF Life!Tell, Place
    <2> QED BY <2>3 DEF Life!Next
  <1>5. CASE QpExitJoin
    <2>1. ctl = "join" /\ ctl' = "spin" /\ UNCHANGED <<pc, should_stop, msq, wq_state>>
      BY <1>5 DEF QpExitJoin
    <2> QED BY <2>1, LifeStutters DEF Place
  <1>6. CASE QpExitSpin
    <2>1. /\ ctl = "spin" /\ ctl' = "freed" /\ wq_state = "EXITED"
          /\ UNCHANGED <<pc, should_stop, msq, wq_state>>
      BY <1>6 DEF QpExitSpin
    <2>2. Life!Release
      BY <2>1 DEF Life!Release, Place
    <2> QED BY <2>2 DEF Life!Next
  <1> QED BY <1>1, <1>2, <1>3, <1>4, <1>5, <1>6 DEF VerbStep, QpInitRest, QpExitRest

\* Each step of a work queue is a step of its worker's life or none.
LEMMA LivesStep == TypeOK /\ LifeInv /\ KillInv /\ [Next]_vars => [Life!Next]_(Life!vars)
  <1> SUFFICES ASSUME TypeOK, LifeInv, KillInv, [Next]_vars PROVE [Life!Next]_(Life!vars)
    OBVIOUS
  <1>0. ASSUME UNCHANGED <<pc, should_stop, msq, wq_state, ctl>>
        PROVE  [Life!Next]_(Life!vars)
    BY <1>0, LifeStutters DEF Place
  <1>1. CASE (\E p \in Posters : PostCheck(p) \/ PostRest(p)) \/ PollCq
    BY <1>0, <1>1, PostAndPoll
  <1>2. CASE LoopStep
    <2>1. Place = "run" /\ Place' = "run"
      BY <1>2, LoopPlaces DEF InLoop, Place
    <2> QED BY <1>2, <2>1, LoopPlaces, LifeStutters
  <1>3. CASE Kill
    BY <1>0, <1>3 DEF Kill, workerVars
  <1>4. CASE UNCHANGED vars
    BY <1>0, <1>4 DEF vars, wakeVars, workerVars
  <1> QED BY <1>1, <1>2, <1>3, <1>4, EdgeLives, VerbLives, Steps

\* The worker of a work queue lives as WorkerLife says: started once, ended by
\* dis_qp_exit or a signal, its message queue closed when it says so, and the ring
\* freed only then, for any number of posting threads and delayed stores.
THEOREM WorkerLivesSo == Spec => IsWorker
  <1>1. Init => KillInv
    BY DEF Init, KillInv
  <1>2. Init => Life!Init
    BY DEF Init, Life!Init, Place
  <1> QED BY <1>1, <1>2, LifeHolds, KillStep, LivesStep, PTL DEF Spec, IsWorker, Life!Spec
==============================================================================
