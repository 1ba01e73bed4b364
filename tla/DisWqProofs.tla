------------------------------- MODULE DisWqProofs ---------------------------
(***************************************************************************)
(* Proofs about a work queue, for every ring size, room of the completion  *)
(* queue, number of requests and set of posting threads.                   *)
(***************************************************************************)
EXTENDS DisWq, CircBufLemmas

\* A part of the type invariant holds on when its variables do not change.
LEMMA TypeFrames ==
    /\ RingType /\ UNCHANGED <<head, tail, buf>> => RingType'
    /\ WaitType /\ UNCHANGED <<wq_state, wq_flag, wakeVars>> => WaitType'
    /\ WorkerType /\ UNCHANGED <<pc, flag_buf, msq, consumeVars>> => WorkerType'
    /\ PosterType /\ UNCHANGED <<ppc, phead, pwr, posts>> => PosterType'
    /\ VerbsType /\ UNCHANGED <<ctl, heap>> => VerbsType'
    /\ HistoryType /\ UNCHANGED <<cqes, npolled, accepted, retired>> => HistoryType'
  BY DEF RingType, WaitType, WorkerType, PosterType, VerbsType, HistoryType, wakeVars, consumeVars

\* Both indices wrap within the ring.
LEMMA NextSlot == ASSUME NEW i \in Slots PROVE CircNext(i, WqeMax) \in Slots
  <1>1. WqeMax \in Nat \ {0}
    BY WqAssumption
  <1> QED BY <1>1, CircNextCases DEF Slots

\* No step takes a variable out of its type.
LEMMA TypeStep == TypeOK /\ [Next]_vars => TypeOK'
  <1> SUFFICES ASSUME TypeOK, [Next]_vars PROVE TypeOK'
    OBVIOUS
  <1> USE DEF TypeOK, ring, wakeVars, consumeVars, workerVars, posterVars, cqVars,
              postFrame, workerFrame, threadFrame, consumeFrame, ctlFrame, Goto
  <1>1. ASSUME NEW p \in Posters, PostCheck(p) PROVE TypeOK'
    <2>1. PICK len \in ByteLens :
            pwr' = [pwr EXCEPT ![p] = [wr_id |-> posts', byte_len |-> len]]
      BY <1>1 DEF PostCheck
    <2>2. [wr_id |-> posts', byte_len |-> len] \in Requests
      BY <1>1, WqAssumption DEF PostCheck, PosterType, Requests
    <2>3. PosterType'
      BY <1>1, <2>1, <2>2 DEF PostCheck, PosterType, RingType
    <2> QED BY <1>1, <2>3, TypeFrames DEF PostCheck
  <1>2. ASSUME NEW p \in Posters, FillStatic(p) PROVE TypeOK'
    <2>1. PICK wqe : wqe = [buf[phead[p]] EXCEPT !.wr_id = pwr[p].wr_id,
                              !.byte_len = pwr[p].byte_len, !.iov = "static"]
      OBVIOUS
    <2>2. buf[phead[p]] \in Wqes /\ pwr[p].wr_id \in Nat /\ pwr[p].byte_len \in Nat
      BY DEF RingType, PosterType, Requests
    <2>3. wqe \in Wqes
      BY <2>1, <2>2 DEF Wqes
    <2>4. buf' = [buf EXCEPT ![phead[p]] = wqe] /\ UNCHANGED <<head, tail>>
      BY <1>2, <2>1 DEF FillStatic
    <2>5. RingType'
      BY <2>3, <2>4 DEF RingType
    <2>6. PosterType'
      BY <1>2 DEF FillStatic, PosterType
    <2> QED BY <1>2, <2>5, <2>6, TypeFrames DEF FillStatic
  <1>3. ASSUME NEW p \in Posters, FillDynamic(p) PROVE TypeOK'
    <2>1. RingType'
      BY <1>3 DEF FillDynamic, RingType, PosterType, Wqes, Requests, PageMaps
    <2>2. PosterType'
      BY <1>3 DEF FillDynamic, PosterType
    <2>3. VerbsType'
      BY <1>3 DEF FillDynamic, VerbsType
    <2> QED BY <1>3, <2>1, <2>2, <2>3, TypeFrames DEF FillDynamic
  <1>4. ASSUME NEW p \in Posters, FillFail(p) PROVE TypeOK'
    <2>1. PICK map \in {buf[phead[p]].page_map_dynamic}
                          \cup (IF TRUE \in Larges THEN {NULL} ELSE {}) :
            buf' = [buf EXCEPT ![phead[p]] =
                      [@ EXCEPT !.wr_id = pwr[p].wr_id, !.byte_len = 0, !.page_map_dynamic = map]]
      BY <1>4 DEF FillFail
    <2>2. /\ phead[p] \in Slots
          /\ pwr[p].wr_id \in Nat
      BY DEF PosterType, Requests
    <2>3. map \in PageMaps
      BY <2>2 DEF RingType, Wqes, PageMaps
    <2>4. [buf[phead[p]] EXCEPT !.wr_id = pwr[p].wr_id, !.byte_len = 0, !.page_map_dynamic = map]
            \in Wqes
      BY <2>2, <2>3 DEF RingType, Wqes
    <2>5. RingType'
      BY <1>4, <2>1, <2>2, <2>4 DEF FillFail, RingType
    <2>6. PosterType'
      BY <1>4 DEF FillFail, PosterType
    <2> QED BY <1>4, <2>5, <2>6, TypeFrames DEF FillFail
  <1>5. ASSUME NEW p \in Posters, Publish(p) PROVE TypeOK'
    <2>1. RingType'
      BY <1>5, NextSlot DEF Publish, RingType, PosterType
    <2>2. PosterType'
      BY <1>5 DEF Publish, PosterType
    <2>3. HistoryType'
      BY <1>5 DEF Publish, HistoryType, PosterType
    <2> QED BY <1>5, <2>1, <2>2, <2>3, TypeFrames DEF Publish
  <1>6. ASSUME NEW p \in Posters, NotifyTooEarly(p) PROVE TypeOK'
    <2>1. PosterType'
      BY <1>6 DEF NotifyTooEarly, PosterType
    <2> QED BY <1>6, <2>1, TypeFrames DEF NotifyTooEarly
  <1>7. ASSUME NEW p \in Posters, NotifyFlag(p) PROVE TypeOK'
    <2>1. PosterType'
      BY <1>7 DEF NotifyFlag, PosterType
    <2>2. WaitType'
      BY <1>7 DEF NotifyFlag, WaitType
    <2> QED BY <1>7, <2>1, <2>2, TypeFrames DEF NotifyFlag
  <1>8. ASSUME NEW p \in Posters, NotifyWake(p) PROVE TypeOK'
    <2>1. PosterType'
      BY <1>8 DEF NotifyWake, PosterType
    <2>2. WaitType'
      BY <1>8 DEF NotifyWake, WaitType
    <2> QED BY <1>8, <2>1, <2>2, TypeFrames DEF NotifyWake
  <1>9. CASE ThreadNeverRuns
    <2>1. WorkerType'
      BY <1>9 DEF ThreadNeverRuns, WorkerType
    <2> QED BY <1>9, <2>1, TypeFrames DEF ThreadNeverRuns
  <1>10. CASE ThreadStart
    <2>1. WorkerType'
      BY <1>10 DEF ThreadStart, WorkerType
    <2>2. WaitType'
      BY <1>10 DEF ThreadStart, WaitType
    <2> QED BY <1>10, <2>1, <2>2, TypeFrames DEF ThreadStart
  <1>11. CASE InitStopped
    <2>1. WorkerType'
      BY <1>11 DEF InitStopped, WorkerType
    <2>2. WaitType'
      BY <1>11 DEF InitStopped, WaitType
    <2> QED BY <1>11, <2>1, <2>2, TypeFrames DEF InitStopped
  <1>12. CASE LoopReset
    <2>1. WorkerType'
      BY <1>12 DEF LoopReset, WorkerType
    <2>2. WaitType'
      BY <1>12 DEF LoopReset, WaitType
    <2> QED BY <1>12, <2>1, <2>2, TypeFrames DEF LoopReset
  <1>13. CASE LoopStopped
    <2>1. WorkerType'
      BY <1>13 DEF LoopStopped, WorkerType
    <2> QED BY <1>13, <2>1, TypeFrames DEF LoopStopped
  <1>14. CASE ThreadExit
    <2>1. WorkerType'
      BY <1>14 DEF ThreadExit, WorkerType
    <2>2. WaitType'
      BY <1>14 DEF ThreadExit, WaitType
    <2> QED BY <1>14, <2>1, <2>2, TypeFrames DEF ThreadExit
  <1>15. CASE ScanStopped
    <2>1. WorkerType'
      BY <1>15 DEF ScanStopped, WorkerType
    <2> QED BY <1>15, <2>1, TypeFrames DEF ScanStopped
  <1>16. CASE ScanEmpty
    <2>1. WorkerType'
      BY <1>16 DEF ScanEmpty, WorkerType
    <2> QED BY <1>16, <2>1, TypeFrames DEF ScanEmpty
  <1>17. CASE ScanTake
    <2>1. WorkerType'
      BY <1>17 DEF ScanTake, WorkerType, RingType, Wqe, Wqes
    <2> QED BY <1>17, <2>1, TypeFrames DEF ScanTake
  <1>18. CASE OpStopped
    <2>1. WorkerType'
      BY <1>18 DEF OpStopped, WorkerType, Statuses
    <2> QED BY <1>18, <2>1, TypeFrames DEF OpStopped
  <1>19. CASE PostCqe
    <2>1. WorkerType'
      BY <1>19 DEF PostCqe, WorkerType
    <2>2. Wqe \in Wqes
      BY DEF Wqe, RingType
    <2>3. Wqe.byte_len % 65536 \in Nat
      BY <2>2 DEF Wqes
    <2>4. Cqe \in Wcs
      BY <2>2, <2>3 DEF Cqe, Wqes, Wcs, WorkerType
    <2>5. HistoryType'
      BY <1>19, <2>4 DEF PostCqe, HistoryType
    <2> QED BY <1>19, <2>1, <2>5, TypeFrames DEF PostCqe
  <1>20. CASE Retire
    <2>1. RingType'
      BY <1>20, NextSlot DEF Retire, RingType
    <2>2. WorkerType'
      BY <1>20 DEF Retire, WorkerType
    <2>3. VerbsType'
      BY <1>20 DEF Retire, VerbsType
    <2>4. HistoryType'
      BY <1>20 DEF Retire, HistoryType
    <2> QED BY <1>20, <2>1, <2>2, <2>3, <2>4, TypeFrames DEF Retire
  <1>21. CASE WaitFirst
    <2>1. WorkerType'
      BY <1>21 DEF WaitFirst, WorkerType
    <2> QED BY <1>21, <2>1, TypeFrames DEF WaitFirst
  <1>22. CASE WaitQueue
    <2>1. WorkerType'
      BY <1>22 DEF WaitQueue, WorkerType
    <2>2. WaitType'
      BY <1>22 DEF WaitQueue, WaitType
    <2> QED BY <1>22, <2>1, <2>2, TypeFrames DEF WaitQueue
  <1>23. CASE WaitCheck
    <2>1. WorkerType'
      BY <1>23 DEF WaitCheck, WorkerType
    <2> QED BY <1>23, <2>1, TypeFrames DEF WaitCheck
  <1>24. CASE WaitAwake
    <2>1. WorkerType'
      BY <1>24 DEF WaitAwake, WorkerType
    <2> QED BY <1>24, <2>1, TypeFrames DEF WaitAwake
  <1>25. CASE InitConnects
    <2>1. WorkerType'
      BY <1>25 DEF InitConnects, WorkerType
    <2> QED BY <1>25, <2>1, TypeFrames DEF InitConnects
  <1>26. CASE SendMsg
    <2>1. WorkerType'
      BY <1>26 DEF SendMsg, WorkerType, Statuses
    <2> QED BY <1>26, <2>1, TypeFrames DEF SendMsg
  <1>27. CASE ReceiveMsg
    <2>1. RingType'
      BY <1>27 DEF ReceiveMsg, RingType, WorkerType, Wqes
    <2>2. WorkerType'
      BY <1>27 DEF ReceiveMsg, WorkerType, Statuses
    <2> QED BY <1>27, <2>1, <2>2, TypeFrames DEF ReceiveMsg
  <1>28. CASE DrainFlag
    <2>1. WorkerType'
      BY <1>28 DEF DrainFlag, WorkerType
    <2>2. WaitType'
      BY <1>28 DEF DrainFlag, WaitType
    <2> QED BY <1>28, <2>1, <2>2, TypeFrames DEF DrainFlag
  <1>29. CASE Kill
    <2>1. WaitType'
      BY <1>29 DEF Kill, WaitType
    <2> QED BY <1>29, <2>1, TypeFrames DEF Kill
  <1>30. CASE QpInitState
    <2>1. WaitType'
      BY <1>30 DEF QpInitState, WaitType
    <2>2. VerbsType'
      BY <1>30 DEF QpInitState, VerbsType
    <2> QED BY <1>30, <2>1, <2>2, TypeFrames DEF QpInitState
  <1>31. CASE QpInitFlag
    <2>1. WaitType'
      BY <1>31 DEF QpInitFlag, WaitType
    <2>2. VerbsType'
      BY <1>31 DEF QpInitFlag, VerbsType
    <2> QED BY <1>31, <2>1, <2>2, TypeFrames DEF QpInitFlag
  <1>32. CASE QpInitThread
    <2>1. WorkerType'
      BY <1>32 DEF QpInitThread, WorkerType
    <2>2. VerbsType'
      BY <1>32 DEF QpInitThread, VerbsType
    <2> QED BY <1>32, <2>1, <2>2, TypeFrames DEF QpInitThread
  <1>33. CASE QpExit
    <2>1. VerbsType'
      BY <1>33 DEF QpExit, VerbsType
    <2> QED BY <1>33, <2>1, TypeFrames DEF QpExit
  <1>34. CASE QpExitStop
    <2>1. WaitType'
      BY <1>34 DEF QpExitStop, WaitType
    <2>2. VerbsType'
      BY <1>34 DEF QpExitStop, VerbsType
    <2> QED BY <1>34, <2>1, <2>2, TypeFrames DEF QpExitStop
  <1>35. CASE QpExitJoin
    <2>1. VerbsType'
      BY <1>35 DEF QpExitJoin, VerbsType
    <2> QED BY <1>35, <2>1, TypeFrames DEF QpExitJoin
  <1>36. CASE QpExitSpin
    <2>1. VerbsType'
      BY <1>36 DEF QpExitSpin, VerbsType
    <2> QED BY <1>36, <2>1, TypeFrames DEF QpExitSpin
  <1>37. CASE PollCq
    <2>1. HistoryType'
      BY <1>37 DEF PollCq, HistoryType
    <2> QED BY <1>37, <2>1, TypeFrames DEF PollCq
  <1>38. CASE UNCHANGED vars
    BY <1>38, TypeFrames DEF vars
  <1> QED
    BY <1>1, <1>2, <1>3, <1>4, <1>5, <1>6, <1>7, <1>8, <1>9, <1>10, <1>11, <1>12,
       <1>13, <1>14, <1>15, <1>16, <1>17, <1>18, <1>19, <1>20, <1>21, <1>22, <1>23,
       <1>24, <1>25, <1>26, <1>27, <1>28, <1>29, <1>30, <1>31, <1>32, <1>33, <1>34,
       <1>35, <1>36, <1>37, <1>38
    DEF Next, PostRest, WorkerLocal, WorkerPeer, QpInitRest, QpExitRest

\* dis_create_qp leaves every variable in its type.
LEMMA TypeInit == Init => TypeOK
  <1> SUFFICES ASSUME Init PROVE TypeOK
    OBVIOUS
  <1>1. RingType
    BY WqAssumption DEF Init, RingType, Slots, NoWqe, Wqes, PageMaps
  <1>2. WaitType
    BY DEF Init, WaitType
  <1>3. WorkerType
    BY DEF Init, WorkerType, Statuses
  <1>4. PosterType
    BY WqAssumption DEF Init, PosterType, Slots, NoWr, Requests
  <1>5. VerbsType
    BY DEF Init, VerbsType
  <1>6. HistoryType
    BY DEF Init, HistoryType
  <1> QED BY <1>1, <1>2, <1>3, <1>4, <1>5, <1>6 DEF TypeOK

\* Every variable of a work queue stays within its type: in particular head
\* and tail never leave the ring, whatever the threads that post, consume,
\* create and destroy it do.
THEOREM TypeCorrect == Spec => []TypeOK
  BY TypeInit, TypeStep, PTL DEF Spec

\* The ring never holds more than WqeMax - 1 requests.
LEMMA OutstandingType == TypeOK => Outstanding \in 0..WqeMax - 1
  <1>1. WqeMax \in Nat \ {0}
    BY WqAssumption
  <1> QED BY <1>1, CircCntCases DEF TypeOK, RingType, Slots, Outstanding

------------------------------------------------------------------------------
(* No wake-up is lost.                                                      *)

Waiting == {"wait", "queue", "check", "sleep"}

\* The thread exists only after dis_qp_init has set up the queue.
StartInv ==
  /\ ~flag_buf
  /\ ctl \in {"down", "flag", "create"} => pc = "none"
  /\ ctl \in {"flag", "create"} => wq_state = "INITIALIZED"
  /\ pc # "none" => wq_state # "UNINITIALIZED"

\* A request that came after the scan has set wq_flag or is about to.
FlagInv ==
  pc \in Waiting /\ ~(Outstanding < 1)
    => wq_flag = "POST" \/ \E p \in Posters : ppc[p] = "notify"

\* If wq_flag was set after the worker last looked, a wake-up is coming.
WokenInv ==
  pc = "sleep" /\ wq_flag = "POST"
    => woken \/ \E p \in Posters : ppc[p] = "wake"

WakeInv == TypeOK /\ StartInv /\ FlagInv /\ WokenInv

\* Without the store buffer, no step breaks the invariant.
LEMMA WakeStep ==
    ASSUME Tso = FALSE
    PROVE  WakeInv /\ [Next]_vars => WakeInv'
  <1> SUFFICES ASSUME WakeInv, [Next]_vars PROVE StartInv' /\ FlagInv' /\ WokenInv'
    BY TypeStep DEF WakeInv
  <1> USE DEF WakeInv, StartInv, FlagInv, WokenInv, Waiting, ring, wakeVars, consumeVars,
              workerVars,
              posterVars, cqVars, postFrame, workerFrame, threadFrame, consumeFrame, ctlFrame, Goto
  <1>1. ASSUME NEW p \in Posters, PostCheck(p) PROVE StartInv' /\ FlagInv' /\ WokenInv'
    BY <1>1 DEF PostCheck, TypeOK, PosterType, Outstanding
  <1>2. ASSUME NEW p \in Posters, FillStatic(p) PROVE StartInv' /\ FlagInv' /\ WokenInv'
    BY <1>2 DEF FillStatic, TypeOK, PosterType, Outstanding
  <1>3. ASSUME NEW p \in Posters, FillDynamic(p) PROVE StartInv' /\ FlagInv' /\ WokenInv'
    BY <1>3 DEF FillDynamic, TypeOK, PosterType, Outstanding
  <1>4. ASSUME NEW p \in Posters, FillFail(p) PROVE StartInv' /\ FlagInv' /\ WokenInv'
    BY <1>4 DEF FillFail, TypeOK, PosterType, Outstanding
  <1>5. ASSUME NEW p \in Posters, Publish(p) PROVE StartInv' /\ FlagInv' /\ WokenInv'
    BY <1>5 DEF Publish, TypeOK, PosterType, Outstanding
  <1>6. ASSUME NEW p \in Posters, NotifyTooEarly(p) PROVE StartInv' /\ FlagInv' /\ WokenInv'
    BY <1>6 DEF NotifyTooEarly, TypeOK, PosterType, Outstanding
  <1>7. ASSUME NEW p \in Posters, NotifyFlag(p) PROVE StartInv' /\ FlagInv' /\ WokenInv'
    BY <1>7 DEF NotifyFlag, TypeOK, PosterType, Outstanding
  <1>8. ASSUME NEW p \in Posters, NotifyWake(p) PROVE StartInv' /\ FlagInv' /\ WokenInv'
    BY <1>8 DEF NotifyWake, TypeOK, PosterType, Outstanding
  <1>9. CASE ThreadNeverRuns
    BY <1>9 DEF ThreadNeverRuns, Outstanding
  <1>10. CASE ThreadStart
    BY <1>10 DEF ThreadStart, Outstanding
  <1>11. CASE InitStopped
    BY <1>11 DEF InitStopped, Outstanding
  <1>12. CASE LoopReset
    BY <1>12 DEF LoopReset, Outstanding
  <1>13. CASE LoopStopped
    BY <1>13 DEF LoopStopped, Outstanding
  <1>14. CASE ThreadExit
    BY <1>14 DEF ThreadExit, Outstanding
  <1>15. CASE ScanStopped
    BY <1>15 DEF ScanStopped, Outstanding
  <1>16. CASE ScanEmpty
    BY <1>16 DEF ScanEmpty, Outstanding
  <1>17. CASE ScanTake
    BY <1>17 DEF ScanTake, Outstanding
  <1>18. CASE OpStopped
    BY <1>18 DEF OpStopped, Outstanding
  <1>19. CASE PostCqe
    BY <1>19 DEF PostCqe, Outstanding
  <1>20. CASE Retire
    BY <1>20 DEF Retire, Outstanding
  <1>21. CASE WaitFirst
    BY <1>21 DEF WaitFirst, Outstanding
  <1>22. CASE WaitQueue
    BY <1>22 DEF WaitQueue, Outstanding
  <1>23. CASE WaitCheck
    BY <1>23 DEF WaitCheck, WaitOver, TypeOK, WaitType, Outstanding
  <1>24. CASE WaitAwake
    BY <1>24 DEF WaitAwake, Outstanding
  <1>25. CASE InitConnects
    BY <1>25 DEF InitConnects, Outstanding
  <1>26. CASE SendMsg
    BY <1>26 DEF SendMsg, Outstanding
  <1>27. CASE ReceiveMsg
    BY <1>27 DEF ReceiveMsg, Outstanding
  <1>28. CASE DrainFlag
    BY <1>28 DEF DrainFlag, Outstanding
  <1>29. CASE Kill
    BY <1>29 DEF Kill, Outstanding
  <1>30. CASE QpInitState
    BY <1>30 DEF QpInitState, Outstanding
  <1>31. CASE QpInitFlag
    BY <1>31 DEF QpInitFlag, Outstanding
  <1>32. CASE QpInitThread
    BY <1>32 DEF QpInitThread, Outstanding
  <1>33. CASE QpExit
    BY <1>33 DEF QpExit, Outstanding
  <1>34. CASE QpExitStop
    BY <1>34 DEF QpExitStop, Outstanding
  <1>35. CASE QpExitJoin
    BY <1>35 DEF QpExitJoin, Outstanding
  <1>36. CASE QpExitSpin
    BY <1>36 DEF QpExitSpin, Outstanding
  <1>37. CASE PollCq
    BY <1>37 DEF PollCq, Outstanding
  <1>38. CASE UNCHANGED vars
    BY <1>38 DEF vars, Outstanding
  <1> QED
    BY <1>1, <1>2, <1>3, <1>4, <1>5, <1>6, <1>7, <1>8, <1>9, <1>10, <1>11, <1>12,
       <1>13, <1>14, <1>15, <1>16, <1>17, <1>18, <1>19, <1>20, <1>21, <1>22, <1>23,
       <1>24, <1>25, <1>26, <1>27, <1>28, <1>29, <1>30, <1>31, <1>32, <1>33, <1>34,
       <1>35, <1>36, <1>37, <1>38
    DEF Next, PostRest, WorkerLocal, WorkerPeer, QpInitRest, QpExitRest

\* dis_wq_thread never sleeps on a ring that holds a request with nobody on
\* the way to wake it, provided its store to wq_flag is visible before it
\* reads the ring (which x86 does not promise: see the run wq_tso).
THEOREM WakeupsReachWorker ==
    ASSUME Tso = FALSE
    PROVE  Spec => []NoLostWakeup
  <1>1. Init => WakeInv
    <2> SUFFICES ASSUME Init PROVE WakeInv
      OBVIOUS
    <2>1. TypeOK
      BY TypeInit
    <2> QED BY <2>1 DEF Init, WakeInv, StartInv, FlagInv, WokenInv, Waiting
  <1>2. WakeInv => NoLostWakeup
    BY OutstandingType DEF WakeInv, FlagInv, WokenInv, Waiting, NoLostWakeup
  <1> QED BY <1>1, <1>2, WakeStep, PTL DEF Spec

------------------------------------------------------------------------------
(* The ring holds what was accepted and not yet retired.                    *)

\* A request that is being posted goes to the slot at head, which is free.
PostInv ==
  \A p \in Posters :
    /\ ppc[p] \in {"fill", "publish"} => phead[p] = head /\ CircSpace(head, tail, WqeMax) >= 1
    /\ ppc[p] = "publish" => buf[head].wr_id = pwr[p].wr_id

\* The worker only works on an entry that is there.
BusyInv == pc \in {"op", "post_cqe", "retire"} => Outstanding >= 1

RingInv == TypeOK /\ PostInv /\ BusyInv /\ RingHoldsRequests

\* The slots of the ring that hold requests, and their ring neighbours.
LEMMA RingFacts ==
    ASSUME TypeOK
    PROVE  /\ WqeMax \in Nat \ {0}
           /\ head \in 0..WqeMax - 1
           /\ tail \in 0..WqeMax - 1
           /\ Outstanding \in 0..WqeMax - 1
           /\ CircSpace(head, tail, WqeMax) = WqeMax - 1 - Outstanding
           /\ \A i \in 1..Outstanding : /\ (tail + i - 1) % WqeMax \in Slots
                                        /\ (tail + i - 1) % WqeMax # head
           /\ (tail + (Outstanding + 1) - 1) % WqeMax = head
  <1>1. /\ WqeMax \in Nat \ {0}
        /\ head \in 0..WqeMax - 1
        /\ tail \in 0..WqeMax - 1
    BY WqAssumption DEF TypeOK, RingType, Slots
  <1>2. Outstanding \in 0..WqeMax - 1
    BY OutstandingType
  <1>3. CircSpace(head, tail, WqeMax) = WqeMax - 1 - Outstanding
    BY <1>1, CircSpaceCases DEF Outstanding
  <1>4. ASSUME NEW i \in 1..Outstanding
        PROVE  (tail + i - 1) % WqeMax \in Slots /\ (tail + i - 1) % WqeMax # head
    <2>1. i \in 1..Outstanding + 1 /\ i # Outstanding + 1 /\ i \in 1..WqeMax
      BY <1>1, <1>2
    <2>2. (tail + i - 1) % WqeMax # head
      BY <1>1, <2>1, CircHeadSlot DEF Outstanding
    <2>3. (tail + i - 1) % WqeMax \in Slots
      BY <1>1, <2>1, CircSlotCases DEF Slots
    <2> QED BY <2>2, <2>3
  <1>5. (tail + (Outstanding + 1) - 1) % WqeMax = head
    <2>1. Outstanding + 1 \in 1..Outstanding + 1
      BY <1>2
    <2> QED BY <1>1, <2>1, CircHeadSlot DEF Outstanding
  <1> QED BY <1>1, <1>2, <1>3, <1>4, <1>5

\* The slot at tail is the one of the oldest entry.
LEMMA TailSlot == TypeOK => (tail + 1 - 1) % WqeMax = tail
  <1> SUFFICES ASSUME TypeOK PROVE (tail + 1 - 1) % WqeMax = tail
    OBVIOUS
  <1>1. WqeMax \in Nat \ {0} /\ tail \in 0..WqeMax - 1
    BY RingFacts
  <1>2. 1 \in 1..WqeMax
    BY <1>1
  <1> QED BY <1>1, <1>2, CircSlotCases

\* A step that leaves head, tail, the history and the wr_ids in the ring
\* alone leaves the property alone.
LEMMA RingFrame ==
    ASSUME RingInv, UNCHANGED <<head, tail, accepted, retired>>,
           \A i \in Slots : i # head => buf'[i].wr_id = buf[i].wr_id
    PROVE  RingHoldsRequests'
  <1>1. ASSUME NEW i \in 1..Outstanding
        PROVE  buf'[(tail + i - 1) % WqeMax].wr_id = accepted[retired + i].wr_id
    <2>1. (tail + i - 1) % WqeMax \in Slots /\ (tail + i - 1) % WqeMax # head
      BY RingFacts DEF RingInv
    <2> QED BY <2>1 DEF RingInv, RingHoldsRequests
  <1> QED BY <1>1 DEF RingInv, RingHoldsRequests, Outstanding

\* With one posting thread, no step breaks the invariant.
LEMMA RingStep ==
    ASSUME \A p, q \in Posters : p = q
    PROVE  RingInv /\ [Next]_vars => RingInv'
  <1> SUFFICES ASSUME RingInv, [Next]_vars
               PROVE  PostInv' /\ BusyInv' /\ RingHoldsRequests'
    BY TypeStep DEF RingInv
  <1> USE DEF ring, wakeVars, consumeVars, workerVars, posterVars, cqVars,
              postFrame, workerFrame, threadFrame, consumeFrame, ctlFrame, Goto
  <1>t. TypeOK /\ TypeOK' /\ PostInv /\ BusyInv
    BY TypeStep DEF RingInv
  <1>1. ASSUME NEW p \in Posters, PostCheck(p) PROVE PostInv' /\ BusyInv' /\ RingHoldsRequests'
    <2>1. RingHoldsRequests'
      BY <1>1, RingFrame DEF PostCheck
    <2> QED BY <1>1, <1>t, <2>1 DEF PostCheck, PostInv, BusyInv, Outstanding, TypeOK, PosterType
  <1>2. ASSUME NEW p \in Posters, FillStatic(p) PROVE PostInv' /\ BusyInv' /\ RingHoldsRequests'
    <2>1. phead[p] = head /\ CircSpace(head, tail, WqeMax) >= 1
      BY <1>2, <1>t DEF FillStatic, PostInv
    <2>2. head \in Slots /\ buf \in [Slots -> Wqes]
      BY <1>t DEF TypeOK, RingType
    <2>3. \A i \in Slots : i # head => buf'[i].wr_id = buf[i].wr_id
      BY <1>2, <2>1, <2>2 DEF FillStatic
    <2>4. buf'[head].wr_id = pwr[p].wr_id
      BY <1>2, <2>1, <2>2 DEF FillStatic, Wqes
    <2>5. PostInv'
      BY <1>2, <1>t, <2>1, <2>4 DEF FillStatic, PostInv, TypeOK, PosterType
    <2>6. BusyInv'
      BY <1>2, <1>t DEF FillStatic, BusyInv, Outstanding
    <2>7. RingHoldsRequests'
      BY <1>2, <2>3, RingFrame DEF FillStatic
    <2> QED BY <2>5, <2>6, <2>7
  <1>3. ASSUME NEW p \in Posters, FillDynamic(p) PROVE PostInv' /\ BusyInv' /\ RingHoldsRequests'
    <2>1. phead[p] = head /\ CircSpace(head, tail, WqeMax) >= 1
      BY <1>3, <1>t DEF FillDynamic, PostInv
    <2>2. head \in Slots /\ buf \in [Slots -> Wqes]
      BY <1>t DEF TypeOK, RingType
    <2>3. \A i \in Slots : i # head => buf'[i].wr_id = buf[i].wr_id
      BY <1>3, <2>1, <2>2 DEF FillDynamic
    <2>4. buf'[head].wr_id = pwr[p].wr_id
      BY <1>3, <2>1, <2>2 DEF FillDynamic, Wqes
    <2>5. PostInv'
      BY <1>3, <1>t, <2>1, <2>4 DEF FillDynamic, PostInv, TypeOK, PosterType
    <2>6. BusyInv'
      BY <1>3, <1>t DEF FillDynamic, BusyInv, Outstanding
    <2>7. RingHoldsRequests'
      BY <1>3, <2>3, RingFrame DEF FillDynamic
    <2> QED BY <2>5, <2>6, <2>7
  <1>4. ASSUME NEW p \in Posters, FillFail(p) PROVE PostInv' /\ BusyInv' /\ RingHoldsRequests'
    <2>1. phead[p] = head /\ CircSpace(head, tail, WqeMax) >= 1
      BY <1>4, <1>t DEF FillFail, PostInv
    <2>2. head \in Slots /\ buf \in [Slots -> Wqes]
      BY <1>t DEF TypeOK, RingType
    <2>3. \A i \in Slots : i # head => buf'[i].wr_id = buf[i].wr_id
      BY <1>4, <2>1, <2>2 DEF FillFail
    <2>4. buf'[head].wr_id = pwr[p].wr_id
      BY <1>4, <2>1, <2>2 DEF FillFail, Wqes
    <2>5. PostInv'
      BY <1>4, <1>t, <2>1, <2>4 DEF FillFail, PostInv, TypeOK, PosterType
    <2>6. BusyInv'
      BY <1>4, <1>t DEF FillFail, BusyInv, Outstanding
    <2>7. RingHoldsRequests'
      BY <1>4, <2>3, RingFrame DEF FillFail
    <2> QED BY <2>5, <2>6, <2>7
  <1>5. ASSUME NEW p \in Posters, Publish(p) PROVE PostInv' /\ BusyInv' /\ RingHoldsRequests'
    <2> DEFINE n == Outstanding
    <2>1. phead[p] = head /\ CircSpace(head, tail, WqeMax) >= 1 /\ buf[head].wr_id = pwr[p].wr_id
      BY <1>5, <1>t DEF Publish, PostInv
    <2>2. /\ head' = CircNext(head, WqeMax)
          /\ accepted' = Append(accepted, pwr[p])
          /\ UNCHANGED <<tail, buf, retired, pc>>
      BY <1>5, <2>1 DEF Publish
    <2>3. Outstanding' = n + 1
      BY <1>t, <2>1, <2>2, RingFacts, CircCntGrows DEF Outstanding
    <2>4. PostInv'
      BY <1>5, <1>t DEF Publish, PostInv, TypeOK, PosterType
    <2>5. BusyInv'
      BY <1>t, <2>2, <2>3, RingFacts DEF BusyInv
    <2>6. /\ n \in Nat
          /\ retired \in Nat
          /\ accepted \in Seq(Requests)
          /\ pwr[p] \in Requests
          /\ Len(accepted) = retired + n
      BY <1>t, RingFacts DEF TypeOK, HistoryType, PosterType, RingInv, RingHoldsRequests
    <2>7. /\ Len(accepted') = Len(accepted) + 1
          /\ accepted'[retired + n + 1] = pwr[p]
          /\ \A i \in 1..n : accepted'[retired + i] = accepted[retired + i]
      BY <2>2, <2>6
    <2>8. ASSUME NEW i \in 1..n + 1
          PROVE  buf[(tail + i - 1) % WqeMax].wr_id = accepted'[retired + i].wr_id
      <3>1. CASE i = n + 1
        BY <1>t, <2>1, <2>6, <2>7, <3>1, RingFacts
      <3>2. CASE i # n + 1
        <4>1. i \in 1..n
          BY <2>6, <3>2
        <4> QED BY <2>7, <4>1 DEF RingInv, RingHoldsRequests
      <3> QED BY <3>1, <3>2
    <2>9. RingHoldsRequests'
      BY <2>2, <2>3, <2>6, <2>7, <2>8 DEF RingHoldsRequests
    <2> QED BY <2>4, <2>5, <2>9
  <1>6. ASSUME NEW p \in Posters, NotifyTooEarly(p) PROVE PostInv' /\ BusyInv' /\ RingHoldsRequests'
    <2>1. RingHoldsRequests'
      BY <1>6, RingFrame DEF NotifyTooEarly
    <2> QED
      BY <1>6, <1>t, <2>1 DEF NotifyTooEarly, PostInv, BusyInv, Outstanding, TypeOK, PosterType
  <1>7. ASSUME NEW p \in Posters, NotifyFlag(p) PROVE PostInv' /\ BusyInv' /\ RingHoldsRequests'
    <2>1. RingHoldsRequests'
      BY <1>7, RingFrame DEF NotifyFlag
    <2> QED BY <1>7, <1>t, <2>1 DEF NotifyFlag, PostInv, BusyInv, Outstanding, TypeOK, PosterType
  <1>8. ASSUME NEW p \in Posters, NotifyWake(p) PROVE PostInv' /\ BusyInv' /\ RingHoldsRequests'
    <2>1. RingHoldsRequests'
      BY <1>8, RingFrame DEF NotifyWake
    <2> QED BY <1>8, <1>t, <2>1 DEF NotifyWake, PostInv, BusyInv, Outstanding, TypeOK, PosterType
  <1>9. CASE ThreadNeverRuns
    <2>1. RingHoldsRequests'
      BY <1>9, RingFrame DEF ThreadNeverRuns
    <2> QED BY <1>9, <1>t, <2>1 DEF ThreadNeverRuns, PostInv, BusyInv, Outstanding
  <1>10. CASE ThreadStart
    <2>1. RingHoldsRequests'
      BY <1>10, RingFrame DEF ThreadStart
    <2> QED BY <1>10, <1>t, <2>1 DEF ThreadStart, PostInv, BusyInv, Outstanding
  <1>11. CASE InitStopped
    <2>1. RingHoldsRequests'
      BY <1>11, RingFrame DEF InitStopped
    <2> QED BY <1>11, <1>t, <2>1 DEF InitStopped, PostInv, BusyInv, Outstanding
  <1>12. CASE LoopReset
    <2>1. RingHoldsRequests'
      BY <1>12, RingFrame DEF LoopReset
    <2> QED BY <1>12, <1>t, <2>1 DEF LoopReset, PostInv, BusyInv, Outstanding
  <1>13. CASE LoopStopped
    <2>1. RingHoldsRequests'
      BY <1>13, RingFrame DEF LoopStopped
    <2> QED BY <1>13, <1>t, <2>1 DEF LoopStopped, PostInv, BusyInv, Outstanding
  <1>14. CASE ThreadExit
    <2>1. RingHoldsRequests'
      BY <1>14, RingFrame DEF ThreadExit
    <2> QED BY <1>14, <1>t, <2>1 DEF ThreadExit, PostInv, BusyInv, Outstanding
  <1>15. CASE ScanStopped
    <2>1. RingHoldsRequests'
      BY <1>15, RingFrame DEF ScanStopped
    <2> QED BY <1>15, <1>t, <2>1 DEF ScanStopped, PostInv, BusyInv, Outstanding
  <1>16. CASE ScanEmpty
    <2>1. RingHoldsRequests'
      BY <1>16, RingFrame DEF ScanEmpty
    <2> QED BY <1>16, <1>t, <2>1 DEF ScanEmpty, PostInv, BusyInv, Outstanding
  <1>17. CASE ScanTake
    <2>1. RingHoldsRequests'
      BY <1>17, RingFrame DEF ScanTake
    <2> QED BY <1>17, <1>t, <2>1, RingFacts DEF ScanTake, PostInv, BusyInv, Outstanding
  <1>18. CASE OpStopped
    <2>1. RingHoldsRequests'
      BY <1>18, RingFrame DEF OpStopped
    <2> QED BY <1>18, <1>t, <2>1 DEF OpStopped, PostInv, BusyInv, Outstanding
  <1>19. CASE PostCqe
    <2>1. RingHoldsRequests'
      BY <1>19, RingFrame DEF PostCqe
    <2> QED BY <1>19, <1>t, <2>1 DEF PostCqe, PostInv, BusyInv, Outstanding
  <1>20. CASE Retire
    <2> DEFINE n == Outstanding
    <2>1. n >= 1 /\ pc' = "scan" /\ tail' = CircNext(tail, WqeMax) /\ retired' = retired + 1
      BY <1>20, <1>t DEF Retire, BusyInv
    <2>2. UNCHANGED <<head, buf, accepted, ppc, phead, pwr>>
      BY <1>20 DEF Retire
    <2>3. Outstanding' = n - 1
      BY <1>t, <2>1, <2>2, RingFacts, CircCntShrinks DEF Outstanding
    <2>4. /\ CircSpace(head, tail, WqeMax) = WqeMax - 1 - n
          /\ CircSpace(head', tail', WqeMax) = WqeMax - 1 - (n - 1)
          /\ n \in 0..WqeMax - 1
          /\ WqeMax \in Nat \ {0}
          /\ tail \in 0..WqeMax - 1
      <3>1. tail' \in 0..WqeMax - 1
        BY <1>t DEF TypeOK, RingType, Slots
      <3>2. CircSpace(head, tail', WqeMax) = WqeMax - 1 - CircCnt(head, tail', WqeMax)
        BY <1>t, <3>1, RingFacts, CircSpaceCases
      <3> QED BY <1>t, <2>2, <2>3, <3>2, RingFacts DEF Outstanding
    <2>5. PostInv'
      BY <1>t, <2>2, <2>4 DEF PostInv
    <2>6. BusyInv'
      BY <2>1 DEF BusyInv
    <2>7. retired \in Nat /\ Len(accepted) = retired + n
      BY <1>t DEF TypeOK, HistoryType, RingInv, RingHoldsRequests
    <2>8. ASSUME NEW i \in 1..n - 1
          PROVE  buf[(tail' + i - 1) % WqeMax].wr_id = accepted[retired' + i].wr_id
      <3>1. i \in 1..WqeMax - 1 /\ i + 1 \in 1..n
        BY <2>4
      <3>2. (tail' + i - 1) % WqeMax = (tail + (i + 1) - 1) % WqeMax
        BY <2>1, <2>4, <3>1, CircSlotShifts
      <3>3. buf[(tail + (i + 1) - 1) % WqeMax].wr_id = accepted[retired + (i + 1)].wr_id
        BY <3>1 DEF RingInv, RingHoldsRequests
      <3>4. retired' + i = retired + (i + 1)
        BY <2>1, <2>7, <3>1
      <3> QED BY <3>2, <3>3, <3>4
    <2>9. RingHoldsRequests'
      BY <2>1, <2>2, <2>3, <2>4, <2>7, <2>8 DEF RingHoldsRequests
    <2> QED BY <2>5, <2>6, <2>9
  <1>21. CASE WaitFirst
    <2>1. RingHoldsRequests'
      BY <1>21, RingFrame DEF WaitFirst
    <2> QED BY <1>21, <1>t, <2>1 DEF WaitFirst, PostInv, BusyInv, Outstanding
  <1>22. CASE WaitQueue
    <2>1. RingHoldsRequests'
      BY <1>22, RingFrame DEF WaitQueue
    <2> QED BY <1>22, <1>t, <2>1 DEF WaitQueue, PostInv, BusyInv, Outstanding
  <1>23. CASE WaitCheck
    <2>1. RingHoldsRequests'
      BY <1>23, RingFrame DEF WaitCheck
    <2> QED BY <1>23, <1>t, <2>1 DEF WaitCheck, PostInv, BusyInv, Outstanding
  <1>24. CASE WaitAwake
    <2>1. RingHoldsRequests'
      BY <1>24, RingFrame DEF WaitAwake
    <2> QED BY <1>24, <1>t, <2>1 DEF WaitAwake, PostInv, BusyInv, Outstanding
  <1>25. CASE InitConnects
    <2>1. RingHoldsRequests'
      BY <1>25, RingFrame DEF InitConnects
    <2> QED BY <1>25, <1>t, <2>1 DEF InitConnects, PostInv, BusyInv, Outstanding
  <1>26. CASE SendMsg
    <2>1. RingHoldsRequests'
      BY <1>26, RingFrame DEF SendMsg
    <2> QED BY <1>26, <1>t, <2>1 DEF SendMsg, PostInv, BusyInv, Outstanding
  <1>27. CASE ReceiveMsg
    <2>1. buf \in [Slots -> Wqes] /\ tail \in Slots
      BY <1>t DEF TypeOK, RingType
    <2>2. \A i \in Slots : buf'[i].wr_id = buf[i].wr_id
      BY <1>27, <2>1 DEF ReceiveMsg, Wqes
    <2>3. head \in Slots /\ UNCHANGED <<head, tail, accepted, retired, ppc, phead, pwr>>
      BY <1>27, <1>t DEF ReceiveMsg, TypeOK, RingType
    <2>4. RingHoldsRequests'
      BY <2>2, <2>3, RingFrame
    <2>5. PostInv'
      BY <1>t, <2>2, <2>3 DEF PostInv
    <2>6. BusyInv'
      BY <1>27, <1>t DEF ReceiveMsg, BusyInv, Outstanding
    <2> QED BY <2>4, <2>5, <2>6
  <1>28. CASE DrainFlag
    <2>1. RingHoldsRequests'
      BY <1>28, RingFrame DEF DrainFlag
    <2> QED BY <1>28, <1>t, <2>1 DEF DrainFlag, PostInv, BusyInv, Outstanding
  <1>29. CASE Kill
    <2>1. RingHoldsRequests'
      BY <1>29, RingFrame DEF Kill
    <2> QED BY <1>29, <1>t, <2>1 DEF Kill, PostInv, BusyInv, Outstanding
  <1>30. CASE QpInitState
    <2>1. RingHoldsRequests'
      BY <1>30, RingFrame DEF QpInitState
    <2> QED BY <1>30, <1>t, <2>1 DEF QpInitState, PostInv, BusyInv, Outstanding
  <1>31. CASE QpInitFlag
    <2>1. RingHoldsRequests'
      BY <1>31, RingFrame DEF QpInitFlag
    <2> QED BY <1>31, <1>t, <2>1 DEF QpInitFlag, PostInv, BusyInv, Outstanding
  <1>32. CASE QpInitThread
    <2>1. RingHoldsRequests'
      BY <1>32, RingFrame DEF QpInitThread
    <2> QED BY <1>32, <1>t, <2>1 DEF QpInitThread, PostInv, BusyInv, Outstanding
  <1>33. CASE QpExit
    <2>1. RingHoldsRequests'
      BY <1>33, RingFrame DEF QpExit
    <2> QED BY <1>33, <1>t, <2>1 DEF QpExit, PostInv, BusyInv, Outstanding
  <1>34. CASE QpExitStop
    <2>1. RingHoldsRequests'
      BY <1>34, RingFrame DEF QpExitStop
    <2> QED BY <1>34, <1>t, <2>1 DEF QpExitStop, PostInv, BusyInv, Outstanding
  <1>35. CASE QpExitJoin
    <2>1. RingHoldsRequests'
      BY <1>35, RingFrame DEF QpExitJoin
    <2> QED BY <1>35, <1>t, <2>1 DEF QpExitJoin, PostInv, BusyInv, Outstanding
  <1>36. CASE QpExitSpin
    <2>1. RingHoldsRequests'
      BY <1>36, RingFrame DEF QpExitSpin
    <2> QED BY <1>36, <1>t, <2>1 DEF QpExitSpin, PostInv, BusyInv, Outstanding
  <1>37. CASE PollCq
    <2>1. RingHoldsRequests'
      BY <1>37, RingFrame DEF PollCq
    <2> QED BY <1>37, <1>t, <2>1 DEF PollCq, PostInv, BusyInv, Outstanding
  <1>38. CASE UNCHANGED vars
    <2>1. RingHoldsRequests'
      BY <1>38, RingFrame DEF vars
    <2> QED BY <1>38, <1>t, <2>1 DEF vars, PostInv, BusyInv, Outstanding
  <1> QED
    BY <1>1, <1>2, <1>3, <1>4, <1>5, <1>6, <1>7, <1>8, <1>9, <1>10, <1>11, <1>12,
       <1>13, <1>14, <1>15, <1>16, <1>17, <1>18, <1>19, <1>20, <1>21, <1>22, <1>23,
       <1>24, <1>25, <1>26, <1>27, <1>28, <1>29, <1>30, <1>31, <1>32, <1>33, <1>34,
       <1>35, <1>36, <1>37, <1>38
    DEF Next, PostRest, WorkerLocal, WorkerPeer, QpInitRest, QpExitRest

\* With one posting thread the ring holds exactly the accepted requests that
\* are not retired, in order, for every ring size and any number of turns
\* round it: the unlocked dis_qp_post_one_* and dis_wq_consume_all need no
\* more than the release and acquire of head and tail.
THEOREM RingIsFaithful ==
    ASSUME \A p, q \in Posters : p = q
    PROVE  Spec => []RingHoldsRequests
  <1>1. Init => RingInv
    <2> SUFFICES ASSUME Init PROVE RingInv
      OBVIOUS
    <2>1. TypeOK
      BY TypeInit
    <2>2. Outstanding = 0
      BY <2>1, RingFacts, CircCntCases DEF Init, Outstanding
    <2>3. PostInv /\ BusyInv
      BY DEF Init, PostInv, BusyInv
    <2>4. RingHoldsRequests
      BY <2>2 DEF Init, RingHoldsRequests
    <2> QED BY <2>1, <2>3, <2>4 DEF RingInv
  <1>2. RingInv => RingHoldsRequests
    BY DEF RingInv
  <1> QED BY <1>1, <1>2, RingStep, PTL DEF Spec
==============================================================================
