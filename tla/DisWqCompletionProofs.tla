------------------------- MODULE DisWqCompletionProofs -----------------------
(***************************************************************************)
(* Proofs about what becomes of the requests of a work queue that one      *)
(* thread posts to: their completions, their place in the ring and their   *)
(* page maps.                                                              *)
(***************************************************************************)
EXTENDS DisWqStopProofs, SequenceTheorems

\* dis_post_send or dis_post_recv is called by one thread at a time.
OnePoster == \A p, q \in Posters : p = q

\* A completion counts its bytes in a u16 (struct dis_cqe).
ShortRequests == \A n \in ByteLens : n < 65536

\* Between the check for room and the store to head.
Posting == {"fill", "publish"}

\* The worker has an entry in hand.
Busy == {"op", "post_cqe", "retire"}

\* The slot of the i-th oldest request.
Slot(i) == (tail + i - 1) % WqeMax

------------------------------------------------------------------------------
(* The invariant.                                                           *)

\* Requests are the application's and are accepted in the order of their
\* numbers.
RequestInv ==
  /\ posts <= MaxPosts
  /\ \A i \in DOMAIN accepted : accepted[i] \in Wrs /\ accepted[i].wr_id <= posts
  /\ \A i, j \in DOMAIN accepted : i < j => accepted[i].wr_id < accepted[j].wr_id
  /\ \A p \in Posters : ppc[p] \in Posting =>
       /\ pwr[p] \in Wrs
       /\ pwr[p].wr_id <= posts
       /\ \A i \in DOMAIN accepted : accepted[i].wr_id < pwr[p].wr_id

\* The worker may have overwritten the length of the request it has in hand.
Touched(i) ==
  /\ i = 1
  /\ \/ pc = "op" /\ WqType = "DIS_RQ"
     \/ pc \in {"post_cqe", "retire"} /\ wc_status # "SUCCESS"

\* Apart from that the ring has the lengths of the requests, and the worker
\* remembers the one it may have overwritten.
LengthInv ==
  /\ \A i \in 1..Outstanding :
       Touched(i) \/ buf[Slot(i)].byte_len = accepted[retired + i].byte_len
  /\ pc = "op" => bytes_total = accepted[retired + 1].byte_len
  /\ \A p \in Posters : ppc[p] = "publish" => buf[head].byte_len = pwr[p].byte_len

\* The completions are those of requests done, in their order.
CqeInv ==
  /\ \A k \in DOMAIN cqes : \E i \in 1..Done :
       /\ accepted[i].wr_id = cqes[k].wr_id
       /\ cqes[k].status = "SUCCESS" => cqes[k].byte_len = accepted[i].byte_len
  /\ \A j, k \in DOMAIN cqes : j < k => cqes[j].wr_id < cqes[k].wr_id

\* Completions are polled after they are posted, and requests posted after
\* enough of them are polled.
CreditInv ==
  /\ npolled <= Len(cqes)
  /\ Len(cqes) <= Done
  /\ Len(accepted) - npolled <= Credits
  /\ \A p \in Posters : ppc[p] \in Posting => Len(accepted) - npolled < Credits

\* With that many credits no completion is lost.
AllInv ==
  Credits <= CqeRoom =>
    /\ Len(cqes) = Done
    /\ \A i \in 1..Done : cqes[i].wr_id = accepted[i].wr_id

\* Every allocated page map is that of a slot in use, and where all requests
\* bring page maps each of these slots has its own.  When dis_destroy_qp has
\* freed the ring, these are the maps that nobody will free.
MapInv ==
  /\ heap \subseteq {buf[s].page_map_dynamic : s \in MappedSlots}
  /\ Larges = {TRUE} =>
       /\ heap = {buf[s].page_map_dynamic : s \in MappedSlots}
       /\ \A s, t \in MappedSlots :
            buf[s].page_map_dynamic = buf[t].page_map_dynamic => s = t

------------------------------------------------------------------------------
(* What a step may do to the requests.                                      *)

\* A step that moves no request, neither through the ring nor to the
\* completion queue.
Quiet ==
  /\ UNCHANGED <<ring, consumeVars, phead, pwr, posts, accepted, retired, heap, cqVars>>
  /\ \A p \in Posters : ppc'[p] # ppc[p] => ppc[p] \notin Posting /\ ppc'[p] \notin Posting
  /\ pc' # pc => pc \notin Busy /\ pc' \notin Busy

\* The steps of a call that posts a request, up to the store to head.
PostStep(p) == PostCheck(p) \/ FillStatic(p) \/ FillDynamic(p) \/ FillFail(p) \/ Publish(p)

\* The steps of the worker with a request in hand.
WorkStep == ScanTake \/ OpStopped \/ SendMsg \/ ReceiveMsg \/ PostCqe \/ Retire

\* All other steps are quiet.
LEMMA StepKinds ==
    ASSUME TypeOK, LifeInv, [Next]_vars
    PROVE  Quiet \/ PollCq \/ WorkStep \/ \E p \in Posters : PostStep(p)
  <1> USE DEF Quiet, Busy, Posting, ring, consumeVars, cqVars
  <1>1. ASSUME NEW p \in Posters, NotifyTooEarly(p) \/ NotifyFlag(p) \/ NotifyWake(p) PROVE Quiet
    BY <1>1 DEF NotifyTooEarly, NotifyFlag, NotifyWake, postFrame, workerVars, TypeOK, PosterType
  <1>2. CASE ThreadNeverRuns
    BY <1>2 DEF ThreadNeverRuns, Goto, threadFrame, workerFrame, posterVars
  <1>3. CASE ThreadStart
    BY <1>3 DEF ThreadStart, threadFrame, workerFrame, posterVars
  <1>4. CASE InitStopped
    BY <1>4 DEF InitStopped, threadFrame, workerFrame, posterVars
  <1>5. CASE LoopReset
    BY <1>5 DEF LoopReset, threadFrame, workerFrame, posterVars
  <1>6. CASE LoopStopped
    BY <1>6 DEF LoopStopped, Goto, threadFrame, workerFrame, posterVars
  <1>7. CASE ThreadExit
    BY <1>7 DEF ThreadExit, threadFrame, workerFrame, posterVars
  <1>8. CASE ScanStopped
    BY <1>8 DEF ScanStopped, Goto, threadFrame, workerFrame, posterVars
  <1>9. CASE ScanEmpty
    BY <1>9 DEF ScanEmpty, Goto, threadFrame, workerFrame, posterVars
  <1>10. CASE WaitFirst
    BY <1>10 DEF WaitFirst, Goto, threadFrame, workerFrame, posterVars
  <1>11. CASE WaitQueue
    BY <1>11 DEF WaitQueue, threadFrame, workerFrame, posterVars
  <1>12. CASE WaitCheck
    BY <1>12 DEF WaitCheck, Goto, threadFrame, workerFrame, posterVars
  <1>13. CASE WaitAwake
    BY <1>13 DEF WaitAwake, Goto, threadFrame, workerFrame, posterVars
  <1>14. CASE InitConnects
    BY <1>14 DEF InitConnects, threadFrame, workerFrame, posterVars
  <1>15. CASE DrainFlag
    BY <1>15 DEF DrainFlag, threadFrame, workerFrame, posterVars
  <1>16. CASE Kill
    BY <1>16 DEF Kill, workerVars, posterVars
  <1>17. CASE QpInitState
    BY <1>17 DEF QpInitState, ctlFrame, posterVars
  <1>18. CASE QpInitFlag
    BY <1>18 DEF QpInitFlag, ctlFrame, posterVars
  <1>19. CASE QpInitThread
    BY <1>19 DEF QpInitThread, ctlFrame, posterVars, LifeInv, CtlInv
  <1>20. CASE QpExit
    BY <1>20 DEF QpExit, ctlFrame, posterVars
  <1>21. CASE QpExitStop
    BY <1>21 DEF QpExitStop, ctlFrame, posterVars
  <1>22. CASE QpExitJoin
    BY <1>22 DEF QpExitJoin, ctlFrame, posterVars
  <1>23. CASE QpExitSpin
    BY <1>23 DEF QpExitSpin, ctlFrame, posterVars
  <1>24. CASE UNCHANGED vars
    BY <1>24 DEF vars, workerVars, posterVars
  <1> QED
    BY <1>1, <1>2, <1>3, <1>4, <1>5, <1>6, <1>7, <1>8, <1>9, <1>10, <1>11, <1>12, <1>13,
       <1>14, <1>15, <1>16, <1>17, <1>18, <1>19, <1>20, <1>21, <1>22, <1>23, <1>24
    DEF Next, PostRest, WorkerLocal, WorkerPeer, QpInitRest, QpExitRest, PostStep,
        WorkStep

\* The slots of the requests differ from each other and from the one at head.
LEMMA SlotFacts ==
    ASSUME TypeOK
    PROVE  /\ WqeMax \in Nat \ {0}
           /\ head \in Slots
           /\ tail \in Slots
           /\ Outstanding \in 0..WqeMax - 1
           /\ Slot(1) = tail
           /\ Slot(Outstanding + 1) = head
           /\ \A i \in 1..Outstanding : Slot(i) \in Slots /\ Slot(i) # head
           /\ \A i, j \in 1..Outstanding : Slot(i) = Slot(j) => i = j
  <1>1. ASSUME NEW i \in 1..Outstanding, NEW j \in 1..Outstanding, Slot(i) = Slot(j) PROVE i = j
    <2>1. WqeMax \in Nat \ {0} /\ tail \in 0..WqeMax - 1 /\ i \in 1..WqeMax /\ j \in 1..WqeMax
      BY RingFacts
    <2> QED BY <1>1, <2>1, CircSlotDiffers DEF Slot
  <1> QED BY <1>1, RingFacts, TailSlot DEF Slot, Slots

\* The ring and the history, while neither index moves.
LEMMA RingStays ==
    ASSUME UNCHANGED <<head, tail>>
    PROVE  Outstanding' = Outstanding /\ \A i : Slot(i)' = Slot(i)
  BY DEF Outstanding, Slot

\* What the ring holds, by slots.
LEMMA RingHolds ==
    ASSUME RingInv
    PROVE  /\ TypeOK
           /\ accepted \in Seq(Requests)
           /\ retired \in Nat
           /\ Outstanding \in Nat
           /\ Len(accepted) = retired + Outstanding
           /\ pc \in Busy => Outstanding >= 1
           /\ \A i \in 1..Outstanding :
                retired + i \in DOMAIN accepted /\ buf[Slot(i)].wr_id = accepted[retired + i].wr_id
           /\ \A p \in Posters : ppc[p] \in Posting => phead[p] = head
           /\ \A p \in Posters : ppc[p] = "publish" => buf[head].wr_id = pwr[p].wr_id
  <1>1. TypeOK /\ PostInv /\ BusyInv /\ RingHoldsRequests
    BY DEF RingInv
  <1>2. /\ accepted \in Seq(Requests)
        /\ retired \in Nat
        /\ Outstanding \in Nat
    BY <1>1, SlotFacts DEF TypeOK, HistoryType
  <1>3. Len(accepted) = retired + Outstanding
    BY <1>1 DEF RingHoldsRequests
  <1>4. \A i \in 1..Outstanding :
          retired + i \in DOMAIN accepted /\ buf[Slot(i)].wr_id = accepted[retired + i].wr_id
    BY <1>1, <1>2, <1>3 DEF RingHoldsRequests, Slot
  <1> QED BY <1>1, <1>2, <1>3, <1>4 DEF PostInv, BusyInv, Posting, Busy

\* Storing head adds the request that was being posted behind the others.
LEMMA RingGrows ==
    ASSUME RingInv, NEW p \in Posters, Publish(p)
    PROVE  /\ Outstanding' = Outstanding + 1
           /\ \A i : Slot(i)' = Slot(i)
           /\ head = Slot(Outstanding + 1)
           /\ UNCHANGED <<tail, buf, retired, pc>>
           /\ DOMAIN accepted = 1..Len(accepted)
           /\ DOMAIN accepted' = 1..Len(accepted) + 1
           /\ Len(accepted') = Len(accepted) + 1
           /\ accepted'[Len(accepted) + 1] = pwr[p]
           /\ \A i \in 1..Len(accepted) : accepted'[i] = accepted[i]
  <1>1. /\ phead[p] = head /\ CircSpace(head, tail, WqeMax) >= 1
        /\ TypeOK
    BY DEF RingInv, PostInv, Publish
  <1>2. /\ head' = CircNext(head, WqeMax)
        /\ accepted' = Append(accepted, pwr[p])
        /\ UNCHANGED <<tail, buf, retired, pc>>
    BY <1>1 DEF Publish, postFrame, workerVars
  <1>3. Outstanding' = Outstanding + 1
    BY <1>1, <1>2, RingFacts, CircCntGrows DEF Outstanding
  <1>4. \A i : Slot(i)' = Slot(i)
    BY <1>2 DEF Slot
  <1>5. accepted \in Seq(Requests) /\ pwr[p] \in Requests
    BY <1>1 DEF TypeOK, HistoryType, PosterType
  <1> QED BY <1>1, <1>2, <1>3, <1>4, <1>5, SlotFacts

\* Storing tail takes the oldest request away.
LEMMA RingShrinks ==
    ASSUME RingInv, Retire
    PROVE  /\ Outstanding >= 1
           /\ Outstanding' = Outstanding - 1
           /\ retired' = retired + 1
           /\ Done = retired + 1
           /\ Done' = retired + 1
           /\ \A i \in 1..Outstanding - 1 : Slot(i)' = Slot(i + 1)
           /\ UNCHANGED <<head, buf, consumeVars, posterVars, cqVars>>
  <1>1. TypeOK /\ Outstanding >= 1
    BY DEF RingInv, BusyInv, Retire
  <1>2. /\ tail' = CircNext(tail, WqeMax)
        /\ retired' = retired + 1
        /\ pc = "retire"
        /\ pc' = "scan"
        /\ UNCHANGED <<head, buf, consumeVars, posterVars, cqVars>>
    BY DEF Retire, consumeFrame, workerFrame, cqVars
  <1>3. Outstanding' = Outstanding - 1
    BY <1>1, <1>2, RingFacts, CircCntShrinks DEF Outstanding
  <1>4. ASSUME NEW i \in 1..Outstanding - 1 PROVE Slot(i)' = Slot(i + 1)
    <2>1. WqeMax \in Nat \ {0} /\ tail \in 0..WqeMax - 1 /\ i \in 1..WqeMax - 1
      BY <1>1, RingFacts
    <2> QED BY <1>2, <2>1, CircSlotShifts DEF Slot
  <1> QED BY <1>1, <1>2, <1>3, <1>4 DEF Done

------------------------------------------------------------------------------
(* The requests.                                                            *)

\* Only the posting thread changes what the invariant is about.
LEMMA WorkerKeepsRequests ==
    ASSUME WorkStep \/ PollCq
    PROVE  UNCHANGED posterVars
  BY DEF WorkStep, ScanTake, OpStopped, SendMsg, ReceiveMsg, PostCqe, Retire, PollCq, consumeFrame,
         workerFrame

\* With one posting thread, requests stay in order.
LEMMA RequestStep ==
    ASSUME OnePoster, RingInv, LifeInv, RequestInv, [Next]_vars
    PROVE  RequestInv'
  <1>r. /\ TypeOK
        /\ accepted \in Seq(Requests)
        /\ pwr \in [Posters -> Requests]
        /\ posts \in Nat
    BY RingHolds DEF TypeOK, PosterType
  <1>s. \A i \in DOMAIN accepted : accepted[i] \in Requests
    BY <1>r
  <1>t. /\ TypeOK
        /\ posts \in Nat
        /\ \A i \in DOMAIN accepted : accepted[i].wr_id \in Nat
        /\ \A p \in Posters : pwr[p].wr_id \in Nat
    BY <1>r, <1>s DEF Requests
  <1>1. CASE Quiet
    BY <1>1 DEF Quiet, RequestInv
  <1>2. CASE PollCq \/ WorkStep
    BY <1>2, WorkerKeepsRequests DEF posterVars, RequestInv
  <1>3. ASSUME NEW p \in Posters, PostCheck(p) PROVE RequestInv'
    <2>1. PICK len \in ByteLens :
            pwr' = [pwr EXCEPT ![p] = [wr_id |-> posts', byte_len |-> len]]
      BY <1>3 DEF PostCheck
    <2>2. /\ pwr'[p].wr_id = posts'
          /\ pwr'[p] \in Wrs
          /\ posts' = posts + 1
          /\ posts' <= MaxPosts
          /\ accepted' = accepted
      <3>1. posts' = posts + 1 /\ posts' \in 1..MaxPosts /\ accepted' = accepted
        BY <1>3, <1>t, WqAssumption DEF PostCheck, MayPost
      <3>2. pwr'[p] = [wr_id |-> posts', byte_len |-> len]
        BY <1>r, <2>1
      <3> QED BY <3>1, <3>2 DEF Wrs
    <2>3. \A q \in Posters : q = p
      BY DEF OnePoster
    <2> QED BY <1>t, <2>2, <2>3 DEF RequestInv
  <1>4. ASSUME NEW p \in Posters, FillStatic(p) \/ FillDynamic(p) \/ FillFail(p)
        PROVE  RequestInv'
    BY <1>4, <1>t DEF FillStatic, FillDynamic, FillFail, RequestInv, TypeOK, PosterType, Posting
  <1>5. ASSUME NEW p \in Posters, Publish(p) PROVE RequestInv'
    <2>1. /\ \A q \in Posters : q = p
          /\ ppc[p] \in Posting
          /\ ppc'[p] \notin Posting
          /\ UNCHANGED <<pwr, posts>>
      BY <1>5, <1>t DEF OnePoster, Publish, Posting, TypeOK, PosterType
    <2>2. /\ DOMAIN accepted = 1..Len(accepted)
          /\ DOMAIN accepted' = 1..Len(accepted) + 1
          /\ accepted'[Len(accepted) + 1] = pwr[p]
          /\ \A i \in 1..Len(accepted) : accepted'[i] = accepted[i]
          /\ Len(accepted) \in Nat
      BY <1>5, <1>r, RingGrows
    <2> QED BY <1>t, <2>1, <2>2 DEF RequestInv
  <1> QED BY <1>t, <1>1, <1>2, <1>3, <1>4, <1>5, StepKinds DEF PostStep

------------------------------------------------------------------------------
(* Their lengths in the ring.                                               *)

\* No step spoils a length, but for the one of the request in hand.
LEMMA LengthStep ==
    ASSUME OnePoster, RingInv, LifeInv, LengthInv, [Next]_vars
    PROVE  LengthInv'
  <1>t. TypeOK /\ TypeOK' /\ RingInv'
    BY RingStep, TypeStep DEF OnePoster, RingInv
  <1>b. buf \in [Slots -> Wqes] /\ head \in Slots /\ tail \in Slots
    BY <1>t DEF TypeOK, RingType
  <1>o. \A p, q \in Posters : p = q
    BY DEF OnePoster
  <1>1. CASE Quiet
    BY <1>1, RingStays DEF Quiet, ring, consumeVars, LengthInv, Touched, Busy, Posting
  <1>2. CASE PollCq
    BY <1>2, RingStays
    DEF PollCq, ring, workerVars, consumeVars, posterVars, LengthInv, Touched
  <1>3. ASSUME NEW p \in Posters, PostCheck(p) PROVE LengthInv'
    BY <1>3, <1>t, RingStays
    DEF PostCheck, postFrame, workerVars, consumeVars, LengthInv, Touched, TypeOK, PosterType
  <1>4. ASSUME NEW p \in Posters, FillStatic(p) \/ FillDynamic(p) \/ FillFail(p)
        PROVE  LengthInv'
    <2>1. /\ phead[p] = head
          /\ UNCHANGED <<head, tail, pc, wc_status, bytes_total, accepted, retired, pwr>>
      BY <1>4, RingHolds
      DEF FillStatic, FillDynamic, FillFail, Posting, postFrame, workerVars, consumeVars
    <2>2. \A s \in Slots : s # head => buf'[s] = buf[s]
      BY <1>4, <1>b, <2>1 DEF FillStatic, FillDynamic, FillFail
    <2>3. ppc'[p] = "publish" => buf'[head].byte_len = pwr[p].byte_len
      <3>1. CASE FillStatic(p)
        BY <1>b, <2>1, <3>1 DEF FillStatic, Wqes
      <3>2. CASE FillDynamic(p)
        BY <1>b, <2>1, <3>2 DEF FillDynamic
      <3>3. CASE FillFail(p)
        BY <1>t, <3>3 DEF FillFail, TypeOK, PosterType
      <3> QED BY <1>4, <3>1, <3>2, <3>3
    <2> QED BY <1>o, <1>t, <2>1, <2>2, <2>3, RingStays, SlotFacts DEF LengthInv, Touched
  <1>5. ASSUME NEW p \in Posters, Publish(p) PROVE LengthInv'
    <2>1. /\ UNCHANGED <<pc, wc_status, bytes_total, pwr>>
          /\ ppc[p] = "publish"
          /\ ppc'[p] = "notify"
      BY <1>5, <1>t
      DEF Publish, postFrame, workerVars, consumeVars, TypeOK, PosterType
    <2>2. \A i \in 1..Outstanding : accepted'[retired + i] = accepted[retired + i]
      BY <1>5, <1>t, RingGrows, RingHolds
    <2>3. accepted'[retired + (Outstanding + 1)] = pwr[p]
      BY <1>5, <1>t, RingGrows, RingHolds
    <2>4. ASSUME NEW i \in 1..Outstanding'
          PROVE  Touched(i)' \/ buf'[Slot(i)'].byte_len = accepted'[retired' + i].byte_len
      <3>1. CASE i = Outstanding + 1
        BY <1>5, <2>1, <2>3, <3>1, RingGrows DEF LengthInv
      <3>2. CASE i # Outstanding + 1
        <4>1. i \in 1..Outstanding
          BY <1>5, <3>2, RingGrows, RingHolds
        <4> QED BY <1>5, <2>1, <2>2, <4>1, RingGrows DEF LengthInv, Touched
      <3> QED BY <3>1, <3>2
    <2>5. pc' = "op" => bytes_total' = accepted'[retired' + 1].byte_len
      BY <1>5, <2>1, <2>2, RingGrows, RingHolds DEF LengthInv, Busy
    <2> QED BY <1>o, <2>1, <2>4, <2>5 DEF LengthInv
  <1>6. CASE ScanTake
    <2>1. /\ UNCHANGED <<head, tail, buf, accepted, retired, ppc, pwr>>
          /\ Outstanding >= 1
          /\ pc = "scan"
          /\ pc' = "op"
          /\ bytes_total' = buf[tail].byte_len
      BY <1>6 DEF ScanTake, workerFrame, consumeFrame, posterVars, Wqe, Outstanding
    <2>2. buf[Slot(1)].byte_len = accepted[retired + 1].byte_len
      BY <2>1, RingHolds DEF LengthInv, Touched
    <2> QED BY <1>t, <2>1, <2>2, RingStays, SlotFacts DEF LengthInv, Touched
  <1>7. CASE OpStopped \/ SendMsg
    BY <1>7, RingStays
    DEF OpStopped, SendMsg, workerFrame, consumeFrame, posterVars, LengthInv, Touched
  <1>8. CASE ReceiveMsg
    <2>1. /\ UNCHANGED <<head, tail, accepted, retired, ppc, pwr, bytes_total>>
          /\ pc = "op"
          /\ WqType = "DIS_RQ"
          /\ \/ pc' = "op"
             \/ pc' = "post_cqe" /\ buf' = [buf EXCEPT ![tail].byte_len = bytes_total]
      BY <1>8 DEF ReceiveMsg, workerFrame, consumeFrame, posterVars
    <2>2. \A s \in Slots : s # tail => buf'[s] = buf[s]
      BY <1>8, <1>b DEF ReceiveMsg
    <2>3. /\ Outstanding >= 1
          /\ \A i \in 1..Outstanding : Slot(i) \in Slots /\ (Slot(i) = tail => i = 1)
          /\ Slot(1) = tail
      BY <1>t, <2>1, SlotFacts, RingHolds DEF Busy
    <2>4. pc' = "post_cqe" => buf'[Slot(1)].byte_len = accepted[retired + 1].byte_len
      BY <1>b, <2>1, <2>3 DEF LengthInv, Wqes
    <2>5. ASSUME NEW i \in 1..Outstanding
          PROVE  Touched(i)' \/ buf'[Slot(i)].byte_len = accepted[retired + i].byte_len
      BY <2>1, <2>2, <2>3, <2>4, <2>5 DEF LengthInv, Touched
    <2>6. ASSUME NEW p \in Posters, ppc[p] = "publish"
          PROVE  buf'[head].byte_len = pwr[p].byte_len
      <3>1. head # tail
        BY <1>t, <2>3, SlotFacts
      <3> QED BY <1>b, <2>2, <2>6, <3>1 DEF LengthInv
    <2> QED BY <2>1, <2>5, <2>6, RingStays DEF LengthInv
  <1>9. CASE PostCqe
    BY <1>9, RingStays
    DEF PostCqe, workerFrame, consumeFrame, consumeVars, posterVars, LengthInv, Touched
  <1>10. CASE Retire
    <2>1. ASSUME NEW i \in 1..Outstanding - 1
          PROVE  buf[Slot(i + 1)].byte_len = accepted[retired + (i + 1)].byte_len
      <3>1. i + 1 \in 1..Outstanding /\ i + 1 # 1
        BY RingHolds
      <3> QED BY <3>1 DEF LengthInv, Touched
    <2>2. \A i \in 1..Outstanding - 1 : retired' + i = retired + (i + 1)
      BY <1>10, RingShrinks, RingHolds
    <2>3. pc' = "scan"
      BY <1>10 DEF Retire
    <2> QED BY <1>10, <2>1, <2>2, <2>3, RingShrinks DEF LengthInv, posterVars
  <1> QED
    BY <1>t, <1>1, <1>2, <1>3, <1>4, <1>5, <1>6, <1>7, <1>8, <1>9, <1>10, StepKinds
    DEF PostStep, WorkStep

------------------------------------------------------------------------------
(* Their completions.                                                       *)

\* The requests done are among those accepted.
LEMMA DoneFacts ==
    ASSUME RingInv
    PROVE  /\ Done \in Nat
           /\ Done <= Len(accepted)
           /\ DOMAIN accepted = 1..Len(accepted)
           /\ Len(accepted) \in Nat
           /\ \A i \in DOMAIN accepted : accepted[i].wr_id \in Nat
  <1>1. \A i \in DOMAIN accepted : accepted[i] \in Requests
    BY RingHolds
  <1> QED BY <1>1, RingHolds DEF Done, Busy, Requests

\* Only dis_wq_post_*_cqe posts a completion, and it does nothing else.
LEMMA OnlyPostCqe ==
    ASSUME RingInv, LifeInv, [Next]_vars, ~PostCqe
    PROVE  /\ Done' = Done
           /\ cqes' = cqes
           /\ \A i \in 1..Done : accepted'[i] = accepted[i]
  <1>1. CASE Quiet
    BY <1>1 DEF Quiet, Done, Busy, cqVars
  <1>2. CASE PollCq
    BY <1>2 DEF PollCq, Done, workerVars, posterVars
  <1>3. CASE WorkStep
    <2>1. CASE Retire
      BY <2>1, RingShrinks DEF posterVars, cqVars
    <2>2. CASE ScanTake \/ OpStopped \/ SendMsg \/ ReceiveMsg
      BY <2>2
      DEF ScanTake, OpStopped, SendMsg, ReceiveMsg, Done, workerFrame, consumeFrame, posterVars
    <2> QED BY <1>3, <2>1, <2>2 DEF WorkStep
  <1>4. ASSUME NEW p \in Posters, Publish(p)
        PROVE  Done' = Done /\ cqes' = cqes /\ \A i \in 1..Done : accepted'[i] = accepted[i]
    BY <1>4, DoneFacts, RingGrows DEF Publish, Done, postFrame, workerVars, cqVars
  <1>5. ASSUME NEW p \in Posters, PostCheck(p) \/ FillStatic(p) \/ FillDynamic(p) \/ FillFail(p)
        PROVE  Done' = Done /\ cqes' = cqes /\ accepted' = accepted
    BY <1>5
    DEF PostCheck, FillStatic, FillDynamic, FillFail, Done, postFrame, workerVars, cqVars
  <1> QED
    BY <1>1, <1>2, <1>3, <1>4, <1>5, StepKinds, RingHolds DEF PostStep

\* What it posts is the completion of the oldest request not done.
LEMMA PostsOldest ==
    ASSUME RingInv, RequestInv, LengthInv, PostCqe
    PROVE  /\ Done = retired
           /\ Done' = retired + 1
           /\ Done + 1 \in DOMAIN accepted
           /\ UNCHANGED <<accepted, npolled>>
           /\ Cqe.wr_id = accepted[Done + 1].wr_id
           /\ ShortRequests /\ Cqe.status = "SUCCESS"
                => Cqe.byte_len = accepted[Done + 1].byte_len
           /\ cqes' = IF Len(cqes) - npolled < CqeRoom THEN Append(cqes, Cqe) ELSE cqes
           /\ Len(cqes) - npolled < CqeRoom =>
                /\ Len(cqes') = Len(cqes) + 1
                /\ DOMAIN cqes' = 1..Len(cqes) + 1
                /\ cqes'[Len(cqes) + 1] = Cqe
                /\ \A k \in 1..Len(cqes) : cqes'[k] = cqes[k]
           /\ DOMAIN cqes = 1..Len(cqes)
           /\ Len(cqes) \in Nat
  <1>1. /\ pc = "post_cqe"
        /\ pc' = "retire"
        /\ UNCHANGED <<accepted, retired, npolled>>
        /\ cqes' = IF Len(cqes) - npolled < CqeRoom THEN Append(cqes, Cqe) ELSE cqes
    BY DEF PostCqe, workerFrame, consumeFrame, posterVars
  <1>2. Done = retired /\ Done' = retired + 1
    BY <1>1 DEF Done
  <1>3. Outstanding >= 1 /\ retired + 1 \in DOMAIN accepted /\ Slot(1) = tail
    BY <1>1, RingHolds, SlotFacts DEF Busy
  <1>4. Cqe.wr_id = accepted[retired + 1].wr_id
    BY <1>3, RingHolds DEF Cqe, Wqe
  <1>5. ASSUME ShortRequests, Cqe.status = "SUCCESS"
        PROVE  Cqe.byte_len = accepted[retired + 1].byte_len
    <2>1. wc_status = "SUCCESS"
      BY <1>5 DEF Cqe
    <2>2. Wqe.byte_len = accepted[retired + 1].byte_len
      BY <1>1, <1>3, <2>1, RingHolds DEF LengthInv, Touched, Wqe
    <2>3. Wqe.byte_len \in ByteLens
      BY <1>3, <2>2 DEF RequestInv, Wrs
    <2>4. Wqe.byte_len \in Nat /\ Wqe.byte_len < 65536
      <3>1. Wqe.byte_len < 65536
        BY <1>5, <2>3 DEF ShortRequests
      <3>2. Wqe.byte_len \in Nat
        BY <2>3, WqAssumption
      <3> QED BY <3>1, <3>2
    <2>5. Wqe.byte_len % 65536 = Wqe.byte_len
      BY <2>4
    <2> QED BY <2>2, <2>5 DEF Cqe
  <1>6. cqes \in Seq(Wcs)
    BY RingHolds DEF TypeOK, HistoryType
  <1> QED BY <1>1, <1>2, <1>3, <1>4, <1>5, <1>6

\* No step posts a completion of anything but the next request.
LEMMA CqeStep ==
    ASSUME RingInv, LifeInv, RequestInv, LengthInv, CqeInv, [Next]_vars,
           ShortRequests
    PROVE  CqeInv'
  <1>1. CASE ~PostCqe
    BY <1>1, OnlyPostCqe DEF CqeInv
  <1>2. CASE PostCqe
    <2>1. CASE cqes' = cqes
      <3>1. \A i \in 1..Done : i \in 1..Done' /\ accepted' = accepted
        BY <1>2, PostsOldest, RingHolds
      <3> QED BY <2>1, <3>1 DEF CqeInv
    <2>2. CASE Len(cqes) - npolled < CqeRoom
      <3>1. ASSUME NEW k \in 1..Len(cqes) PROVE cqes'[k].wr_id < Cqe.wr_id
        <4>1. PICK i \in 1..Done : accepted[i].wr_id = cqes[k].wr_id
          BY <1>2, <3>1, PostsOldest DEF CqeInv
        <4>2. i \in DOMAIN accepted /\ i < Done + 1
          BY DoneFacts
        <4>3. accepted[i].wr_id < accepted[Done + 1].wr_id
          BY <1>2, <4>2, PostsOldest DEF RequestInv
        <4> QED BY <1>2, <2>2, <3>1, <4>1, <4>3, PostsOldest
      <3>2. ASSUME NEW k \in DOMAIN cqes'
            PROVE  \E i \in 1..Done' :
                     /\ accepted'[i].wr_id = cqes'[k].wr_id
                     /\ cqes'[k].status = "SUCCESS" => cqes'[k].byte_len = accepted'[i].byte_len
        <4>1. CASE k = Len(cqes) + 1
          <5>1. Done + 1 \in 1..Done'
            BY <1>2, PostsOldest, RingHolds
          <5> QED BY <1>2, <2>2, <4>1, <5>1, PostsOldest
        <4>2. CASE k # Len(cqes) + 1
          <5>1. k \in 1..Len(cqes)
            BY <1>2, <2>2, <4>2, PostsOldest
          <5>2. PICK i \in 1..Done :
                  /\ accepted[i].wr_id = cqes[k].wr_id
                  /\ cqes[k].status = "SUCCESS" => cqes[k].byte_len = accepted[i].byte_len
            BY <1>2, <5>1, PostsOldest DEF CqeInv
          <5>3. i \in 1..Done'
            BY <1>2, PostsOldest, RingHolds
          <5> QED BY <1>2, <2>2, <5>1, <5>2, <5>3, PostsOldest
        <4> QED BY <4>1, <4>2
      <3>3. ASSUME NEW j \in DOMAIN cqes', NEW k \in DOMAIN cqes', j < k
            PROVE  cqes'[j].wr_id < cqes'[k].wr_id
        <4>1. j \in 1..Len(cqes)
          BY <1>2, <2>2, <3>3, PostsOldest
        <4>2. CASE k = Len(cqes) + 1
          BY <1>2, <2>2, <3>1, <4>1, <4>2, PostsOldest
        <4>3. CASE k # Len(cqes) + 1
          <5>1. k \in 1..Len(cqes)
            BY <1>2, <2>2, <4>3, PostsOldest
          <5> QED BY <1>2, <2>2, <3>3, <4>1, <5>1, PostsOldest DEF CqeInv
        <4> QED BY <4>2, <4>3
      <3> QED BY <3>2, <3>3 DEF CqeInv
    <2> QED BY <1>2, <2>1, <2>2, PostsOldest
  <1> QED BY <1>1, <1>2

------------------------------------------------------------------------------
(* Whether each has one.                                                    *)

\* The lengths and counters the invariant compares.
LEMMA CountFacts ==
    ASSUME RingInv
    PROVE  /\ Len(accepted) \in Nat
           /\ Len(cqes) \in Nat
           /\ npolled \in Nat
           /\ Done \in Nat
           /\ Credits \in Nat
           /\ CqeRoom \in Nat
  BY RingHolds, DoneFacts, WqAssumption DEF TypeOK, HistoryType

\* No step exceeds the credits.
LEMMA CreditStep ==
    ASSUME OnePoster, RingInv, LifeInv, RequestInv, LengthInv, CreditInv, [Next]_vars
    PROVE  CreditInv'
  <1>t. TypeOK
    BY RingHolds
  <1>1. CASE PostCqe
    <2>1. /\ Done' = Done + 1
          /\ UNCHANGED <<accepted, npolled, ppc>>
          /\ Len(cqes') = Len(cqes) \/ Len(cqes') = Len(cqes) + 1
      BY <1>1, PostsOldest DEF PostCqe, consumeFrame, workerFrame, posterVars
    <2> QED BY <2>1, CountFacts DEF CreditInv
  <1>2. CASE ~PostCqe
    <2>1. Done' = Done /\ cqes' = cqes
      BY <1>2, OnlyPostCqe
    <2>2. CASE Quiet
      BY <2>1, <2>2 DEF Quiet, cqVars, CreditInv
    <2>3. CASE WorkStep
      BY <2>1, <2>3
      DEF WorkStep, ScanTake, OpStopped, SendMsg, ReceiveMsg, PostCqe, Retire, consumeFrame,
          workerFrame, posterVars, CreditInv
    <2>4. CASE PollCq
      BY <2>1, <2>4, CountFacts DEF PollCq, posterVars, CreditInv
    <2>5. ASSUME NEW p \in Posters, PostCheck(p) PROVE CreditInv'
      BY <2>1, <2>5, CountFacts
      DEF PostCheck, MayPost, postFrame, cqVars, CreditInv, OnePoster
    <2>6. ASSUME NEW p \in Posters, FillStatic(p) \/ FillDynamic(p) \/ FillFail(p)
          PROVE  CreditInv'
      BY <1>t, <2>1, <2>6
      DEF FillStatic, FillDynamic, FillFail, postFrame, cqVars, CreditInv, TypeOK, PosterType,
          Posting
    <2>7. ASSUME NEW p \in Posters, Publish(p) PROVE CreditInv'
      <3>1. /\ ppc[p] \in Posting
            /\ ppc'[p] \notin Posting
            /\ npolled' = npolled
            /\ \A q \in Posters : q = p
        BY <1>t, <2>7
        DEF Publish, Posting, postFrame, cqVars, TypeOK, PosterType, OnePoster
      <3>2. Len(accepted') = Len(accepted) + 1
        BY <2>7, RingGrows
      <3> QED BY <2>1, <3>1, <3>2, CountFacts DEF CreditInv
    <2> QED BY <1>t, <2>2, <2>3, <2>4, <2>5, <2>6, <2>7, StepKinds DEF PostStep
  <1> QED BY <1>1, <1>2

\* With credits for no more completions than there is room for, none is lost.
LEMMA AllStep ==
    ASSUME RingInv, LifeInv, RequestInv, LengthInv, CreditInv, AllInv, [Next]_vars
    PROVE  AllInv'
  <1> SUFFICES ASSUME Credits <= CqeRoom
               PROVE  /\ Len(cqes') = Done'
                      /\ \A i \in 1..Done' : cqes'[i].wr_id = accepted'[i].wr_id
    BY DEF AllInv
  <1>1. CASE PostCqe
    <2>1. Done < Len(accepted)
      BY <1>1, PostsOldest, DoneFacts
    <2>2. Len(cqes) - npolled < CqeRoom
      BY <2>1, CountFacts DEF AllInv, CreditInv
    <2>3. Len(cqes) = Done /\ Done' = Done + 1
      BY <1>1, PostsOldest DEF AllInv
    <2>4. ASSUME NEW i \in 1..Done' PROVE cqes'[i].wr_id = accepted'[i].wr_id
      <3>1. CASE i = Done + 1
        BY <1>1, <2>2, <2>3, <3>1, PostsOldest
      <3>2. CASE i # Done + 1
        <4>1. i \in 1..Done
          BY <2>3, <3>2, CountFacts
        <4> QED BY <1>1, <2>2, <2>3, <4>1, PostsOldest DEF AllInv
      <3> QED BY <3>1, <3>2
    <2> QED BY <1>1, <2>2, <2>3, <2>4, PostsOldest
  <1>2. CASE ~PostCqe
    BY <1>2, OnlyPostCqe DEF AllInv
  <1> QED BY <1>1, <1>2

------------------------------------------------------------------------------
(* Their page maps.                                                         *)

\* With one posting thread, the slots in use are those of the requests in the
\* ring and, before the store to head, the one at head.
LEMMA MappedFacts ==
    ASSUME OnePoster, RingInv
    PROVE  /\ \A p \in Posters :
                MappedSlots = {Slot(i) : i \in 1..Outstanding}
                                \cup (IF ppc[p] = "publish" THEN {head} ELSE {})
           /\ \A s \in MappedSlots : s \in Slots
           /\ \A i \in 1..Outstanding : Slot(i) \in MappedSlots
  <1>1. \A p, q \in Posters : p = q
    BY DEF OnePoster
  <1>2. \A p \in Posters : ppc[p] = "publish" => phead[p] = head
    BY RingHolds DEF Posting
  <1>3. MappedSlots = {Slot(i) : i \in 1..Outstanding}
                        \cup {phead[p] : p \in {q \in Posters : ppc[q] = "publish"}}
    BY DEF MappedSlots, Slot
  <1> QED BY <1>1, <1>2, <1>3, RingHolds, SlotFacts

\* The slots in use stay so while the indices do and nobody starts or ends
\* publishing.
LEMMA MappedStays ==
    ASSUME UNCHANGED <<head, tail>>,
           \A p \in Posters : ppc'[p] = "publish" <=> ppc[p] = "publish",
           \A p \in Posters : ppc[p] = "publish" => phead'[p] = phead[p]
    PROVE  MappedSlots' = MappedSlots
  <1>1. {phead'[p] : p \in {q \in Posters : ppc'[q] = "publish"}}
          = {phead[p] : p \in {q \in Posters : ppc[q] = "publish"}}
    OBVIOUS
  <1> QED BY <1>1 DEF MappedSlots, Outstanding

\* A step that leaves the slots in use alone, with what is in them.
LEMMA MapFrame ==
    ASSUME MapInv, MappedSlots' = MappedSlots, heap' = heap,
           \A s \in MappedSlots : buf'[s].page_map_dynamic = buf[s].page_map_dynamic
    PROVE  MapInv'
  <1>1. {buf'[s].page_map_dynamic : s \in MappedSlots} =
          {buf[s].page_map_dynamic : s \in MappedSlots}
    OBVIOUS
  <1>2. heap' \subseteq {buf'[s].page_map_dynamic : s \in MappedSlots'}
    BY <1>1 DEF MapInv
  <1>3. ASSUME Larges = {TRUE}
        PROVE  /\ heap' = {buf'[s].page_map_dynamic : s \in MappedSlots'}
               /\ \A s, t \in MappedSlots' :
                    buf'[s].page_map_dynamic = buf'[t].page_map_dynamic => s = t
    BY <1>1, <1>3 DEF MapInv
  <1> QED BY <1>2, <1>3 DEF MapInv

\* No step leaks a page map or frees one that is in use.
LEMMA MapStep ==
    ASSUME OnePoster, RingInv, RingInv', LifeInv, MapInv, [Next]_vars
    PROVE  MapInv'
  <1>o. \A p, q \in Posters : p = q
    BY DEF OnePoster
  <1>t. TypeOK /\ TypeOK'
    BY RingHolds DEF RingInv
  <1>b. buf \in [Slots -> Wqes] /\ head \in Slots /\ tail \in Slots
    BY <1>t DEF TypeOK, RingType
  <1>m. \A s \in MappedSlots : s \in Slots
    BY MappedFacts
  <1>1. CASE Quiet
    BY <1>1, MappedStays, MapFrame DEF Quiet, ring, Posting
  <1>2. CASE PollCq
    BY <1>2, MappedStays, MapFrame DEF PollCq, ring, posterVars
  <1>3. CASE ScanTake \/ OpStopped \/ SendMsg \/ PostCqe
    <2>1. UNCHANGED <<head, tail, buf, ppc, phead, heap>>
      BY <1>3
      DEF ScanTake, OpStopped, SendMsg, PostCqe, consumeFrame, workerFrame, posterVars
    <2> QED BY <2>1, MappedStays, MapFrame
  <1>4. CASE ReceiveMsg
    <2>1. UNCHANGED <<head, tail, ppc, phead, heap>>
      BY <1>4 DEF ReceiveMsg, consumeFrame, workerFrame, posterVars
    <2>2. \A s \in Slots : buf'[s].page_map_dynamic = buf[s].page_map_dynamic
      BY <1>4, <1>b DEF ReceiveMsg, Wqes
    <2> QED BY <1>m, <2>1, <2>2, MappedStays, MapFrame
  <1>5. ASSUME NEW p \in Posters, PostCheck(p) PROVE MapInv'
    <2>1. UNCHANGED <<head, tail, buf, heap>> /\ ppc[p] = "idle" /\ ppc'[p] = "fill"
      BY <1>5, <1>t DEF PostCheck, postFrame, TypeOK, PosterType
    <2> QED BY <1>o, <2>1, MappedStays, MapFrame
  <1>6. ASSUME NEW p \in Posters, FillStatic(p) PROVE MapInv'
    <2>1. Larges # {TRUE} /\ heap' = heap
      BY <1>6 DEF FillStatic
    <2>2. /\ ppc[p] = "fill"
          /\ ppc'[p] = "publish"
          /\ UNCHANGED <<head, tail, phead>>
      BY <1>6, <1>t DEF FillStatic, postFrame, TypeOK, PosterType
    <2>3. \A s \in Slots : buf'[s].page_map_dynamic = buf[s].page_map_dynamic
      BY <1>6, <1>b DEF FillStatic, Wqes
    <2>4. MappedSlots \subseteq MappedSlots'
      <3>1. MappedSlots = {Slot(i) : i \in 1..Outstanding}
        BY <2>2, MappedFacts
      <3> QED BY <2>2, <3>1 DEF MappedSlots, Slot, Outstanding
    <2>5. \A s \in MappedSlots :
            buf[s].page_map_dynamic \in {buf'[t].page_map_dynamic : t \in MappedSlots'}
      BY <1>m, <2>3, <2>4
    <2> QED BY <2>1, <2>5 DEF MapInv
  <1>7. ASSUME NEW p \in Posters, FillDynamic(p) PROVE MapInv'
    <2>2. /\ phead[p] = head
          /\ ppc[p] = "fill"
          /\ ppc'[p] = "publish"
          /\ UNCHANGED <<head, tail, phead>>
      BY <1>7, <1>t, RingHolds DEF FillDynamic, Posting, postFrame, TypeOK, PosterType
    <2>3. PICK map \in Addrs \ heap :
            /\ buf' = [buf EXCEPT ![head] =
                         [wr_id |-> pwr[p].wr_id, byte_len |-> pwr[p].byte_len,
                          page_map_dynamic |-> map, iov |-> "dynamic"]]
            /\ heap' = heap \cup {map}
      BY <1>7, <2>2 DEF FillDynamic
    <2>4. MappedSlots' = MappedSlots \cup {head} /\ head \notin MappedSlots
      <3>1. {phead'[q] : q \in {r \in Posters : ppc'[r] = "publish"}} = {head}
        BY <1>o, <2>2
      <3>2. MappedSlots = {Slot(i) : i \in 1..Outstanding}
        BY <2>2, MappedFacts
      <3>3. MappedSlots' = {Slot(i) : i \in 1..Outstanding} \cup {head}
        BY <2>2, <3>1 DEF MappedSlots, Slot, Outstanding
      <3> QED BY <1>t, <3>2, <3>3, SlotFacts
    <2>5. /\ \A s \in MappedSlots : buf'[s] = buf[s]
          /\ buf'[head].page_map_dynamic = map
      BY <1>b, <1>m, <2>3, <2>4
    <2>6. {buf'[s].page_map_dynamic : s \in MappedSlots'}
            = {buf[s].page_map_dynamic : s \in MappedSlots} \cup {map}
      BY <2>4, <2>5
    <2>7. heap' \subseteq {buf'[s].page_map_dynamic : s \in MappedSlots'}
      BY <2>3, <2>6 DEF MapInv
    <2>8. ASSUME Larges = {TRUE}
          PROVE  /\ heap' = {buf'[s].page_map_dynamic : s \in MappedSlots'}
                 /\ \A s, t \in MappedSlots' :
                      buf'[s].page_map_dynamic = buf'[t].page_map_dynamic => s = t
      <3>1. heap = {buf[s].page_map_dynamic : s \in MappedSlots}
        BY <2>8 DEF MapInv
      <3>2. \A s \in MappedSlots : buf[s].page_map_dynamic # map
        BY <2>3, <3>1
      <3> QED BY <2>3, <2>4, <2>5, <2>6, <2>8, <3>1, <3>2 DEF MapInv
    <2> QED BY <2>7, <2>8 DEF MapInv
  <1>8. ASSUME NEW p \in Posters, FillFail(p) PROVE MapInv'
    <2>1. /\ phead[p] = head
          /\ ppc[p] = "fill"
          /\ ppc'[p] = "idle"
          /\ UNCHANGED <<head, tail, phead, heap>>
      BY <1>8, <1>t, RingHolds DEF FillFail, Posting, postFrame, TypeOK, PosterType
    <2>2. head \notin MappedSlots
      BY <1>t, <2>1, MappedFacts, SlotFacts
    <2>3. \A s \in Slots : s # head => buf'[s] = buf[s]
      BY <1>8, <1>b, <2>1 DEF FillFail
    <2> QED BY <1>m, <1>o, <2>1, <2>2, <2>3, MappedStays, MapFrame
  <1>9. ASSUME NEW p \in Posters, Publish(p) PROVE MapInv'
    <2>1. /\ ppc[p] = "publish"
          /\ ppc'[p] = "notify"
          /\ UNCHANGED <<phead, buf, heap>>
      BY <1>9, <1>t DEF Publish, TypeOK, PosterType
    <2>2. MappedSlots' = MappedSlots
      <3>1. {phead'[q] : q \in {r \in Posters : ppc'[r] = "publish"}} = {}
        BY <1>o, <2>1
      <3>2. MappedSlots' = {Slot(i) : i \in 1..Outstanding + 1}
        BY <1>9, <3>1, RingGrows DEF MappedSlots, Slot
      <3>3. MappedSlots = {Slot(i) : i \in 1..Outstanding} \cup {head}
        BY <2>1, MappedFacts
      <3>4. Outstanding \in Nat /\ Slot(Outstanding + 1) = head
        BY <1>t, RingHolds, SlotFacts
      <3>5. 1..Outstanding + 1 = 1..Outstanding \cup {Outstanding + 1}
        BY <3>4
      <3> QED BY <3>2, <3>3, <3>4, <3>5
    <2> QED BY <2>1, <2>2, MapFrame
  <1>10. CASE Retire
    <2>1. /\ heap' = heap \ {buf[tail].page_map_dynamic}
          /\ UNCHANGED <<head, buf, ppc, phead>>
      BY <1>10 DEF Retire, Wqe, consumeFrame, workerFrame, posterVars
    <2>2. MappedSlots' = MappedSlots \ {tail} /\ tail \in MappedSlots
      <3> DEFINE P == {phead[q] : q \in {r \in Posters : ppc[r] = "publish"}}
      <3>1. MappedSlots' = {Slot(i + 1) : i \in 1..Outstanding - 1} \cup P
        BY <1>10, <2>1, RingShrinks DEF MappedSlots, Slot
      <3>2. MappedSlots = {Slot(i) : i \in 1..Outstanding} \cup P
        BY DEF MappedSlots, Slot
      <3>3. Outstanding \in Nat /\ Outstanding >= 1
        BY <1>10, RingShrinks, RingHolds
      <3>4. {Slot(i + 1) : i \in 1..Outstanding - 1} = {Slot(i) : i \in 1..Outstanding} \ {Slot(1)}
        <4>1. \A i \in 1..Outstanding - 1 : i + 1 \in 1..Outstanding /\ i + 1 # 1
          BY <3>3
        <4>2. \A i \in 1..Outstanding : i # 1 => i - 1 \in 1..Outstanding - 1 /\ (i - 1) + 1 = i
          BY <3>3
        <4>3. 1 \in 1..Outstanding
          BY <3>3
        <4>4. \A i, j \in 1..Outstanding : Slot(i) = Slot(j) => i = j
          BY <1>t, SlotFacts
        <4> QED BY <4>1, <4>2, <4>3, <4>4
      <3>5. tail \notin P
        <4>1. tail # head
          BY <1>t, <3>3, SlotFacts
        <4> QED BY <4>1, RingHolds DEF Posting
      <3>6. tail = Slot(1) /\ 1 \in 1..Outstanding
        BY <1>t, <3>3, SlotFacts
      <3> QED BY <3>1, <3>2, <3>4, <3>5, <3>6
    <2> DEFINE old == {buf[s].page_map_dynamic : s \in MappedSlots}
               new == {buf[s].page_map_dynamic : s \in MappedSlots \ {tail}}
    <2>3. new = {buf'[s].page_map_dynamic : s \in MappedSlots'}
      BY <2>1, <2>2
    <2>4. old = new \cup {buf[tail].page_map_dynamic}
      BY <2>2
    <2>5. heap' \subseteq new
      <3>1. heap \subseteq old
        BY DEF MapInv
      <3> QED BY <2>1, <2>4, <3>1
    <2>6. ASSUME Larges = {TRUE}
          PROVE  /\ heap' = new
                 /\ \A s, t \in MappedSlots' :
                      buf'[s].page_map_dynamic = buf'[t].page_map_dynamic => s = t
      <3>1. heap = old
        BY <2>6 DEF MapInv
      <3>2. \A s, t \in MappedSlots :
              buf[s].page_map_dynamic = buf[t].page_map_dynamic => s = t
        BY <2>6 DEF MapInv
      <3>3. buf[tail].page_map_dynamic \notin new
        BY <2>2, <3>2
      <3> HIDE DEF new, old
      <3>4. heap' = new
        BY <2>1, <2>4, <3>1, <3>3
      <3> QED BY <2>1, <2>2, <3>2, <3>4
    <2> HIDE DEF new, old
    <2>7. heap' \subseteq {buf'[s].page_map_dynamic : s \in MappedSlots'}
      BY <2>3, <2>5
    <2>8. Larges = {TRUE} => heap' = {buf'[s].page_map_dynamic : s \in MappedSlots'}
      BY <2>3, <2>6
    <2> QED BY <2>6, <2>7, <2>8 DEF MapInv
  <1> QED
    BY <1>1, <1>2, <1>3, <1>4, <1>5, <1>6, <1>7, <1>8, <1>9, <1>10, StepKinds, RingHolds
    DEF PostStep, WorkStep

------------------------------------------------------------------------------
(* The theorems.                                                            *)

FlowInv ==
  RingInv /\ LifeInv /\ RequestInv /\ LengthInv /\ CreditInv /\ AllInv /\ MapInv

\* dis_create_qp establishes the invariant.
LEMMA FlowInit == Init => FlowInv /\ CqeInv
  <1> SUFFICES ASSUME Init PROVE FlowInv /\ CqeInv
    OBVIOUS
  <1>1. TypeOK /\ LifeInv
    BY TypeInit, LifeInit
  <1>2. Outstanding = 0
    BY <1>1, RingFacts, CircCntCases DEF Init, Outstanding
  <1>3. RingInv
    BY <1>1, <1>2 DEF Init, RingInv, PostInv, BusyInv, RingHoldsRequests
  <1>4. RequestInv
    BY WqAssumption DEF Init, RequestInv, Posting
  <1>5. LengthInv
    BY <1>2 DEF Init, LengthInv
  <1>6. CreditInv /\ AllInv /\ CqeInv
    BY WqAssumption DEF Init, CreditInv, AllInv, CqeInv, Done, Posting
  <1>7. MapInv
    <2>1. MappedSlots = {}
      BY <1>2 DEF Init, MappedSlots
    <2> QED BY <2>1 DEF Init, MapInv
  <1> QED BY <1>1, <1>3, <1>4, <1>5, <1>6, <1>7 DEF FlowInv

\* With one posting thread, no step breaks it.
LEMMA FlowStep == OnePoster /\ FlowInv /\ [Next]_vars => FlowInv'
  <1> SUFFICES ASSUME OnePoster, FlowInv, [Next]_vars PROVE FlowInv'
    OBVIOUS
  <1>1. RingInv'
    BY RingStep DEF FlowInv, OnePoster
  <1>2. LifeInv'
    BY LifeStep DEF FlowInv, RingInv
  <1>3. RequestInv' /\ LengthInv' /\ CreditInv' /\ AllInv' /\ MapInv'
    BY <1>1, RequestStep, LengthStep, CreditStep, AllStep, MapStep DEF FlowInv
  <1> QED BY <1>1, <1>2, <1>3 DEF FlowInv

\* With one posting thread, a request is refused for want of room only while
\* WqeMax - 2 or more are accepted and their completions not polled, for every
\* ring size: dis_qp_post_one_* never sees a full ring for another reason.
THEOREM RefusedOnlyWhenFull == ASSUME OnePoster PROVE Spec => []FullMeansOutstanding
  <1>1. FlowInv => FullMeansOutstanding
    <2> SUFFICES ASSUME FlowInv, CircSpace(head, tail, WqeMax) < 1
                 PROVE  Len(accepted) - npolled >= WqeMax - 2
      BY DEF FullMeansOutstanding
    <2>1. RingInv /\ TypeOK
      BY DEF FlowInv, RingInv
    <2>2. Outstanding = WqeMax - 1 /\ WqeMax \in Nat
      BY <2>1, RingFacts
    <2>3. Len(accepted) = retired + Outstanding /\ retired \in Nat
      BY <2>1, RingHolds
    <2>4. npolled <= retired + 1 /\ npolled \in Nat
      BY <2>1, <2>3, CountFacts DEF FlowInv, CreditInv, Done
    <2> QED BY <2>2, <2>3, <2>4
  <1> QED BY <1>1, FlowInit, FlowStep, PTL DEF Spec

\* With one posting thread that stays within the room of its completion queue,
\* every retired request has its completion, at its place: the ones
\* dis_wq_post_*_cqe drops are those of applications that post too far ahead.
THEOREM NoCompletionLost == ASSUME OnePoster PROVE Spec => []EachCompleted
  <1>1. FlowInv => EachCompleted
    <2> SUFFICES ASSUME FlowInv, Credits <= CqeRoom
                 PROVE  /\ Len(cqes) >= retired
                        /\ \A i \in 1..retired : cqes[i].wr_id = accepted[i].wr_id
      BY DEF EachCompleted
    <2>1. Len(cqes) = Done /\ \A i \in 1..Done : cqes[i].wr_id = accepted[i].wr_id
      BY DEF FlowInv, AllInv
    <2>2. retired \in Nat /\ Done >= retired
      BY RingHolds DEF FlowInv, Done
    <2>3. \A i \in 1..retired : i \in 1..Done
      BY <2>2 DEF Done
    <2> QED BY <2>1, <2>2, <2>3
  <1> QED BY <1>1, FlowInit, FlowStep, PTL DEF Spec

\* With one posting thread and messages whose length fits the u16 of a
\* completion, completions come in the order of the requests, at most one for
\* each, and a successful one has the length of its request, however many
\* parts dis_wq_consume_one_rqe received it in.
THEOREM CompletionsInOrder ==
    ASSUME OnePoster, ShortRequests
    PROVE  Spec => []CompletionsMatch
  <1>1. FlowInv /\ CqeInv => CompletionsMatch
    <2> SUFFICES ASSUME FlowInv, CqeInv PROVE CompletionsMatch
      OBVIOUS
    <2>1. \A i \in 1..Done : i \in DOMAIN accepted
      BY DoneFacts DEF FlowInv
    <2> QED BY <2>1 DEF CqeInv, CompletionsMatch
  <1>2. FlowInv /\ CqeInv /\ [Next]_vars => CqeInv'
    BY CqeStep DEF FlowInv
  <1> QED BY <1>1, <1>2, FlowInit, FlowStep, PTL DEF Spec

\* With one posting thread whose requests all bring a page map, the maps on the
\* heap are, until dis_destroy_qp frees the ring, those of the requests in
\* flight, each with its own: none is freed while the library may read it and
\* none is left when its request is retired.
THEOREM MapsFollowRequests == ASSUME OnePoster PROVE Spec => []MapsLive
  <1>1. FlowInv => MapsLive
    BY DEF FlowInv, MapInv, MapsLive
  <1> QED BY <1>1, FlowInit, FlowStep, PTL DEF Spec

\* With one posting thread, whatever its requests bring, dis_destroy_qp leaves
\* no page map behind if the worker has retired every accepted request.
THEOREM MapsEndWithRequests == ASSUME OnePoster PROVE Spec => []DrainedLeavesNoMaps
  <1>1. FlowInv => DrainedLeavesNoMaps
    <2> SUFFICES ASSUME FlowInv, ctl = "freed", retired = Len(accepted) PROVE heap = {}
      BY DEF DrainedLeavesNoMaps
    <2>1. RingInv /\ LifeInv /\ MapInv
      BY DEF FlowInv
    <2>2. Outstanding = 0
      BY <2>1, RingHolds
    <2>3. \A p \in Posters : ppc[p] = "idle"
      BY <2>1 DEF LifeInv, CallInv
    <2>4. MappedSlots = {}
      BY <2>2, <2>3 DEF MappedSlots
    <2> QED BY <2>1, <2>4 DEF MapInv
  <1> QED BY <1>1, FlowInit, FlowStep, PTL DEF Spec

------------------------------------------------------------------------------
(* What an application is promised.                                         *)

Pending == SubSeq(accepted, Done + 1, Len(accepted))
Failed == wc_status # "SUCCESS" /\ pc # "post_cqe"

\* The sequence of pending requests, element by element.
LEMMA PendingSeq ==
    ASSUME NEW S, NEW s \in Seq(S), NEW n \in 0..Len(s)
    PROVE  /\ SubSeq(s, n + 1, Len(s)) \in Seq(S)
           /\ Len(SubSeq(s, n + 1, Len(s))) = Len(s) - n
           /\ \A i \in 1..Len(s) - n : SubSeq(s, n + 1, Len(s))[i] = s[n + i]
  <1>1. Len(s) \in Nat /\ n + 1 \in Int /\ Len(s) \in Int
    OBVIOUS
  <1>2. \A i \in n + 1..Len(s) : s[i] \in S
    OBVIOUS
  <1>3. /\ SubSeq(s, n + 1, Len(s)) \in Seq(S)
        /\ Len(SubSeq(s, n + 1, Len(s))) = IF n + 1 <= Len(s) THEN Len(s) - (n + 1) + 1 ELSE 0
        /\ \A i \in 1..Len(s) - (n + 1) + 1 :
             SubSeq(s, n + 1, Len(s))[i] = s[(n + 1) + i - 1]
    BY <1>1, <1>2, SubSeqProperties
  <1>4. \A i \in 1..Len(s) - n : (n + 1) + i - 1 = n + i
    OBVIOUS
  <1> QED BY <1>1, <1>3, <1>4

\* A request accepted is pending behind the others.
LEMMA PendingGrows ==
    ASSUME NEW S, NEW s \in Seq(S), NEW e \in S, NEW n \in 0..Len(s)
    PROVE  SubSeq(Append(s, e), n + 1, Len(Append(s, e))) = Append(SubSeq(s, n + 1, Len(s)), e)
  <1> DEFINE t == Append(s, e)
             a == SubSeq(t, n + 1, Len(t))
             b == SubSeq(s, n + 1, Len(s))
             c == Append(b, e)
  <1>1. /\ t \in Seq(S)
        /\ Len(t) = Len(s) + 1
        /\ Len(s) \in Nat
        /\ \A i \in 1..Len(s) : t[i] = s[i]
        /\ t[Len(s) + 1] = e
    OBVIOUS
  <1>2. n \in 0..Len(t)
    BY <1>1
  <1> HIDE DEF t
  <1>3. a \in Seq(S) /\ Len(a) = Len(s) + 1 - n /\ \A i \in 1..Len(s) + 1 - n : a[i] = t[n + i]
    BY <1>1, <1>2, PendingSeq
  <1>4. b \in Seq(S) /\ Len(b) = Len(s) - n /\ \A i \in 1..Len(s) - n : b[i] = s[n + i]
    BY PendingSeq
  <1> HIDE DEF a, b
  <1>5. /\ c \in Seq(S)
        /\ Len(c) = Len(b) + 1
        /\ \A i \in 1..Len(b) : c[i] = b[i]
        /\ c[Len(b) + 1] = e
    BY <1>4
  <1> HIDE DEF c
  <1>6. Len(a) = Len(c)
    BY <1>1, <1>3, <1>4, <1>5
  <1>7. ASSUME NEW i \in 1..Len(a) PROVE a[i] = c[i]
    <2>1. CASE i = Len(b) + 1
      BY <1>1, <1>3, <1>4, <1>5, <2>1
    <2>2. CASE i # Len(b) + 1
      <3>1. i \in 1..Len(s) - n /\ n + i \in 1..Len(s)
        BY <1>1, <1>3, <1>4, <2>2
      <3> QED BY <1>1, <1>3, <1>4, <1>5, <3>1
    <2> QED BY <2>1, <2>2
  <1> QED BY <1>3, <1>5, <1>6, <1>7, SeqEqual DEF a, b, c, t

\* The oldest pending request, and the rest.
LEMMA PendingShrinks ==
    ASSUME NEW S, NEW s \in Seq(S), NEW n \in Nat, n < Len(s)
    PROVE  /\ SubSeq(s, n + 1, Len(s)) # <<>>
           /\ Head(SubSeq(s, n + 1, Len(s))) = s[n + 1]
           /\ Tail(SubSeq(s, n + 1, Len(s))) = SubSeq(s, (n + 1) + 1, Len(s))
  <1>1. n \in 0..Len(s) /\ Len(s) \in Nat
    OBVIOUS
  <1>2. Len(SubSeq(s, n + 1, Len(s))) = Len(s) - n
    BY <1>1, PendingSeq
  <1>3. Len(s) - n # 0 /\ Len(<<>>) = 0
    BY <1>1
  <1>4. SubSeq(s, n + 1, Len(s)) # <<>>
    BY <1>2, <1>3
  <1>5. n + 1 \in 1..Len(s) /\ Len(s) \in n + 1..Len(s)
    BY <1>1
  <1> QED BY <1>4, <1>5, HeadTailOfSubSeq

\* What one more completion adds to what is reported.
LEMMA ReportedGrows ==
    ASSUME RingInv, cqes' = Append(cqes, Cqe)
    PROVE  Reported' = Append(Reported,
             IF Cqe.status = "SUCCESS" THEN Cqe ELSE [Cqe EXCEPT !.byte_len = 0])
  <1> DEFINE Report(c) == IF c.status = "SUCCESS" THEN c ELSE [c EXCEPT !.byte_len = 0]
  <1>1. cqes \in Seq(Wcs)
    BY RingHolds DEF TypeOK, HistoryType
  <1>2. /\ Len(cqes) \in Nat
        /\ DOMAIN cqes = 1..Len(cqes)
        /\ DOMAIN cqes' = 1..Len(cqes) + 1
        /\ \A k \in 1..Len(cqes) : cqes'[k] = cqes[k]
        /\ cqes'[Len(cqes) + 1] = Cqe
    BY <1>1
  <1>3. Reported = [k \in 1..Len(cqes) |-> Report(cqes[k])]
    BY <1>2 DEF Reported
  <1>4. Reported' = [k \in 1..Len(cqes) + 1 |-> Report(cqes'[k])]
    BY <1>2 DEF Reported
  <1>5. /\ Len(Reported) = Len(cqes)
        /\ Append(Reported, Report(Cqe))
             = [k \in 1..Len(cqes) + 1 |-> IF k = Len(cqes) + 1 THEN Report(Cqe) ELSE Reported[k]]
    BY <1>2, <1>3
  <1>6. \A k \in 1..Len(cqes) + 1 :
          Report(cqes'[k]) = IF k = Len(cqes) + 1 THEN Report(Cqe) ELSE Reported[k]
    <2> HIDE DEF Report
    <2>1. \A k \in 1..Len(cqes) : Reported[k] = Report(cqes[k])
      BY <1>3
    <2>2. \A k \in 1..Len(cqes) + 1 : k # Len(cqes) + 1 => k \in 1..Len(cqes)
      BY <1>2
    <2> QED BY <1>2, <2>1, <2>2
  <1>7. Report(Cqe) = IF Cqe.status = "SUCCESS" THEN Cqe ELSE [Cqe EXCEPT !.byte_len = 0]
    OBVIOUS
  <1> HIDE DEF Report
  <1> QED BY <1>4, <1>5, <1>6, <1>7

\* As many completions are reported as there are.
LEMMA ReportedLength == ASSUME RingInv PROVE Len(Reported) = Len(cqes)
  <1>1. cqes \in Seq(Wcs)
    BY RingHolds DEF TypeOK, HistoryType
  <1>2. DOMAIN cqes = 1..Len(cqes) /\ Len(cqes) \in Nat
    BY <1>1
  <1> QED BY <1>2 DEF Reported

\* A step after which neither the requests nor their completions are others.
LEMMA QueueStutters ==
    ASSUME UNCHANGED <<accepted, Done, cqes, npolled, should_stop, Failed>>
    PROVE  UNCHANGED Queue!vars
  BY DEF Queue!vars, Reported, Failed

\* Only dis_qp_exit tells the worker to stop.
LEMMA OnlyExitStops ==
    ASSUME [Next]_vars, ~QpExitStop
    PROVE  should_stop' = should_stop
  <1>1. CASE (\E p \in Posters : PostCheck(p) \/ PostRest(p)) \/ PollCq
    BY <1>1, PostAndPoll
  <1>2. CASE ThreadNeverRuns \/ ThreadStart \/ InitStopped \/ LoopReset \/ LoopStopped
               \/ ThreadExit \/ ScanStopped \/ ScanEmpty
    BY <1>2 DEF ThreadNeverRuns, ThreadStart, InitStopped, LoopReset, LoopStopped, ThreadExit,
                ScanStopped, ScanEmpty, Goto, threadFrame, workerFrame
  <1>3. CASE ScanTake \/ OpStopped \/ PostCqe \/ Retire \/ SendMsg \/ ReceiveMsg
    BY <1>3 DEF ScanTake, OpStopped, PostCqe, Retire, SendMsg, ReceiveMsg, consumeFrame, workerFrame
  <1>4. CASE WaitFirst \/ WaitQueue \/ WaitCheck \/ WaitAwake \/ InitConnects \/ DrainFlag
    BY <1>4 DEF WaitFirst, WaitQueue, WaitCheck, WaitAwake, InitConnects, DrainFlag, Goto,
                threadFrame, workerFrame
  <1>5. CASE Kill \/ QpInitState \/ QpInitRest \/ QpExit \/ QpExitJoin \/ QpExitSpin
    BY <1>5 DEF Kill, QpInitState, QpInitRest, QpInitFlag, QpInitThread, QpExit, QpExitJoin,
                QpExitSpin
  <1>6. CASE UNCHANGED vars
    BY <1>6 DEF vars, wakeVars
  <1> QED
    BY <1>1, <1>2, <1>3, <1>4, <1>5, <1>6 DEF Next, WorkerLocal, WorkerPeer, QpExitRest

\* A queue pair is created with a queue that promises what it should.
LEMMA QueueInit == Init => Queue!Init
  <1> SUFFICES ASSUME Init PROVE Queue!Init
    OBVIOUS
  <1>1. accepted = <<>> /\ Done = 0 /\ cqes = <<>> /\ Len(accepted) = 0 /\ DOMAIN cqes = {}
    BY DEF Init, Done
  <1>2. SubSeq(accepted, Done + 1, Len(accepted)) = <<>>
    BY <1>1, SubSeqEmpty
  <1>3. Reported = <<>>
    BY <1>1 DEF Reported
  <1> QED BY <1>2, <1>3 DEF Init, Queue!Init

\* The store to head accepts a request.
LEMMA PublishAccepts ==
    ASSUME RingInv, LifeInv, RequestInv, NEW p \in Posters, Publish(p)
    PROVE  pwr[p] \in Wrs /\ Queue!Accept(pwr[p])
  <1>1. /\ ppc[p] = "publish"
        /\ accepted' = Append(accepted, pwr[p])
        /\ UNCHANGED <<pc, retired, cqes, npolled, should_stop, wc_status>>
    BY DEF Publish, postFrame, workerVars, consumeVars, cqVars
  <1>2. pwr[p] \in Wrs /\ pwr[p] \in Requests /\ accepted \in Seq(Requests)
    BY <1>1, RingHolds DEF RequestInv, Posting, TypeOK, PosterType
  <1>3. ~should_stop
    <2>1. ctl \in NotStopping
      BY <1>1, RingHolds DEF LifeInv, CallInv, NotStopping, TypeOK, VerbsType
    <2> QED BY <2>1 DEF LifeInv, CtlInv
  <1>4. Done' = Done /\ Done \in 0..Len(accepted)
    BY <1>1, DoneFacts DEF Done
  <1>5. Pending' = Append(Pending, pwr[p])
    BY <1>1, <1>2, <1>4, PendingGrows DEF Pending
  <1>6. Len(Pending) < WqeMax - 1
    <2>1. Len(Pending) = Len(accepted) - Done
      BY <1>2, <1>4, PendingSeq DEF Pending
    <2>2. CircSpace(head, tail, WqeMax) >= 1
      BY <1>1 DEF RingInv, PostInv
    <2>3. Outstanding <= WqeMax - 2 /\ WqeMax \in Nat
      BY <2>2, RingHolds, RingFacts
    <2>4. Done >= retired /\ Len(accepted) = retired + Outstanding
      BY RingHolds DEF Done
    <2> QED BY <1>4, <2>1, <2>3, <2>4, RingHolds, DoneFacts
  <1> QED
    BY <1>1, <1>2, <1>3, <1>5, <1>6 DEF Queue!Accept, Pending, Reported

\* The store to cqe_circ.head completes the oldest request.
LEMMA PostCqeCompletes ==
    ASSUME RingInv, LifeInv, RequestInv, LengthInv, ErrorInv, ShortRequests, PostCqe
    PROVE  Queue!Succeed \/ Queue!Fail
  <1>1. /\ pc = "post_cqe"
        /\ pc' = "retire"
        /\ UNCHANGED <<npolled, should_stop, wc_status>>
        /\ wc_status \in Statuses
    BY RingHolds
    DEF PostCqe, consumeFrame, workerFrame, consumeVars, TypeOK, WorkerType
  <1>2. /\ Done' = Done + 1
        /\ accepted' = accepted
        /\ accepted \in Seq(Requests)
        /\ Done \in Nat /\ Done < Len(accepted)
    BY PostsOldest, DoneFacts, RingHolds
  <1>3. /\ Pending # <<>>
        /\ Pending' = Tail(Pending)
        /\ Head(Pending) = accepted[Done + 1]
    BY <1>2, PendingShrinks DEF Pending
  <1> DEFINE report == IF Cqe.status = "SUCCESS" THEN Cqe ELSE [Cqe EXCEPT !.byte_len = 0]
  <1>4. Reported' = IF Len(Reported) - npolled < CqeRoom THEN Append(Reported, report) ELSE Reported
    <2>1. Len(Reported) = Len(cqes)
      BY ReportedLength
    <2>2. CASE Len(cqes) - npolled < CqeRoom
      BY <2>1, <2>2, PostsOldest, ReportedGrows
    <2>3. CASE ~(Len(cqes) - npolled < CqeRoom)
      BY <2>1, <2>3, PostsOldest DEF Reported
    <2> QED BY <2>2, <2>3
  <1>5. Cqe.wr_id = Head(Pending).wr_id
    BY <1>3, PostsOldest
  <1>6. CASE wc_status = "SUCCESS"
    <2>1. report = [wr_id |-> Head(Pending).wr_id, status |-> "SUCCESS",
                    byte_len |-> Head(Pending).byte_len]
      BY <1>3, <1>5, <1>6, PostsOldest DEF Cqe
    <2> QED BY <1>1, <1>3, <1>4, <1>6, <2>1 DEF Queue!Succeed, Queue!Complete, Pending
  <1>7. CASE wc_status # "SUCCESS"
    <2>1. wc_status = "RESP_TIMEOUT_ERR" /\ should_stop
      BY <1>1, <1>7 DEF Statuses, ErrorInv
    <2>2. report = [wr_id |-> Head(Pending).wr_id, status |-> "RESP_TIMEOUT_ERR", byte_len |-> 0]
      BY <1>5, <2>1 DEF Cqe
    <2> QED BY <1>1, <1>3, <1>4, <2>1, <2>2 DEF Queue!Fail, Queue!Complete, Pending
  <1> QED BY <1>6, <1>7

\* Every step accepts, completes, polls, stops, or does nothing of the kind.
LEMMA QueueStep ==
    ASSUME RingInv, LifeInv, RequestInv, LengthInv, ErrorInv, ShortRequests, [Next]_vars
    PROVE  [Queue!Next]_(Queue!vars)
  <1>1. ASSUME NEW p \in Posters, Publish(p) PROVE Queue!Next
    BY <1>1, PublishAccepts DEF Queue!Next
  <1>2. CASE PostCqe
    BY <1>2, PostCqeCompletes DEF Queue!Next
  <1>3. CASE QpExitStop
    <2>1. ~should_stop
      BY <1>3 DEF QpExitStop, LifeInv, CtlInv, NotStopping
    <2>2. UNCHANGED <<accepted, Done, cqes, npolled, Failed>> /\ should_stop' = TRUE
      BY <1>3 DEF QpExitStop, ctlFrame, posterVars, consumeVars, cqVars, Done, Failed
    <2>3. Queue!Stop
      BY <2>1, <2>2 DEF Queue!Stop, Reported, Failed
    <2> QED BY <2>3 DEF Queue!Next
  <1>4. CASE PollCq
    <2>1. /\ npolled < Len(cqes)
          /\ npolled' = npolled + 1
          /\ UNCHANGED <<accepted, Done, cqes, should_stop, Failed>>
      BY <1>4 DEF PollCq, workerVars, posterVars, consumeVars, wakeVars, Done, Failed
    <2>2. Queue!Poll
      BY <2>1, ReportedLength DEF Queue!Poll, Reported, Failed
    <2> QED BY <2>2 DEF Queue!Next
  <1>5. CASE ~PostCqe /\ ~QpExitStop /\ ~PollCq /\ \A p \in Posters : ~Publish(p)
    <2>1. Done' = Done /\ cqes' = cqes /\ should_stop' = should_stop
      BY <1>5, OnlyPostCqe, OnlyExitStops
    <2>2. CASE Quiet
      <3>1. UNCHANGED <<accepted, npolled, Failed>>
        BY <2>2 DEF Quiet, consumeVars, cqVars, Failed, Busy
      <3> QED BY <2>1, <3>1, QueueStutters
    <2>3. CASE WorkStep
      <3>1. UNCHANGED <<accepted, npolled>>
        BY <1>5, <2>3
        DEF WorkStep, ScanTake, OpStopped, SendMsg, ReceiveMsg, Retire, consumeFrame,
            workerFrame, posterVars
      <3>2. CASE ScanTake \/ Retire
        <4>1. UNCHANGED Failed
          BY <3>2 DEF ScanTake, Retire, consumeVars, Failed
        <4> QED BY <2>1, <3>1, <4>1, QueueStutters
      <3>3. CASE OpStopped \/ SendMsg \/ ReceiveMsg
        <4>1. pc = "op" /\ wc_status = "SUCCESS"
          BY <3>3 DEF OpStopped, SendMsg, ReceiveMsg, ErrorInv, GivingUp
        <4>2. pc' = "post_cqe" \/ UNCHANGED wc_status
          BY <3>3 DEF OpStopped, SendMsg, ReceiveMsg
        <4>3. UNCHANGED Failed
          BY <4>1, <4>2 DEF Failed
        <4> QED BY <2>1, <3>1, <4>3, QueueStutters
      <3> QED BY <1>5, <2>3, <3>2, <3>3 DEF WorkStep
    <2>4. ASSUME NEW p \in Posters, PostStep(p) PROVE UNCHANGED Queue!vars
      <3>1. UNCHANGED <<accepted, npolled, Failed>>
        BY <1>5, <2>4
        DEF PostStep, PostCheck, FillStatic, FillDynamic, FillFail, postFrame, workerVars,
            consumeVars, cqVars, Failed
      <3> QED BY <2>1, <3>1, QueueStutters
    <2> QED BY <1>5, <2>2, <2>3, <2>4, StepKinds, RingHolds
  <1> QED BY <1>1, <1>2, <1>3, <1>4, <1>5

\* With one posting thread and messages whose length fits the u16 of a
\* completion, the queue is to its application what WorkQueue promises, for
\* every ring size: requests complete in order, one fails only after
\* dis_qp_exit has told the worker to stop and then as the last, and a
\* completion is lost only if the completion queue has no room.
THEOREM WqImplementsWorkQueue ==
    ASSUME OnePoster, ShortRequests
    PROVE  Spec => IsWorkQueue
  <1>1. Init => FlowInv /\ ErrorInv
    <2>1. Init => ErrorInv
      BY DEF Init, ErrorInv, ErrorIsLast, GivingUp
    <2> QED BY <2>1, FlowInit
  <1>2. FlowInv /\ ErrorInv /\ [Next]_vars => FlowInv' /\ ErrorInv'
    BY FlowStep, ErrorStep DEF FlowInv, RingInv
  <1>3. FlowInv /\ ErrorInv /\ [Next]_vars => [Queue!Next]_(Queue!vars)
    BY QueueStep DEF FlowInv
  <1> QED BY <1>1, <1>2, <1>3, QueueInit, PTL DEF Spec, IsWorkQueue, Queue!Spec
==============================================================================
