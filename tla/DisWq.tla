--------------------------------- MODULE DisWq -------------------------------
(***************************************************************************)
(* One work queue of a queue pair (struct dis_wq) with everything that     *)
(* touches it at run time:                                                 *)
(*   - the threads that post work requests (dis_post_send, dis_post_recv), *)
(*   - the worker thread (dis_wq_thread) that consumes them through the    *)
(*     message queue library and posts completions,                        *)
(*   - the verbs thread that brings the queue up (dis_modify_qp to RTR,    *)
(*     dis_qp_init) and tears it down (dis_destroy_qp, dis_qp_exit),       *)
(*   - the application that polls the completion queue.                    *)
(*                                                                         *)
(* The completion queue is the bounded queue that DisCq implements.  The   *)
(* library's send and receive calls are modelled by how the driver uses    *)
(* them: an attempt fails and changes nothing, or succeeds.  A failed      *)
(* attempt just goes round the caller's loop, a stuttering step, so only   *)
(* the successful attempts are actions.                                    *)
(*                                                                         *)
(* A step is one access to state shared between threads, together with the *)
(* thread-local code around it.                                            *)
(***************************************************************************)
EXTENDS CircBuf, SequencesExt

CONSTANTS
  WqType,    \* wq->wq_type: "DIS_SQ" or "DIS_RQ"
  WqeMax,    \* wq->wqe_max, the size of the ring
  CqeRoom,   \* how many completions fit into the completion queue
  Posters,   \* the threads that may post work requests
  ByteLens,  \* the total lengths of the work requests they post
  Larges,    \* whether a request needs more than DIS_SGE_PER_WQE iovecs
  Addrs,     \* the memory kmalloc hands out for page maps
  NULL,
  Tso,       \* whether the worker's store to wq_flag sits in a store buffer
  Killable,  \* whether a fatal signal may reach the worker thread
  Credits,   \* how many requests may be posted and not yet polled
  MaxPosts   \* bound: work requests handed to the driver

ASSUME WqAssumption ==
  /\ WqType \in {"DIS_SQ", "DIS_RQ"}
  /\ WqeMax \in Nat \ {0}
  /\ WqeMax \in PowersOfTwo
  /\ CqeRoom \in Nat
  /\ ByteLens \subseteq Nat
  /\ Larges \subseteq BOOLEAN
  /\ NULL \notin Addrs
  /\ Tso \in BOOLEAN
  /\ Killable \in BOOLEAN
  /\ Credits \in Nat
  /\ MaxPosts \in Nat

VARIABLES
  \* struct dis_wq
  head, tail, \* wqe_circ.head and wqe_circ.tail
  buf,        \* wqe_circ.buf
  wq_state,   \* enum dis_wq_status
  wq_flag,    \* enum dis_wq_flag, as the other processors see it
  msq,        \* whether sci_msq is created or connected
  \* the worker thread
  pc,         \* where it is
  flag_buf,   \* its store wq_flag = DIS_WQ_EMPTY is still in the store buffer
  woken,      \* a wake-up arrived since it queued itself on wait_queue
  should_stop,\* the KTHREAD_SHOULD_STOP bit
  killed,     \* a fatal signal is pending
  bytes_left, bytes_total, wc_status,  \* locals of dis_wq_consume_one_*
  \* the posting threads
  ppc,        \* where each of them is
  phead, pwr, \* its local head, and the request it is posting
  posts,      \* how many requests have been handed to the driver
  \* the verbs thread
  ctl,        \* where it is in dis_qp_init or dis_qp_exit
  \* memory and completions
  heap,       \* the page maps that are allocated
  cqes,       \* the completions posted so far; the first npolled are polled
  npolled,
  \* histories
  accepted,   \* the requests for which posting succeeded, in order
  retired     \* how many requests the worker has advanced tail past

ring == <<head, tail, buf>>
wakeVars == <<woken, should_stop, killed>>
consumeVars == <<bytes_left, bytes_total, wc_status>>
workerVars == <<pc, flag_buf, consumeVars, msq, retired>>
posterVars == <<ppc, phead, pwr, posts, accepted>>
cqVars == <<cqes, npolled>>
vars == <<ring, wq_state, wq_flag, wakeVars, workerVars, posterVars, ctl, heap, cqVars>>

\* What no posting step and no worker step changes.
postFrame == <<tail, wq_state, should_stop, killed, workerVars, ctl, cqVars>>
workerFrame == <<head, should_stop, killed, posterVars, ctl, npolled>>
\* Of the worker's: what its comings and goings leave alone, and what working
\* off requests leaves alone.
threadFrame == <<workerFrame, tail, buf, consumeVars, retired, heap, cqes>>
consumeFrame == <<workerFrame, wq_state, wq_flag, woken, flag_buf, msq>>

\* The worker gets to the place l and changes nothing.
Goto(l) ==
  pc' = l /\ UNCHANGED <<threadFrame, wq_state, wq_flag, woken, flag_buf, msq>>

Slots == 0..WqeMax - 1

\* A work request, and no work request.
Wrs == [wr_id : 1..MaxPosts, byte_len : ByteLens]
NoWr == [wr_id |-> 0, byte_len |-> 0]

\* A zeroed work queue entry: the ring comes from kzalloc.
NoWqe == [wr_id |-> 0, byte_len |-> 0, page_map_dynamic |-> NULL, iov |-> "static"]

\* The entry the worker is consuming.
Wqe == buf[tail]

------------------------------------------------------------------------------
(* dis_create_qp: an empty ring, nothing else set up (kzalloc).             *)

Init ==
  /\ head = 0
  /\ tail = 0
  /\ buf = [i \in Slots |-> NoWqe]
  /\ wq_state = "UNINITIALIZED"
  /\ wq_flag = "EMPTY"
  /\ msq = "none"
  /\ pc = "none"
  /\ flag_buf = FALSE
  /\ woken = FALSE
  /\ should_stop = FALSE
  /\ killed = FALSE
  /\ bytes_left = 0
  /\ bytes_total = 0
  /\ wc_status = "SUCCESS"
  /\ ppc = [p \in Posters |-> "idle"]
  /\ phead = [p \in Posters |-> 0]
  /\ pwr = [p \in Posters |-> NoWr]
  /\ posts = 0
  /\ ctl = "down"
  /\ heap = {}
  /\ cqes = <<>>
  /\ npolled = 0
  /\ accepted = <<>>
  /\ retired = 0

------------------------------------------------------------------------------
(* Posting: dis_post_send and dis_post_recv call dis_qp_post_one_sqe or     *)
(* dis_qp_post_one_rqe and then dis_qp_notify for each request of a list.   *)
(* A list is a series of single posts, so each request is a call.           *)

\* The application posts while the queue pair exists (it may do so before
\* RTR) and, if it is disciplined, only so far ahead of its polling.
MayPost ==
  /\ ctl \in {"down", "flag", "create", "up"}
  /\ posts < MaxPosts
  /\ Len(accepted) - npolled < Credits

\* Slip: a full ring is not noticed.
PostCheckUnchecked(p) ==
  /\ ppc[p] = "idle"
  /\ MayPost
  /\ phead' = [phead EXCEPT ![p] = head]
  /\ posts' = posts + 1
  /\ \E len \in ByteLens : pwr' = [pwr EXCEPT ![p] = [wr_id |-> posts', byte_len |-> len]]
  /\ ppc' = [ppc EXCEPT ![p] = "fill"]
  /\ UNCHANGED <<postFrame, head, buf, wq_flag, woken, accepted, heap>>

\* head and tail are read and there is room.  Without room the call returns
\* -42 and has changed nothing.
PostCheck(p) ==
  /\ ppc[p] = "idle"
  /\ MayPost
  /\ CircSpace(head, tail, WqeMax) >= 1
  /\ phead' = [phead EXCEPT ![p] = head]
  /\ posts' = posts + 1
  /\ \E len \in ByteLens : pwr' = [pwr EXCEPT ![p] = [wr_id |-> posts', byte_len |-> len]]
  /\ ppc' = [ppc EXCEPT ![p] = "fill"]
  /\ UNCHANGED <<postFrame, head, buf, wq_flag, woken, accepted, heap>>

\* The entry is filled in; few enough iovecs fit the entry itself.  The
\* field page_map_dynamic keeps what an earlier request left there.
FillStatic(p) ==
  /\ ppc[p] = "fill"
  /\ FALSE \in Larges
  /\ buf' = [buf EXCEPT ![phead[p]] =
               [@ EXCEPT !.wr_id = pwr[p].wr_id, !.byte_len = pwr[p].byte_len, !.iov = "static"]]
  /\ ppc' = [ppc EXCEPT ![p] = "publish"]
  /\ UNCHANGED <<postFrame, head, wq_flag, woken, phead, pwr, posts, accepted, heap>>

\* More iovecs go to a page map of their own.
FillDynamic(p) ==
  /\ ppc[p] = "fill"
  /\ TRUE \in Larges
  /\ \E map \in Addrs \ heap :
       /\ buf' = [buf EXCEPT ![phead[p]] =
                    [wr_id |-> pwr[p].wr_id, byte_len |-> pwr[p].byte_len,
                     page_map_dynamic |-> map, iov |-> "dynamic"]]
       /\ heap' = heap \cup {map}
  /\ ppc' = [ppc EXCEPT ![p] = "publish"]
  /\ UNCHANGED <<postFrame, head, wq_flag, woken, phead, pwr, posts, accepted>>

\* No memory region behind the lkey, too many iovecs, or (leaving NULL in
\* page_map_dynamic) no memory: the call returns -42 with the entry at head
\* partly written but not published.
FillFail(p) ==
  /\ ppc[p] = "fill"
  /\ \E map \in {buf[phead[p]].page_map_dynamic} \cup (IF TRUE \in Larges THEN {NULL} ELSE {}) :
       buf' = [buf EXCEPT ![phead[p]] =
                 [@ EXCEPT !.wr_id = pwr[p].wr_id, !.byte_len = 0, !.page_map_dynamic = map]]
  /\ ppc' = [ppc EXCEPT ![p] = "idle"]
  /\ UNCHANGED <<postFrame, head, wq_flag, woken, phead, pwr, posts, accepted, heap>>

\* Slip: the index is not masked.
PublishUnmasked(p) ==
  /\ ppc[p] = "publish"
  /\ head' = phead[p] + 1
  /\ accepted' = Append(accepted, pwr[p])
  /\ ppc' = [ppc EXCEPT ![p] = "notify"]
  /\ UNCHANGED <<postFrame, buf, wq_flag, woken, phead, pwr, posts, heap>>

\* head is stored with release semantics.
Publish(p) ==
  /\ ppc[p] = "publish"
  /\ head' = CircNext(phead[p], WqeMax)
  /\ accepted' = Append(accepted, pwr[p])
  /\ ppc' = [ppc EXCEPT ![p] = "notify"]
  /\ UNCHANGED <<postFrame, buf, wq_flag, woken, phead, pwr, posts, heap>>

\* dis_qp_notify on a queue that is not initialized fails; nobody looks.
NotifyTooEarly(p) ==
  /\ ppc[p] = "notify"
  /\ wq_state = "UNINITIALIZED"
  /\ ppc' = [ppc EXCEPT ![p] = "idle"]
  /\ UNCHANGED <<postFrame, head, buf, wq_flag, woken, phead, pwr, posts, accepted, heap>>

NotifyFlag(p) ==
  /\ ppc[p] = "notify"
  /\ wq_state # "UNINITIALIZED"
  /\ wq_flag' = "POST"
  /\ ppc' = [ppc EXCEPT ![p] = "wake"]
  /\ UNCHANGED <<postFrame, head, buf, woken, phead, pwr, posts, accepted, heap>>

\* wake_up finds the worker if it has queued itself on wait_queue.
NotifyWake(p) ==
  /\ ppc[p] = "wake"
  /\ woken' = (woken \/ pc \in {"check", "sleep"})
  /\ ppc' = [ppc EXCEPT ![p] = "idle"]
  /\ UNCHANGED <<postFrame, head, buf, wq_flag, phead, pwr, posts, accepted, heap>>

------------------------------------------------------------------------------
(* The worker: kthread (the kernel's), dis_wq_thread, dis_wq_init.          *)

\* A new thread that is told to stop before it first runs never calls its
\* function; kthread_stop gets -EINTR.
ThreadNeverRuns ==
  /\ pc = "created"
  /\ should_stop
  /\ Goto("dead")

\* dis_wq_thread begins.
ThreadStart ==
  /\ pc = "created"
  /\ ~should_stop
  /\ wq_state' = "RUNNING"
  /\ pc' = "init"
  /\ UNCHANGED <<threadFrame, wq_flag, woken, flag_buf, msq>>

\* Slip: the thread gives up when the peer is not there.
InitGivesUp ==
  /\ pc = "init"
  /\ ~should_stop
  /\ wq_state' = "EXITED"
  /\ pc' = "dead"
  /\ UNCHANGED <<threadFrame, wq_flag, woken, flag_buf, msq>>

\* dis_wq_init: the message queue is created (receive queue) or the remote
\* one is connected to (send queue) after any number of attempts.
InitConnects ==
  /\ pc = "init"
  /\ ~should_stop
  /\ msq' = "open"
  /\ pc' = "loop"
  /\ UNCHANGED <<threadFrame, wq_state, wq_flag, woken, flag_buf>>

InitStopped ==
  /\ pc = "init"
  /\ should_stop
  /\ wq_state' = "EXITED"
  /\ pc' = "dead"
  /\ UNCHANGED <<threadFrame, wq_flag, woken, flag_buf, msq>>

\* The main loop: wq_flag = DIS_WQ_EMPTY, then dis_wq_consume_all.  On x86
\* the store may still be in the store buffer when the ring is looked at.
LoopReset ==
  /\ pc = "loop"
  /\ ~should_stop
  /\ IF Tso THEN flag_buf' = TRUE /\ UNCHANGED wq_flag
            ELSE wq_flag' = "EMPTY" /\ UNCHANGED flag_buf
  /\ pc' = "scan"
  /\ UNCHANGED <<threadFrame, wq_state, woken, msq>>

\* The store buffer drains: at any time, and before every locked operation.
DrainFlag ==
  /\ flag_buf
  /\ wq_flag' = "EMPTY"
  /\ flag_buf' = FALSE
  /\ UNCHANGED <<threadFrame, wq_state, woken, msq, pc>>

LoopStopped ==
  /\ pc = "loop"
  /\ should_stop
  /\ Goto("exit")

\* dis_wq_exit closes the message queue and the thread ends.
ThreadExit ==
  /\ pc = "exit"
  /\ ~flag_buf
  /\ msq' = "none"
  /\ wq_state' = "EXITED"
  /\ pc' = "dead"
  /\ UNCHANGED <<threadFrame, wq_flag, woken, flag_buf>>

------------------------------------------------------------------------------
(* dis_wq_consume_all, dis_wq_consume_one_rqe and dis_wq_consume_one_sqe.   *)

ScanStopped ==
  /\ pc = "scan"
  /\ should_stop
  /\ Goto("exit")

ScanEmpty ==
  /\ pc = "scan"
  /\ ~should_stop
  /\ CircCnt(head, tail, WqeMax) < 1
  /\ Goto("wait")

\* Slip: the loop over the ring does not look at the stop bit.
ScanTakeIgnoresStop ==
  /\ pc = "scan"
  /\ CircCnt(head, tail, WqeMax) >= 1
  /\ bytes_left' = Wqe.byte_len
  /\ bytes_total' = Wqe.byte_len
  /\ pc' = "op"
  /\ UNCHANGED <<consumeFrame, tail, buf, wc_status, retired, heap, cqes>>

ScanTake ==
  /\ pc = "scan"
  /\ ~should_stop
  /\ CircCnt(head, tail, WqeMax) >= 1
  /\ bytes_left' = Wqe.byte_len
  /\ bytes_total' = Wqe.byte_len
  /\ pc' = "op"
  /\ UNCHANGED <<consumeFrame, tail, buf, wc_status, retired, heap, cqes>>

\* The library takes the whole message.
SendMsg ==
  /\ WqType = "DIS_SQ"
  /\ pc = "op"
  /\ ~should_stop
  /\ wc_status' = "SUCCESS"
  /\ pc' = "post_cqe"
  /\ UNCHANGED <<consumeFrame, tail, buf, bytes_left, bytes_total, retired, heap, cqes>>

\* Slip: the entry keeps the length of the last part.
ReceiveKeepsPart ==
  /\ WqType = "DIS_RQ"
  /\ pc = "op"
  /\ ~should_stop
  /\ \E n \in 0..bytes_left :
       /\ n = 0 => bytes_left = 0
       /\ bytes_left' = bytes_left - n
       /\ buf' = [buf EXCEPT ![tail].byte_len = IF bytes_left' = 0 THEN n ELSE bytes_left']
  /\ IF bytes_left' = 0
     THEN wc_status' = "SUCCESS" /\ pc' = "post_cqe"
     ELSE UNCHANGED <<wc_status, pc>>
  /\ UNCHANGED <<consumeFrame, tail, bytes_total, retired, heap, cqes>>

\* The library delivers some of the bytes asked for and says so in byte_len;
\* the loop goes round for the rest.
ReceiveMsg ==
  /\ WqType = "DIS_RQ"
  /\ pc = "op"
  /\ ~should_stop
  /\ \E n \in 0..bytes_left :
       /\ n = 0 => bytes_left = 0
       /\ bytes_left' = bytes_left - n
  /\ IF bytes_left' = 0
     THEN /\ buf' = [buf EXCEPT ![tail].byte_len = bytes_total]
          /\ wc_status' = "SUCCESS"
          /\ pc' = "post_cqe"
     ELSE /\ buf' = [buf EXCEPT ![tail].byte_len = bytes_left']
          /\ UNCHANGED <<wc_status, pc>>
  /\ UNCHANGED <<consumeFrame, tail, bytes_total, retired, heap, cqes>>

OpStopped ==
  /\ pc = "op"
  /\ should_stop
  /\ wc_status' = "RESP_TIMEOUT_ERR"
  /\ pc' = "post_cqe"
  /\ UNCHANGED <<consumeFrame, tail, buf, bytes_left, bytes_total, retired, heap, cqes>>

\* dis_wq_post_sqe_cqe and dis_wq_post_rqe_cqe, as DisCq shows them to work;
\* byte_len is a u16 there.  A completion that does not fit is lost.
Cqe == [wr_id |-> Wqe.wr_id, status |-> wc_status, byte_len |-> Wqe.byte_len % 65536]

\* Slip: one place fewer is used than the queue has.
PostCqeOffByOne ==
  /\ pc = "post_cqe"
  /\ ~flag_buf
  /\ cqes' = IF Len(cqes) - npolled < CqeRoom - 1 THEN Append(cqes, Cqe) ELSE cqes
  /\ pc' = "retire"
  /\ UNCHANGED <<consumeFrame, tail, buf, consumeVars, retired, heap>>

PostCqe ==
  /\ pc = "post_cqe"
  /\ ~flag_buf
  /\ cqes' = IF Len(cqes) - npolled < CqeRoom THEN Append(cqes, Cqe) ELSE cqes
  /\ pc' = "retire"
  /\ UNCHANGED <<consumeFrame, tail, buf, consumeVars, retired, heap>>

\* Slips: tail is not advanced; the page map is not freed.
RetireKeepsTail ==
  /\ pc = "retire"
  /\ heap' = heap \ {Wqe.page_map_dynamic}
  /\ retired' = retired + 1
  /\ pc' = "scan"
  /\ UNCHANGED <<consumeFrame, tail, buf, consumeVars, cqes>>

RetireLeaks ==
  /\ pc = "retire"
  /\ tail' = CircNext(tail, WqeMax)
  /\ retired' = retired + 1
  /\ pc' = "scan"
  /\ UNCHANGED <<consumeFrame, buf, consumeVars, heap, cqes>>

\* The page map is freed and tail is stored with release semantics.
Retire ==
  /\ pc = "retire"
  /\ heap' = heap \ {Wqe.page_map_dynamic}
  /\ tail' = CircNext(tail, WqeMax)
  /\ retired' = retired + 1
  /\ pc' = "scan"
  /\ UNCHANGED <<consumeFrame, buf, consumeVars, cqes>>

------------------------------------------------------------------------------
(* wait_event_killable(wait_queue, wq_flag != EMPTY || kthread_should_stop) *)

\* Slip: the condition of the wait leaves out kthread_should_stop().
WaitOverFlagOnly == ~flag_buf /\ wq_flag # "EMPTY"

\* The worker sees its own buffered store.
WaitOver == (~flag_buf /\ wq_flag # "EMPTY") \/ should_stop

\* Slip: wq_flag is reset after the scan, not only before it.
WaitFirstResets ==
  /\ pc = "wait"
  /\ wq_flag' = "EMPTY"
  /\ pc' = IF should_stop THEN "loop" ELSE "queue"
  /\ UNCHANGED <<threadFrame, wq_state, woken, flag_buf, msq>>

\* The condition is looked at once before the worker queues itself.
WaitFirst ==
  /\ pc = "wait"
  /\ Goto(IF WaitOver THEN "loop" ELSE "queue")

\* prepare_to_wait_event, under the lock of the wait queue.
WaitQueue ==
  /\ pc = "queue"
  /\ ~flag_buf
  /\ woken' = FALSE
  /\ pc' = "check"
  /\ UNCHANGED <<threadFrame, wq_state, wq_flag, flag_buf, msq>>

\* Slip: the worker goes to sleep without looking again.
WaitCheckSkipped ==
  /\ pc = "check"
  /\ Goto(IF killed THEN "exit" ELSE "sleep")

\* The condition is looked at again; a fatal signal ends the main loop.
WaitCheck ==
  /\ pc = "check"
  /\ Goto(IF WaitOver THEN "loop" ELSE IF killed THEN "exit" ELSE "sleep")

\* schedule() returns.
WaitAwake ==
  /\ pc = "sleep"
  /\ woken
  /\ Goto("queue")

\* The environment: a fatal signal for the worker.
Kill ==
  /\ Killable
  /\ ~killed
  /\ pc \notin {"none", "created", "dead"}
  /\ killed' = TRUE
  /\ woken' = TRUE
  /\ UNCHANGED <<ring, wq_state, wq_flag, should_stop, workerVars, posterVars, ctl, heap,
                 cqVars>>

------------------------------------------------------------------------------
(* The verbs thread: dis_modify_qp to RTR, dis_destroy_qp.  The RDMA core   *)
(* runs one of them at a time, and destroys a queue pair only when its      *)
(* users have returned from their calls.                                    *)

ctlFrame == <<ring, killed, flag_buf, consumeVars, msq, retired, posterVars, heap, cqVars>>

\* dis_qp_init, for the first move to RTR.  The queue pair is moved there once:
\* what dis_modify_qp does on a second move, DisLink shows.
QpInitState ==
  /\ ctl = "down"
  /\ wq_state' = "INITIALIZED"
  /\ ctl' = "flag"
  /\ UNCHANGED <<ctlFrame, wq_flag, woken, should_stop, pc>>

QpInitFlag ==
  /\ ctl = "flag"
  /\ wq_flag' = "EMPTY"
  /\ ctl' = "create"
  /\ UNCHANGED <<ctlFrame, wq_state, woken, should_stop, pc>>

\* kthread_create and wake_up_process.
QpInitThread ==
  /\ ctl = "create"
  /\ pc' = "created"
  /\ ctl' = "up"
  /\ UNCHANGED <<ctlFrame, wq_state, wq_flag, woken, should_stop>>

\* Slip: a thread that was created but has not run yet is overlooked.
QpExitForgetsCreated ==
  /\ ctl \in {"down", "up"}
  /\ \A p \in Posters : ppc[p] = "idle"
  /\ ctl' = IF wq_state # "RUNNING" THEN "freed" ELSE "stop"
  /\ UNCHANGED <<ctlFrame, wq_state, wq_flag, woken, should_stop, pc>>

\* dis_qp_exit: is there a thread to stop?  If not the ring is freed at once.
QpExit ==
  /\ ctl \in {"down", "up"}
  /\ \A p \in Posters : ppc[p] = "idle"
  /\ ctl' = IF wq_state \in {"UNINITIALIZED", "EXITED"} THEN "freed" ELSE "stop"
  /\ UNCHANGED <<ctlFrame, wq_state, wq_flag, woken, should_stop, pc>>

\* kthread_stop sets the bit, wakes the thread and waits for it to end.
QpExitStop ==
  /\ ctl = "stop"
  /\ should_stop' = TRUE
  /\ woken' = TRUE
  /\ ctl' = "join"
  /\ UNCHANGED <<ctlFrame, wq_state, wq_flag, pc>>

QpExitJoin ==
  /\ ctl = "join"
  /\ pc = "dead"
  /\ ctl' = "spin"
  /\ UNCHANGED <<ctlFrame, wq_state, wq_flag, woken, should_stop, pc>>

\* The loop around msleep ends and dis_destroy_qp frees the ring.
QpExitSpin ==
  /\ ctl = "spin"
  /\ wq_state = "EXITED"
  /\ ctl' = "freed"
  /\ UNCHANGED <<ctlFrame, wq_state, wq_flag, woken, should_stop, pc>>

------------------------------------------------------------------------------
\* dis_poll_cq hands out the oldest completion.
PollCq ==
  /\ npolled < Len(cqes)
  /\ npolled' = npolled + 1
  /\ UNCHANGED <<ring, wq_state, wq_flag, wakeVars, workerVars, posterVars, ctl, heap, cqes>>

------------------------------------------------------------------------------
\* The rest of a posting call that has begun.
PostRest(p) ==
  \/ FillStatic(p) \/ FillDynamic(p) \/ FillFail(p) \/ Publish(p)
  \/ NotifyTooEarly(p) \/ NotifyFlag(p) \/ NotifyWake(p)

\* The steps of the worker that do not depend on the peer.
WorkerLocal ==
  \/ ThreadNeverRuns \/ ThreadStart \/ InitStopped \/ LoopReset \/ LoopStopped \/ ThreadExit
  \/ ScanStopped \/ ScanEmpty \/ ScanTake \/ OpStopped \/ PostCqe \/ Retire
  \/ WaitFirst \/ WaitQueue \/ WaitCheck \/ WaitAwake

\* The steps that need the message queue library and the peer.
WorkerPeer == InitConnects \/ SendMsg \/ ReceiveMsg

QpInitRest == QpInitFlag \/ QpInitThread
QpExitRest == QpExitStop \/ QpExitJoin \/ QpExitSpin

Next ==
  \/ \E p \in Posters : PostCheck(p) \/ PostRest(p)
  \/ WorkerLocal
  \/ WorkerPeer
  \/ DrainFlag
  \/ Kill
  \/ QpInitState \/ QpInitRest
  \/ QpExit \/ QpExitRest
  \/ PollCq

Spec == Init /\ [][Next]_vars

\* The kernel runs every thread that can run, and a store buffer drains.
\* Nothing obliges the application to post, to move the queue pair to RTR,
\* to destroy it or to poll, nor the peer to connect, to receive or to send.
Fairness ==
  /\ \A p \in Posters : WF_vars(PostRest(p))
  /\ WF_vars(WorkerLocal)
  /\ WF_vars(DrainFlag)
  /\ WF_vars(QpInitRest)
  /\ WF_vars(QpExitRest)

FairSpec == Spec /\ Fairness

------------------------------------------------------------------------------
(* Properties.                                                              *)

PageMaps == Addrs \cup {NULL}
Wqes == [wr_id : Nat, byte_len : Nat, page_map_dynamic : PageMaps, iov : {"static", "dynamic"}]
Statuses == {"SUCCESS", "RESP_TIMEOUT_ERR"}
Wcs == [wr_id : Nat, status : Statuses, byte_len : Nat]
Requests == [wr_id : Nat, byte_len : Nat]

RingType ==
  /\ head \in Slots
  /\ tail \in Slots
  /\ buf \in [Slots -> Wqes]

WaitType ==
  /\ wq_state \in {"UNINITIALIZED", "INITIALIZED", "RUNNING", "EXITED"}
  /\ wq_flag \in {"EMPTY", "POST"}
  /\ woken \in BOOLEAN
  /\ should_stop \in BOOLEAN
  /\ killed \in BOOLEAN

WorkerType ==
  /\ pc \in {"none", "created", "init", "loop", "scan", "op", "post_cqe", "retire",
             "wait", "queue", "check", "sleep", "exit", "dead"}
  /\ flag_buf \in BOOLEAN
  /\ msq \in {"none", "open"}
  /\ bytes_left \in Nat
  /\ bytes_total \in Nat
  /\ wc_status \in Statuses

PosterType ==
  /\ ppc \in [Posters -> {"idle", "fill", "publish", "notify", "wake"}]
  /\ phead \in [Posters -> Slots]
  /\ pwr \in [Posters -> Requests]
  /\ posts \in Nat

VerbsType ==
  /\ ctl \in {"down", "flag", "create", "up", "stop", "join", "spin", "freed"}
  /\ heap \subseteq Addrs

HistoryType ==
  /\ cqes \in Seq(Wcs)
  /\ npolled \in Nat
  /\ accepted \in Seq(Requests)
  /\ retired \in Nat

\* Every variable stays within its type; both indices stay in the ring.
TypeOK ==
  RingType /\ WaitType /\ WorkerType /\ PosterType /\ VerbsType /\ HistoryType

Outstanding == CircCnt(head, tail, WqeMax)

\* The ring holds exactly the accepted requests that the worker has not
\* retired, in the order dis_post_send or dis_post_recv accepted them: none
\* is overwritten, skipped or taken twice.
RingHoldsRequests ==
  /\ Len(accepted) = retired + Outstanding
  /\ \A i \in 1..Outstanding :
       buf[(tail + i - 1) % WqeMax].wr_id = accepted[retired + i].wr_id

\* Completions come in the order of the requests, at most one for each, and
\* a successful one reports the length of its request however many partial
\* receives it took (dis_wq_consume_one_rqe).
CompletionsMatch ==
  /\ \A k \in DOMAIN cqes : \E i \in DOMAIN accepted :
       /\ accepted[i].wr_id = cqes[k].wr_id
       /\ cqes[k].status = "SUCCESS" => cqes[k].byte_len = accepted[i].byte_len
  /\ \A j, k \in DOMAIN cqes : j < k => cqes[j].wr_id < cqes[k].wr_id

\* A request is given up only because the worker was told to stop, and then
\* its completion is the last: dis_wq_consume_all takes no other request.
ErrorIsLast ==
  \A k \in DOMAIN cqes : cqes[k].status # "SUCCESS" => should_stop /\ k = Len(cqes)

\* An application that posts at most as far ahead of its polling as the
\* completion queue has room finds a completion for every retired request,
\* although dis_wq_post_*_cqe drops what does not fit.
EachCompleted ==
  Credits <= CqeRoom =>
    /\ Len(cqes) >= retired
    /\ \A i \in 1..retired : cqes[i].wr_id = accepted[i].wr_id

\* A post is refused only while WqeMax - 2 requests or more are accepted and
\* their completions not yet polled: one slot of the ring always stays free,
\* and tail lags at most one request behind the completions.
FullMeansOutstanding ==
  CircSpace(head, tail, WqeMax) < 1 => Len(accepted) - npolled >= WqeMax - 2

\* When dis_destroy_qp frees the ring, no worker thread will touch it again,
\* and the message queue is closed.
FreedIsQuiet ==
  ctl = "freed" => pc \in {"none", "dead"} /\ ~flag_buf /\ msq = "none"

\* The thread that dis_qp_exit hands to kthread_stop has not ended by itself,
\* unless a signal made it.
StopsLiveThread == ctl = "stop" /\ ~killed => pc # "dead"

\* The slots whose page map is in use: published and not yet freed, or
\* filled and about to be published.
MappedSlots ==
  {(tail + i - 1) % WqeMax : i \in 1..Outstanding}
    \cup {phead[p] : p \in {q \in Posters : ppc[q] = "publish"}}

\* If every request brings its own page map, then until dis_destroy_qp frees the
\* ring the allocated maps are those of the requests in flight, each with its
\* own: none leaks while the queue exists, none is freed while the library may
\* still read it.
MapsLive ==
  Larges = {TRUE} /\ ctl # "freed" =>
    /\ heap = {buf[s].page_map_dynamic : s \in MappedSlots}
    /\ \A s, t \in MappedSlots :
         buf[s].page_map_dynamic = buf[t].page_map_dynamic => s = t

\* dis_destroy_qp leaves no page map allocated if the worker has retired every
\* accepted request, also where large and small requests have shared the slots.
\* If it has not, their maps leak: the ring is freed, and nobody frees them.
DrainedLeavesNoMaps ==
  ctl = "freed" /\ retired = Len(accepted) => heap = {}

\* The worker frees a page map only if the request it has just completed
\* was stored in that map.
FreesOwnMap ==
  pc = "retire" /\ Wqe.page_map_dynamic # NULL
    => Wqe.iov = "dynamic" /\ Wqe.page_map_dynamic \in heap

\* The worker never sleeps on a ring that holds a request, unless a thread is
\* on its way to wake it: between the reset of wq_flag, the scan and the two
\* looks at the condition no dis_qp_notify is lost.
NoLostWakeup ==
  pc = "sleep" /\ ~woken /\ Outstanding >= 1
    => \E p \in Posters : ppc[p] \in {"notify", "wake"}

\* How many requests have had their completion posted, or lost.
Done == IF pc = "retire" THEN retired + 1 ELSE retired

\* The completions as far as they mean something to the application.
Reported ==
  [k \in DOMAIN cqes |->
     IF cqes[k].status = "SUCCESS" THEN cqes[k] ELSE [cqes[k] EXCEPT !.byte_len = 0]]

\* Posting, consuming, completing and stopping together do what an application
\* is promised of a work queue: the request completes when dis_wq_post_*_cqe
\* stores cqe_circ.head, not before and not again when tail advances.
Queue == INSTANCE WorkQueue WITH
  Requests <- Wrs,
  Capacity <- WqeMax - 1,
  Room <- CqeRoom,
  pending <- SubSeq(accepted, Done + 1, Len(accepted)),
  completions <- Reported,
  polled <- npolled,
  stopped <- should_stop,
  failed <- wc_status # "SUCCESS" /\ pc # "post_cqe"

IsWorkQueue == Queue!Spec

\* Inside its loop the worker is doing one thing or another.
Place == IF pc \in {"none", "created", "init", "dead"} THEN pc ELSE "run"

Life == INSTANCE WorkerLife WITH
  MayDie <- Killable,
  place <- Place,
  told <- should_stop,
  using <- msq = "open",
  exited <- wq_state = "EXITED",
  released <- ctl = "freed"

\* The worker lives as the layers above suppose: dis_qp_init starts it once, it
\* ends only because dis_qp_exit told it to or a signal arrived, its message queue
\* is closed when it says DIS_WQ_EXITED, and dis_qp_exit waits for that.
IsWorker == Life!Spec

\* If the peer is there, an accepted request is worked off, unless the worker
\* is told to stop.
Served ==
  WF_vars(WorkerPeer) =>
    \A i \in 1..MaxPosts :
      (ctl = "up" /\ Len(accepted) >= i) ~> (retired >= i \/ should_stop \/ killed)

\* dis_destroy_qp returns once the worker has begun to run, wherever it is
\* and whether or not the peer is there.
DestroyReturns == (ctl = "join" /\ wq_state = "RUNNING") ~> ctl = "freed"

\* dis_destroy_qp returns whenever it has a thread to stop.
DestroyAlwaysReturns == ctl = "stop" ~> ctl = "freed"
==============================================================================
