--------------------------------- MODULE DisCq -------------------------------
(***************************************************************************)
(* A completion queue (struct dis_cq): a circular buffer of completion     *)
(* entries that the worker threads of several work queues fill under       *)
(* cqe_lock (dis_wq_post_sqe_cqe, dis_wq_post_rqe_cqe) and that the        *)
(* consumer empties without a lock (dis_poll_cq).                          *)
(*                                                                         *)
(* One step is one access to state the threads share: taking the lock      *)
(* together with the reads it protects, writing an entry, storing an       *)
(* index.  What an entry carries is abstracted to the work queue it comes  *)
(* from and that queue's running number.                                   *)
(***************************************************************************)
EXTENDS CircBuf, Functions

CONSTANTS
  Wqs,       \* the work queues whose completions go to this queue
  Pollers,   \* the threads that may call dis_poll_cq
  NumWcs,    \* the values of num_wc they pass
  CqeMax,    \* cq->cqe_max, the size of the ring
  MaxCqes,   \* bound: completions each work queue produces
  NoWq       \* the owner of a free cqe_lock

ASSUME CqAssumption ==
  /\ CqeMax \in Nat \ {0}
  /\ CqeMax \in PowersOfTwo
  /\ NoWq \notin Wqs
  /\ NumWcs \subseteq Nat
  /\ MaxCqes \in Nat

VARIABLES
  head,      \* cq->cqe_circ.head
  tail,      \* cq->cqe_circ.tail
  buf,       \* cq->cqe_circ.buf
  cqe_lock,  \* the work queue whose thread holds cq->cqe_lock, or NoWq
  wpc,       \* where each worker thread is in dis_wq_post_*_cqe
  done,      \* how many completions each work queue has produced
  ppc,       \* where each poller is in dis_poll_cq
  ptail,     \* its local tail
  wc_left,   \* num_wc - i: iterations its loop has left
  wc,        \* the entry it has copied to the caller's ib_wc
  polled,    \* history: the completions handed to callers, in order
  dropped    \* history: the completions that found the ring full

wqVars == <<wpc, done, dropped>>
pollVars == <<ppc, ptail, wc_left, wc, polled>>
vars == <<head, tail, buf, cqe_lock, wqVars, pollVars>>

\* The completions the work queues produce, numbered in the order they do.
Cqes == [ibqp : Wqs, wr_id : 1..MaxCqes]
Slots == 0..CqeMax - 1

\* A zeroed entry: the ring comes from kzalloc.
NoCqe == [ibqp |-> NoWq, wr_id |-> 0]

\* The completion work queue w is about to post.
CurrentCqe(w) == [ibqp |-> w, wr_id |-> done[w] + 1]

\* dis_create_cq leaves an empty ring and a free lock.
Init ==
  /\ head = 0
  /\ tail = 0
  /\ buf = [i \in Slots |-> NoCqe]
  /\ cqe_lock = NoWq
  /\ wpc = [w \in Wqs |-> "run"]
  /\ done = [w \in Wqs |-> 0]
  /\ ppc = [p \in Pollers |-> "idle"]
  /\ ptail = [p \in Pollers |-> 0]
  /\ wc_left = [p \in Pollers |-> 0]
  /\ wc = [p \in Pollers |-> NoCqe]
  /\ polled = <<>>
  /\ dropped = <<>>

------------------------------------------------------------------------------
(* dis_wq_post_sqe_cqe and dis_wq_post_rqe_cqe, which are the same code.    *)

\* A worker has finished a work request and calls dis_wq_post_*_cqe.
Complete(w) ==
  /\ wpc[w] = "run"
  /\ done[w] < MaxCqes
  /\ wpc' = [wpc EXCEPT ![w] = "post"]
  /\ UNCHANGED <<head, tail, buf, cqe_lock, done, dropped, pollVars>>

\* Slips: the lock is not waited for; a full ring is not noticed.
PostLockUnlocked(w) ==
  /\ wpc[w] = "post"
  /\ CircSpace(head, tail, CqeMax) >= 1
  /\ cqe_lock' = w
  /\ wpc' = [wpc EXCEPT ![w] = "fill"]
  /\ UNCHANGED <<head, tail, buf, done, dropped, pollVars>>

PostLockUnchecked(w) ==
  /\ wpc[w] = "post"
  /\ cqe_lock = NoWq
  /\ cqe_lock' = w
  /\ wpc' = [wpc EXCEPT ![w] = "fill"]
  /\ UNCHANGED <<head, tail, buf, done, dropped, pollVars>>

\* The lock is taken, head and tail are read and there is room.
PostLock(w) ==
  /\ wpc[w] = "post"
  /\ cqe_lock = NoWq
  /\ CircSpace(head, tail, CqeMax) >= 1
  /\ cqe_lock' = w
  /\ wpc' = [wpc EXCEPT ![w] = "fill"]
  /\ UNCHANGED <<head, tail, buf, done, dropped, pollVars>>

\* Slip: the error path forgets to unlock.
PostFullKeepsLock(w) ==
  /\ wpc[w] = "post"
  /\ cqe_lock = NoWq
  /\ CircSpace(head, tail, CqeMax) < 1
  /\ cqe_lock' = w
  /\ dropped' = Append(dropped, CurrentCqe(w))
  /\ done' = [done EXCEPT ![w] = @ + 1]
  /\ wpc' = [wpc EXCEPT ![w] = "run"]
  /\ UNCHANGED <<head, tail, buf, pollVars>>

\* The lock is taken, the ring is full and the lock is released: the call
\* returns -42, which neither caller looks at.
PostFull(w) ==
  /\ wpc[w] = "post"
  /\ cqe_lock = NoWq
  /\ CircSpace(head, tail, CqeMax) < 1
  /\ dropped' = Append(dropped, CurrentCqe(w))
  /\ done' = [done EXCEPT ![w] = @ + 1]
  /\ wpc' = [wpc EXCEPT ![w] = "run"]
  /\ UNCHANGED <<head, tail, buf, cqe_lock, pollVars>>

\* The entry at head is written.
PostFill(w) ==
  /\ wpc[w] = "fill"
  /\ buf' = [buf EXCEPT ![head] = CurrentCqe(w)]
  /\ wpc' = [wpc EXCEPT ![w] = "publish"]
  /\ UNCHANGED <<head, tail, cqe_lock, done, dropped, pollVars>>

\* Slip: the index is not masked.
PostPublishUnmasked(w) ==
  /\ wpc[w] = "publish"
  /\ head' = head + 1
  /\ cqe_lock' = NoWq
  /\ done' = [done EXCEPT ![w] = @ + 1]
  /\ wpc' = [wpc EXCEPT ![w] = "run"]
  /\ UNCHANGED <<tail, buf, dropped, pollVars>>

\* head is stored with release semantics and the lock is released.
PostPublish(w) ==
  /\ wpc[w] = "publish"
  /\ head' = CircNext(head, CqeMax)
  /\ cqe_lock' = NoWq
  /\ done' = [done EXCEPT ![w] = @ + 1]
  /\ wpc' = [wpc EXCEPT ![w] = "run"]
  /\ UNCHANGED <<tail, buf, dropped, pollVars>>

------------------------------------------------------------------------------
(* dis_poll_cq.                                                             *)

PollCall(p) ==
  /\ ppc[p] = "idle"
  /\ \E n \in NumWcs : wc_left' = [wc_left EXCEPT ![p] = n]
  /\ ppc' = [ppc EXCEPT ![p] = "loop"]
  /\ UNCHANGED <<head, tail, buf, cqe_lock, wqVars, ptail, wc, polled>>

\* Slip: the last entry does not count.
PollLoadOffByOne(p) ==
  /\ ppc[p] = "loop"
  /\ wc_left[p] > 0
  /\ CircCnt(head, tail, CqeMax) > 1
  /\ ptail' = [ptail EXCEPT ![p] = tail]
  /\ ppc' = [ppc EXCEPT ![p] = "read"]
  /\ UNCHANGED <<head, tail, buf, cqe_lock, wqVars, wc_left, wc, polled>>

\* head and tail are read and the ring holds an entry.
PollLoad(p) ==
  /\ ppc[p] = "loop"
  /\ wc_left[p] > 0
  /\ CircCnt(head, tail, CqeMax) >= 1
  /\ ptail' = [ptail EXCEPT ![p] = tail]
  /\ ppc' = [ppc EXCEPT ![p] = "read"]
  /\ UNCHANGED <<head, tail, buf, cqe_lock, wqVars, wc_left, wc, polled>>

\* num_wc entries have been read, or the ring is empty: return wc_count.
PollReturn(p) ==
  /\ ppc[p] = "loop"
  /\ wc_left[p] = 0 \/ CircCnt(head, tail, CqeMax) < 1
  /\ ppc' = [ppc EXCEPT ![p] = "idle"]
  /\ wc_left' = [wc_left EXCEPT ![p] = 0]
  /\ UNCHANGED <<head, tail, buf, cqe_lock, wqVars, ptail, wc, polled>>

\* The entry at the local tail is copied to the caller's work completion.
PollRead(p) ==
  /\ ppc[p] = "read"
  /\ wc' = [wc EXCEPT ![p] = buf[ptail[p]]]
  /\ ppc' = [ppc EXCEPT ![p] = "store"]
  /\ UNCHANGED <<head, tail, buf, cqe_lock, wqVars, ptail, wc_left, polled>>

\* tail is stored with release semantics and the loop goes round.
PollStore(p) ==
  /\ ppc[p] = "store"
  /\ tail' = CircNext(ptail[p], CqeMax)
  /\ polled' = Append(polled, wc[p])
  /\ wc_left' = [wc_left EXCEPT ![p] = @ - 1]
  /\ ppc' = [ppc EXCEPT ![p] = "loop"]
  /\ UNCHANGED <<head, buf, cqe_lock, wqVars, ptail, wc>>

------------------------------------------------------------------------------
Post(w) == PostLock(w) \/ PostFull(w) \/ PostFill(w) \/ PostPublish(w)
Poll(p) == PollCall(p) \/ PollLoad(p) \/ PollReturn(p) \/ PollRead(p) \/ PollStore(p)

Next ==
  \/ \E w \in Wqs : Complete(w) \/ Post(w)
  \/ \E p \in Pollers : Poll(p)

Spec == Init /\ [][Next]_vars

\* The kernel runs a thread that can run, and its queued spin locks are
\* handed over in arrival order, so a thread that keeps waiting for cqe_lock
\* gets it.  The application keeps polling.  Work requests need not complete.
Fairness ==
  /\ \A w \in Wqs : /\ SF_vars(PostLock(w) \/ PostFull(w))
                    /\ WF_vars(PostFill(w) \/ PostPublish(w))
  /\ \A p \in Pollers : WF_vars(Poll(p))

FairSpec == Spec /\ Fairness

------------------------------------------------------------------------------
(* Properties.                                                              *)

\* Every variable stays within its type; both indices stay in the ring.
TypeOK ==
  /\ head \in Slots
  /\ tail \in Slots
  /\ buf \in [Slots -> Cqes \cup {NoCqe}]
  /\ cqe_lock \in Wqs \cup {NoWq}
  /\ wpc \in [Wqs -> {"run", "post", "fill", "publish"}]
  /\ done \in [Wqs -> 0..MaxCqes]
  /\ ppc \in [Pollers -> {"idle", "loop", "read", "store"}]
  /\ ptail \in [Pollers -> Slots]
  /\ wc_left \in [Pollers -> Nat]
  /\ wc \in [Pollers -> Cqes \cup {NoCqe}]
  /\ polled \in Seq(Cqes \cup {NoCqe})
  /\ dropped \in Seq(Cqes)

\* The slot a worker is writing is never the slot a poller is copying from:
\* the lock-free dis_poll_cq and dis_wq_post_*_cqe do not race on an entry.
NoSharedSlot ==
  \A w \in Wqs, p \in Pollers :
    wpc[w] = "fill" /\ ppc[p] = "read" => head # ptail[p]

\* The ring is a first-in first-out queue of CqeMax - 1 entries: dis_poll_cq
\* hands out every posted completion once and in the order of posting, and a
\* completion is dropped only while that many wait to be polled.
Fifo == INSTANCE BoundedFifo WITH
  Entries <- Cqes,
  Capacity <- CqeMax - 1,
  queue <- CircContents(buf, head, tail, CqeMax),
  delivered <- polled,
  lost <- dropped

IsFifo == Fifo!Spec

\* A worker that posts a completion gets out of dis_wq_post_*_cqe, whatever
\* the other workers and the pollers do.
PostReturns == \A w \in Wqs : wpc[w] = "post" ~> wpc[w] = "run"

\* A completion that is in the ring reaches a caller of dis_poll_cq.
Delivered ==
  \A e \in Cqes :
    (\E i \in 1..CircCnt(head, tail, CqeMax) :
        CircContents(buf, head, tail, CqeMax)[i] = e)
      ~> (\E i \in DOMAIN polled : polled[i] = e)
==============================================================================
