--------------------------------- MODULE DisLink -----------------------------
(***************************************************************************)
(* Queue pairs on two nodes.  Each node creates queue pairs, moves them    *)
(* through their states and destroys them (dis_create_qp, dis_modify_qp,   *)
(* dis_destroy_qp).  The worker thread of a receive queue creates a        *)
(* message queue, the worker of a send queue connects to one on the other  *)
(* node (dis_wq_init, dis_sci_if_create_msq, dis_sci_if_connect_msq), and  *)
(* messages go from one to the other.                                      *)
(*                                                                         *)
(* DisWq looks inside one work queue.  Here a worker is only starting,     *)
(* connecting, running or gone, a test of kthread_should_stop and the      *)
(* library call that follows are one step, and receive requests are always *)
(* posted.  A second move to RTR gives each queue a second worker; what    *)
(* two workers of one queue send and receive is not followed closely, only *)
(* how they begin and end.                                                 *)
(*                                                                         *)
(* The library is external: a message queue can be created if its node    *)
(* has none of that number, connected to while it exists, holds MsgMax     *)
(* messages and delivers in order.  A call that fails is made again by the *)
(* worker, a stuttering step.                                              *)
(***************************************************************************)
EXTENDS Integers, Sequences, FiniteSets

CONSTANTS
  Nodes,      \* the two nodes
  Initiators, \* the nodes whose dis_sci_if is loaded with is_initiator=Y
  Pds,        \* the protection domains of each node
  NoWq,       \* no work queue
  QpIni,      \* DIS_QP_INI, the first queue pair number of a domain
  QpMax,      \* DIS_QP_MAX, one more than the last
  MsgMax,     \* DIS_MSG_MAX, how many messages a message queue holds
  QpStates,   \* bound: the states but RTR that applications move queue pairs to
  MaxQps,     \* bound: queue pairs a domain creates, for each node
  MaxLive,    \* bound: queue pairs a domain has at a time
  MaxRtr,     \* bound: moves of a queue pair to RTR
  MaxMsgs     \* bound: messages sent by a queue pair

\* The two nodes have different roles, as the targets req and res of the
\* Makefile load the module.
ASSUME LinkAssumption ==
  /\ Initiators \subseteq Nodes
  /\ \A m, n \in Nodes : m # n => (m \in Initiators <=> n \notin Initiators)
  /\ QpIni \in Nat
  /\ QpMax \in Nat
  /\ QpIni <= QpMax
  /\ MsgMax \in Nat
  /\ QpStates \subseteq {"RESET", "INIT", "RTS"}
  /\ MaxQps \in [Nodes -> Nat]
  /\ MaxLive \in Nat
  /\ MaxRtr \in Nat \ {0}
  /\ MaxMsgs \in Nat

WqTypes == {"DIS_RQ", "DIS_SQ"}
Qps == [node : Nodes, pd : Pds, qpn : QpIni..(QpMax - 1)]
Wqs == [qp : Qps, wq_type : WqTypes]
Rqs == {w \in Wqs : w.wq_type = "DIS_RQ"}
Sqs == {w \in Wqs : w.wq_type = "DIS_SQ"}

ASSUME NoWqAssumption == NoWq \notin Wqs

Rq(q) == [qp |-> q, wq_type |-> "DIS_RQ"]
Sq(q) == [qp |-> q, wq_type |-> "DIS_SQ"]

\* The workers a queue may get, one for each move to RTR.
Workers == 1..MaxRtr

VARIABLES
  qp_c,     \* pd->qp_c of each domain
  state,    \* qp->state, or that the queue pair does not exist
  call,     \* the verb in progress on a queue pair and the queue it is at
  wq_state, \* wq->wq_state
  thread,   \* wq->thread: the worker started last, 0 if none
  pc,       \* where each worker of a queue is
  stop,     \* its KTHREAD_SHOULD_STOP
  open,     \* the receive queues whose message queue exists
  conn,     \* the receive queue a send queue is connected to, or NoWq
  inq,      \* the messages in a receive queue's message queue
  sent,     \* history: how many messages the library took from a send queue
  received  \* history: the messages a receive queue got

verbs == <<qp_c, state, call>>
threads == <<wq_state, thread, pc, stop>>
msqs == <<open, conn, inq, sent, received>>
vars == <<verbs, threads, msqs>>

Idle == <<"idle", "DIS_RQ">>
At(q) == [qp |-> q, wq_type |-> call[q][2]]

(***************************************************************************)
(* The queue numbers.  A queue pair's own number stands for its peer's,    *)
(* too: dis_modify_qp does not use dest_qp_num.                            *)
(***************************************************************************)
\* Slips: the number is not passed on to the work queues; the parity of
\* dis_sci_if_create_msq is used to connect.  Applications set IB_QP_DEST_QPN, which
\* the standard requires for RTR: without it the work queues would keep number 0.
LqpnUnset(w) == 0
Lqpn(w) == w.qp.qpn

CreateId(w) == IF w.qp.node \in Initiators THEN Lqpn(w) * 2 ELSE (Lqpn(w) * 2) + 1

ConnectIdLikeCreate(w) == CreateId(w)
ConnectId(w) == IF w.qp.node \in Initiators THEN (Lqpn(w) * 2) + 1 ELSE Lqpn(w) * 2

Init ==
  /\ qp_c = [nd \in Nodes \X Pds |-> QpIni]
  /\ state = [q \in Qps |-> "none"]
  /\ call = [q \in Qps |-> Idle]
  /\ wq_state = [w \in Wqs |-> "UNINITIALIZED"]
  /\ thread = [w \in Wqs |-> 0]
  /\ pc = [w \in Wqs |-> [k \in Workers |-> "none"]]
  /\ stop = [w \in Wqs |-> [k \in Workers |-> FALSE]]
  /\ open = {}
  /\ conn = [w \in Sqs |-> NoWq]
  /\ inq = [w \in Rqs |-> <<>>]
  /\ sent = [w \in Sqs |-> 0]
  /\ received = [w \in Rqs |-> <<>>]

-----------------------------------------------------------------------------
(* The verbs.  The RDMA core runs one at a time on a queue pair.           *)

Exists(q) == state[q] \notin {"none", "destroyed"}

Live(n, d) == {q \in Qps : q.node = n /\ q.pd = d /\ Exists(q)}

NewQp(n, d) ==
  LET q == [node |-> n, pd |-> d, qpn |-> qp_c[<<n, d>>]] IN
  /\ qp_c[<<n, d>>] < QpIni + MaxQps[n]
  /\ Cardinality(Live(n, d)) < MaxLive
  /\ qp_c' = [qp_c EXCEPT ![<<n, d>>] = @ + 1]
  /\ state' = [state EXCEPT ![q] = "RESET"]
  /\ UNCHANGED <<call, threads, msqs>>

\* A slip: the table of queue pairs is taken to have one more entry.
CreateQpOneMore(n, d) == qp_c[<<n, d>>] <= QpMax /\ NewQp(n, d)
CreateQp(n, d) == qp_c[<<n, d>>] < QpMax /\ NewQp(n, d)

\* A move to another state than RTR, from any state, records it and does no more.
ModifyQp(q, s) ==
  /\ call[q] = Idle
  /\ Exists(q)
  /\ state' = [state EXCEPT ![q] = s]
  /\ UNCHANGED <<qp_c, call, threads, msqs>>

\* A move to RTR, from any state: neither dis_modify_qp nor dis_qp_init asks
\* whether there are workers already.
ModifyRtr(q) ==
  /\ call[q] = Idle
  /\ Exists(q)
  /\ thread[Rq(q)] < MaxRtr
  /\ call' = [call EXCEPT ![q] = <<"init", "DIS_RQ">>]
  /\ UNCHANGED <<qp_c, state, threads, msqs>>

\* dis_qp_init for the receive queue and then for the send queue.  It refuses
\* a queue whose worker has exited; a worker exits only for dis_destroy_qp.
QpInit(q) ==
  LET w == At(q) IN
  /\ call[q][1] = "init"
  /\ wq_state[w] # "EXITED"
  /\ wq_state' = [wq_state EXCEPT ![w] = "INITIALIZED"]
  /\ thread' = [thread EXCEPT ![w] = @ + 1]
  /\ pc' = [pc EXCEPT ![w][thread[w] + 1] = "created"]
  /\ IF w \in Rqs
     THEN /\ call' = [call EXCEPT ![q] = <<"init", "DIS_SQ">>]
          /\ UNCHANGED state
     ELSE /\ call' = [call EXCEPT ![q] = Idle]
          /\ state' = [state EXCEPT ![q] = "RTR"]
  /\ UNCHANGED <<qp_c, stop, msqs>>

DestroyQp(q) ==
  /\ call[q] = Idle
  /\ Exists(q)
  /\ call' = [call EXCEPT ![q] = <<"exit", "DIS_RQ">>]
  /\ UNCHANGED <<qp_c, state, threads, msqs>>

\* dis_qp_exit of the receive queue is followed by that of the send queue,
\* and that by the kfrees.
ExitReturns(q) ==
  IF At(q) \in Rqs
  THEN /\ call' = [call EXCEPT ![q] = <<"exit", "DIS_SQ">>]
       /\ UNCHANGED state
  ELSE /\ call' = [call EXCEPT ![q] = Idle]
       /\ state' = [state EXCEPT ![q] = "destroyed"]

QpExitSkips(q) ==
  /\ call[q][1] = "exit"
  /\ ExitReturns(q)
  /\ UNCHANGED <<qp_c, threads, msqs>>

\* A slip: a queue whose worker has not begun to run is left alone.
QpExitNothingYet(q) == wq_state[At(q)] # "RUNNING" /\ QpExitSkips(q)
QpExitNothing(q) == wq_state[At(q)] \in {"UNINITIALIZED", "EXITED"} /\ QpExitSkips(q)

QpExitStop(q) ==
  /\ call[q][1] = "exit"
  /\ wq_state[At(q)] \notin {"UNINITIALIZED", "EXITED"}
  /\ stop' = [stop EXCEPT ![At(q)][thread[At(q)]] = TRUE]
  /\ call' = [call EXCEPT ![q][1] = "join"]
  /\ UNCHANGED <<qp_c, state, wq_state, thread, pc, msqs>>

\* kthread_stop returns when the thread has ended, the loop after it when the
\* worker has said so, too.
QpExitJoin(q) ==
  /\ call[q][1] = "join"
  /\ pc[At(q)][thread[At(q)]] = "dead"
  /\ wq_state[At(q)] = "EXITED"
  /\ ExitReturns(q)
  /\ UNCHANGED <<qp_c, threads, msqs>>

-----------------------------------------------------------------------------
(* Worker k of work queue w.                                               *)

ThreadNeverRuns(w, k) ==
  /\ pc[w][k] = "created"
  /\ stop[w][k]
  /\ pc' = [pc EXCEPT ![w][k] = "dead"]
  /\ UNCHANGED <<verbs, wq_state, thread, stop, msqs>>

ThreadStart(w, k) ==
  /\ pc[w][k] = "created"
  /\ ~stop[w][k]
  /\ pc' = [pc EXCEPT ![w][k] = "init"]
  /\ wq_state' = [wq_state EXCEPT ![w] = "RUNNING"]
  /\ UNCHANGED <<verbs, thread, stop, msqs>>

CreateMsq(w, k) ==
  /\ w \in Rqs
  /\ pc[w][k] = "init"
  /\ ~stop[w][k]
  /\ \A r \in open : r.qp.node = w.qp.node => CreateId(r) # CreateId(w)
  /\ open' = open \cup {w}
  /\ pc' = [pc EXCEPT ![w][k] = "run"]
  /\ UNCHANGED <<verbs, wq_state, thread, stop, conn, inq, sent, received>>

ConnectMsq(w, k) ==
  /\ w \in Sqs
  /\ pc[w][k] = "init"
  /\ ~stop[w][k]
  /\ \E r \in open :
       /\ r.qp.node # w.qp.node
       /\ CreateId(r) = ConnectId(w)
       /\ conn' = [conn EXCEPT ![w] = r]
  /\ pc' = [pc EXCEPT ![w][k] = "run"]
  /\ UNCHANGED <<verbs, wq_state, thread, stop, open, inq, sent, received>>

InitStopped(w, k) ==
  /\ pc[w][k] = "init"
  /\ stop[w][k]
  /\ pc' = [pc EXCEPT ![w][k] = "dead"]
  /\ wq_state' = [wq_state EXCEPT ![w] = "EXITED"]
  /\ UNCHANGED <<verbs, thread, stop, msqs>>

Sending(w, k) ==
  /\ w \in Sqs
  /\ pc[w][k] = "run"
  /\ ~stop[w][k]
  /\ sent[w] < MaxMsgs
  /\ conn[w] # NoWq
  /\ Len(inq[conn[w]]) < MsgMax
  /\ inq' = [inq EXCEPT ![conn[w]] = Append(@, [from |-> w.qp, no |-> sent[w] + 1])]
  /\ UNCHANGED <<verbs, threads, open, conn, received>>

\* A slip: a call that succeeded may be made again.
SendMsgRetried(w, k) == Sending(w, k) /\ sent' \in {sent, [sent EXCEPT ![w] = @ + 1]}
SendMsg(w, k) == Sending(w, k) /\ sent' = [sent EXCEPT ![w] = @ + 1]

Receiving(w, k) ==
  /\ w \in Rqs
  /\ pc[w][k] = "run"
  /\ ~stop[w][k]

Received(w) ==
  /\ inq[w] # <<>>
  /\ received' = [received EXCEPT ![w] = Append(@, Head(inq[w]))]
  /\ inq' = [inq EXCEPT ![w] = Tail(@)]
  /\ UNCHANGED <<verbs, threads, open, conn, sent>>

\* A slip: the worker returns, as the comment in dis_wq_consume_one_rqe says it
\* should, but from any receive that fails.
ReceiveMsgOrReturn(w, k) ==
  /\ Receiving(w, k)
  /\ \/ Received(w)
     \/ /\ inq[w] = <<>>
        /\ pc' = [pc EXCEPT ![w][k] = "dead"]
        /\ UNCHANGED <<verbs, wq_state, thread, stop, msqs>>

\* A slip: a receive that fails after the message was taken out is made again.
ReceiveMsgAgain(w, k) ==
  /\ Receiving(w, k)
  /\ \/ Received(w)
     \/ /\ inq[w] # <<>>
        /\ inq' = [inq EXCEPT ![w] = Tail(@)]
        /\ UNCHANGED <<verbs, threads, open, conn, sent, received>>
ReceiveMsg(w, k) == Receiving(w, k) /\ Received(w)

\* The thread ends: dis_wq_exit, then DIS_WQ_EXITED.  A queue that is removed
\* takes its messages and its connections with it.
ThreadStops(w, k) ==
  /\ pc[w][k] = "run"
  /\ stop[w][k]
  /\ pc' = [pc EXCEPT ![w][k] = "dead"]
  /\ wq_state' = [wq_state EXCEPT ![w] = "EXITED"]
  /\ IF w \in Rqs
     THEN /\ open' = open \ {w}
          /\ inq' = [inq EXCEPT ![w] = <<>>]
          /\ conn' = [s \in Sqs |-> IF conn[s] = w THEN NoWq ELSE conn[s]]
     ELSE /\ conn' = [conn EXCEPT ![w] = NoWq]
          /\ UNCHANGED <<open, inq>>
  /\ UNCHANGED <<verbs, thread, stop, sent, received>>

-----------------------------------------------------------------------------
Verb(q) == QpInit(q) \/ QpExitNothing(q) \/ QpExitStop(q) \/ QpExitJoin(q)

Worker(w, k) ==
  \/ ThreadNeverRuns(w, k) \/ ThreadStart(w, k)
  \/ CreateMsq(w, k) \/ ConnectMsq(w, k) \/ InitStopped(w, k)
  \/ ReceiveMsg(w, k) \/ ThreadStops(w, k)

Next ==
  \/ \E n \in Nodes, d \in Pds : CreateQp(n, d)
  \/ \E q \in Qps, s \in QpStates : ModifyQp(q, s)
  \/ \E q \in Qps : ModifyRtr(q) \/ DestroyQp(q) \/ Verb(q)
  \/ \E w \in Wqs, k \in Workers : Worker(w, k) \/ SendMsg(w, k)

Spec == Init /\ [][Next]_vars

System ==
  \/ \E q \in Qps : Verb(q)
  \/ \E w \in Wqs, k \in Workers : Worker(w, k)

\* A thread that can run does, and the application posts receive requests.  It
\* need not send, nor create, move or destroy a queue pair.  The bounds let each
\* thread and verb make finitely many steps, so one condition for all is enough.
FairSpec == Spec /\ WF_vars(System)

-----------------------------------------------------------------------------
(* Properties.                                                             *)

\* The queue pair an application connects q to: that of its application on the
\* other node, with the same number, since no other can be chosen.
Peers(q) == {p \in Qps : p.node # q.node /\ p.pd = q.pd /\ p.qpn = q.qpn}

\* Every variable has its type; queue pair numbers stay below DIS_QP_MAX, the
\* length of pd->qp_list (dis_create_qp).
TypeOK ==
  /\ qp_c \in [Nodes \X Pds -> QpIni..QpMax]
  /\ state \in [Qps -> {"none", "RESET", "INIT", "RTR", "RTS", "destroyed"}]
  /\ call \in [Qps -> {"idle", "init", "exit", "join"} \X WqTypes]
  /\ wq_state \in [Wqs -> {"UNINITIALIZED", "INITIALIZED", "RUNNING", "EXITED"}]
  /\ thread \in [Wqs -> 0..MaxRtr]
  /\ pc \in [Wqs -> [Workers -> {"none", "created", "init", "run", "dead"}]]
  /\ stop \in [Wqs -> [Workers -> BOOLEAN]]
  /\ open \subseteq Rqs
  /\ conn \in [Sqs -> Rqs \cup {NoWq}]
  /\ inq \in [Rqs -> Seq([from : Qps, no : 1..MaxMsgs])]
  /\ sent \in [Sqs -> 0..MaxMsgs]
  /\ received \in [Rqs -> Seq([from : Qps, no : 1..MaxMsgs])]

\* A send queue is connected to the receive queue of its peer and to no other:
\* the numbers of dis_sci_if_create_msq and dis_sci_if_connect_msq tell queue
\* pairs and directions apart.
Paired ==
  \A s \in Sqs : conn[s] # NoWq => \E p \in Peers(s.qp) : conn[s] = Rq(p)

\* What a receive queue got is what its peer sent, from the first message on,
\* none lost, repeated or out of order (retries of dis_sci_if_send_v_msg and
\* dis_sci_if_receive_v_msg).
ReceivedInOrder ==
  \A r \in Rqs : \A i \in 1..Len(received[r]) :
     received[r][i].from \in Peers(r.qp) /\ received[r][i].no = i

\* Nothing is left that could touch the queue: no worker, and no message queue or
\* connection.
LeavesNothing(w) ==
  /\ \A k \in Workers : pc[w][k] \in {"none", "dead"}
  /\ IF w \in Rqs THEN w \notin open ELSE conn[w] = NoWq

\* Once dis_destroy_qp has freed a queue pair, whatever its workers were doing and
\* however it was moved, the worker each queue knows of is gone, and if it was
\* moved to RTR once at most, nothing is left of it.
DestroyedIsQuiet ==
  \A w \in Wqs : state[w.qp] = "destroyed" =>
    /\ thread[w] # 0 => pc[w][thread[w]] = "dead"
    /\ thread[w] <= 1 => LeavesNothing(w)

\* The same without the condition, as dis_qp_exit has it: "Command the worker thread
\* to stop and wait for it to exit".
NothingLeftBehind == \A w \in Wqs : state[w.qp] = "destroyed" => LeavesNothing(w)

\* The two directions between peers: a sender and its receiver.  A direction ends
\* with the receiving worker, the only one if queue pairs move to RTR once.
Directions == {c \in Qps \X Qps : c[2] \in Peers(c[1])}

Link == INSTANCE Channel WITH
  Channels <- Directions,
  Capacity <- MsgMax,
  given <- [c \in Directions |-> sent[Sq(c[1])]],
  inside <- [c \in Directions |-> inq[Rq(c[2])]],
  delivered <- [c \in Directions |-> received[Rq(c[2])]],
  closed <- {c \in Directions : pc[Rq(c[2])][1] = "dead"}

\* The worker threads and message queues of two peers are such channels: a
\* message the library took is lost only when the receive queue's worker ends,
\* nothing is sent to or received from a queue that has ended, and no more than
\* DIS_MSG_MAX messages wait (dis_wq_thread, dis_wq_init, dis_wq_exit).
IsChannel == Link!Spec

\* dis_qp_exit has returned for work queue w.
Released(w) ==
  \/ state[w.qp] = "destroyed"
  \/ w \in Rqs /\ call[w.qp] \in {"exit", "join"} \X {"DIS_SQ"}

\* It has a message queue or a connection to one.
Using(w) == IF w \in Rqs THEN w \in open ELSE conn[w] # NoWq

Life(w) == INSTANCE WorkerLife WITH
  MayDie <- FALSE,
  place <- pc[w][1],
  told <- stop[w][1],
  using <- Using(w),
  exited <- wq_state[w] = "EXITED",
  released <- Released(w)

\* Until its queue pair moves to RTR again the worker of each queue lives as that of
\* DisWq does, whatever the other workers and the other node do: it ends only because
\* dis_qp_exit told it to, which returns when the worker has given up its message
\* queue or connection and said DIS_WQ_EXITED.
AreWorkers ==
  /\ \A w \in Wqs : Life(w)!Init
  /\ [][\A w \in Wqs : thread'[w] <= 1 => [Life(w)!Next]_(Life(w)!vars)]_vars

Ready(q) == thread[Sq(q)] # 0
Leaving(q) == state[q] = "destroyed" \/ call[q][1] \in {"exit", "join"}

\* Two peers that have reached RTR get connected both ways, in whatever order
\* their four workers start, unless one of them is destroyed (dis_wq_init).
Connects ==
  \A q \in Qps : \A p \in Peers(q) :
    (Ready(q) /\ Ready(p)) ~> (conn[Sq(q)] = Rq(p) \/ Leaving(q) \/ Leaving(p))

\* A message the library took reaches the peer, unless that is destroyed
\* (dis_wq_consume_one_rqe tries until it gets one).
Arrives ==
  \A q \in Qps : \A p \in Peers(q) : \A i \in 1..MaxMsgs :
    sent[Sq(q)] >= i ~> (Len(received[Rq(p)]) >= i \/ Leaving(p))
==============================================================================
