------------------------------ MODULE DisLinkProofs --------------------------
(***************************************************************************)
(* Proofs about queue pairs on two nodes, for every number of queue pairs  *)
(* and messages and every capacity of the message queues.                  *)
(***************************************************************************)
EXTENDS DisLink, SequenceTheorems, TLAPS

\* What some of the proofs assume: one protection domain on each node, since the
\* queue numbers do not name the domain; and that no queue pair is moved to RTR
\* twice, which starts a second worker on each queue.
OneDomain == \A d, e \in Pds : d = e
OneStart == MaxRtr = 1

\* A queue pair has two queues, a queue one queue pair.
LEMMA Queues ==
  /\ \A q \in Qps :
       /\ Rq(q) \in Rqs /\ Rq(q) \in Wqs /\ Rq(q) \notin Sqs /\ Rq(q).qp = q
       /\ Sq(q) \in Sqs /\ Sq(q) \in Wqs /\ Sq(q) \notin Rqs /\ Sq(q).qp = q
       /\ Rq(q) # Sq(q)
  /\ \A w \in Wqs : w.qp \in Qps
  /\ \A w \in Rqs : w \in Wqs /\ w \notin Sqs /\ w = Rq(w.qp)
  /\ \A w \in Sqs : w \in Wqs /\ w \notin Rqs /\ w = Sq(w.qp)
  /\ \A w \in Wqs : w \in Rqs \/ w \in Sqs
  BY DEF Rq, Sq, Wqs, Rqs, Sqs, WqTypes

-----------------------------------------------------------------------------
(* Connections.                                                            *)

\* A connection leads to the other node, to the number the send queue computes.
Matches(s, r) == r \in Rqs /\ r.qp.node # s.qp.node /\ CreateId(r) = ConnectId(s)

PairInv ==
  /\ open \subseteq Rqs
  /\ conn \in [Sqs -> Rqs \cup {NoWq}]
  /\ \A s \in Sqs : conn[s] # NoWq => Matches(s, conn[s])

\* The numbers of two queues differ in their lowest bit unless one receives and
\* the other sends, and in the others unless the queue pair numbers agree.
LEMMA MatchesPeer ==
    ASSUME OneDomain, NEW s \in Sqs, NEW r, Matches(s, r)
    PROVE  r.qp \in Peers(s.qp) /\ r = Rq(r.qp)
  <1>1. s.qp \in Qps /\ r.qp \in Qps /\ r = Rq(r.qp)
    BY Queues DEF Matches
  <1>2. /\ s.qp.qpn \in Nat /\ r.qp.qpn \in Nat
        /\ s.qp.node \in Nodes /\ r.qp.node \in Nodes
        /\ s.qp.pd \in Pds /\ r.qp.pd \in Pds
    BY <1>1, LinkAssumption DEF Qps
  <1>3. r.qp.node \in Initiators <=> s.qp.node \notin Initiators
    BY <1>2, LinkAssumption DEF Matches
  <1>4. CreateId(r) = ConnectId(s)
    BY DEF Matches
  <1>5. CASE r.qp.node \in Initiators
    <2>1. r.qp.qpn * 2 = s.qp.qpn * 2
      BY <1>3, <1>4, <1>5 DEF CreateId, ConnectId, Lqpn
    <2> QED BY <2>1, <1>1, <1>2 DEF Peers, OneDomain, Matches
  <1>6. CASE r.qp.node \notin Initiators
    <2>1. r.qp.qpn * 2 + 1 = s.qp.qpn * 2 + 1
      BY <1>3, <1>4, <1>6 DEF CreateId, ConnectId, Lqpn
    <2> QED BY <2>1, <1>1, <1>2 DEF Peers, OneDomain, Matches
  <1> QED BY <1>5, <1>6

\* Nothing is connected at first.
LEMMA PairInit == Init => PairInv
  BY DEF Init, PairInv

\* Only the library's calls make and break connections.
LEMMA PairStep == PairInv /\ [Next]_vars => PairInv'
  <1> SUFFICES ASSUME PairInv, [Next]_vars PROVE PairInv'
    OBVIOUS
  <1>0. UNCHANGED <<open, conn>> => PairInv'
    BY DEF PairInv, Matches, CreateId, ConnectId, Lqpn
  <1>1. ASSUME NEW n \in Nodes, NEW d \in Pds, CreateQp(n, d) PROVE PairInv'
    BY <1>0, <1>1 DEF CreateQp, NewQp, msqs
  <1>2. ASSUME NEW q \in Qps, NEW s \in QpStates, ModifyQp(q, s)
        PROVE PairInv'
    BY <1>0, <1>2 DEF ModifyQp, msqs
  <1>3. ASSUME NEW q \in Qps, ModifyRtr(q) \/ DestroyQp(q) \/ Verb(q) PROVE PairInv'
    BY <1>0, <1>3 DEF ModifyRtr, DestroyQp, Verb, QpInit, QpExitNothing, QpExitSkips, QpExitStop,
       QpExitJoin, msqs
  <1>4. ASSUME NEW w \in Wqs, NEW k \in Workers, Worker(w, k) \/ SendMsg(w, k) PROVE PairInv'
    <2>1. CASE ThreadNeverRuns(w, k) \/ ThreadStart(w, k) \/ InitStopped(w, k)
      BY <1>0, <2>1 DEF ThreadNeverRuns, ThreadStart, InitStopped, msqs
    <2>2. CASE ReceiveMsg(w, k) \/ SendMsg(w, k)
      BY <1>0, <2>2 DEF ReceiveMsg, Received, SendMsg, Sending
    <2>3. CASE CreateMsq(w, k)
      BY <2>3 DEF CreateMsq, PairInv, Matches, CreateId, ConnectId, Lqpn
    <2>4. CASE ConnectMsq(w, k)
      <3>1. PICK r \in open :
              /\ r.qp.node # w.qp.node
              /\ CreateId(r) = ConnectId(w)
              /\ conn' = [conn EXCEPT ![w] = r]
        BY <2>4 DEF ConnectMsq
      <3>2. w \in Sqs /\ open' = open
        BY <2>4 DEF ConnectMsq
      <3>3. Matches(w, r)
        BY <3>1 DEF PairInv, Matches
      <3> QED BY <3>1, <3>2, <3>3 DEF PairInv, Matches, CreateId, ConnectId, Lqpn
    <2>5. CASE ThreadStops(w, k)
      <3>1. open' \subseteq Rqs
        BY <2>5 DEF ThreadStops, PairInv
      <3>2. \A s \in Sqs : conn'[s] \in {conn[s], NoWq}
        BY <2>5 DEF ThreadStops, PairInv
      <3>3. conn' \in [Sqs -> Rqs \cup {NoWq}]
        BY <2>5, <3>2 DEF ThreadStops, PairInv
      <3> QED BY <3>1, <3>2, <3>3 DEF PairInv, Matches, CreateId, ConnectId, Lqpn
    <2> QED BY <1>4, <2>1, <2>2, <2>3, <2>4, <2>5 DEF Worker
  <1>5. CASE UNCHANGED vars
    BY <1>0, <1>5 DEF vars, msqs
  <1> QED BY <1>1, <1>2, <1>3, <1>4, <1>5 DEF Next

\* With one domain a connection never joins two queue pairs that are not peers,
\* nor two queues of the same direction (dis_sci_if_connect_msq).
THEOREM PeersPaired == ASSUME OneDomain PROVE Spec => []Paired
  <1>1. PairInv => Paired
    BY MatchesPeer DEF PairInv, Paired
  <1> QED BY <1>1, PairInit, PairStep, PTL DEF Spec

-----------------------------------------------------------------------------
(* The verbs and the threads.                                               *)

\* A verb is at the receive queue or at the send queue of its queue pair.
LEMMA AtQueue ==
    ASSUME NEW q \in Qps, call \in [Qps -> {"idle", "init", "exit", "join"} \X WqTypes]
    PROVE  /\ At(q) \in Wqs /\ At(q).qp = q
           /\ At(q) \in Rqs <=> call[q][2] = "DIS_RQ"
           /\ At(q) \in Rqs => At(q) = Rq(q)
           /\ At(q) \notin Rqs => At(q) = Sq(q) /\ call[q][2] = "DIS_SQ"
  <1>1. call[q][2] \in WqTypes
    OBVIOUS
  <1>2. At(q) \in Wqs /\ At(q).qp = q /\ At(q).wq_type = call[q][2]
    BY <1>1 DEF At, Wqs
  <1>3. At(q) \in Rqs <=> call[q][2] = "DIS_RQ"
    BY <1>2 DEF Rqs
  <1>4. call[q][2] = "DIS_RQ" => At(q) = Rq(q)
    BY DEF At, Rq
  <1>5. call[q][2] = "DIS_SQ" => At(q) = Sq(q)
    BY DEF At, Sq
  <1> QED BY <1>1, <1>2, <1>3, <1>4, <1>5 DEF WqTypes

\* The calls differ from one another.
LEMMA Calls ==
  /\ Idle = <<"idle", "DIS_RQ">> /\ Idle[1] = "idle"
  /\ Idle \in {"idle", "init", "exit", "join"} \X WqTypes
  /\ \A x \in {"init", "exit", "join"}, y \in WqTypes :
       <<x, y>> # Idle /\ <<x, y>> \in {"idle", "init", "exit", "join"} \X WqTypes
  /\ \A c : c[1] # "init" \/ c[2] = "DIS_RQ" => c # <<"init", "DIS_SQ">>
  /\ \A c : c[1] \in {"init", "exit", "join"} => c # Idle
  /\ "DIS_RQ" \in WqTypes /\ "DIS_SQ" \in WqTypes
  BY DEF Idle, WqTypes

\* A queue may get a worker.
LEMMA OneWorker == 1 \in Workers
  BY LinkAssumption DEF Workers

Places == {"none", "created", "init", "run", "dead"}

VerbType ==
  /\ qp_c \in [Nodes \X Pds -> QpIni..QpMax]
  /\ state \in [Qps -> {"none", "RESET", "INIT", "RTR", "RTS", "destroyed"}]
  /\ call \in [Qps -> {"idle", "init", "exit", "join"} \X WqTypes]

ThreadType ==
  /\ wq_state \in [Wqs -> {"UNINITIALIZED", "INITIALIZED", "RUNNING", "EXITED"}]
  /\ thread \in [Wqs -> 0..MaxRtr]
  /\ pc \in [Wqs -> [Workers -> Places]]
  /\ stop \in [Wqs -> [Workers -> BOOLEAN]]

Message == [from : Qps, no : 1..MaxMsgs]

MsqType ==
  /\ open \subseteq Rqs
  /\ conn \in [Sqs -> Rqs \cup {NoWq}]
  /\ inq \in [Rqs -> Seq(Message)]
  /\ sent \in [Sqs -> 0..MaxMsgs]
  /\ received \in [Rqs -> Seq(Message)]

\* Both queues of a queue pair get a worker when it moves to RTR, the receive
\* queue first.
RtrInv ==
  \A q \in Qps :
    /\ call[q] # <<"init", "DIS_SQ">> => thread[Rq(q)] = thread[Sq(q)]
    /\ call[q] = <<"init", "DIS_SQ">> => thread[Rq(q)] = thread[Sq(q)] + 1
    /\ call[q] = <<"init", "DIS_RQ">> => thread[Rq(q)] < MaxRtr

\* A part keeps its type if its variables do not change.
LEMMA TypeFrames ==
  /\ VerbType /\ UNCHANGED verbs => VerbType'
  /\ ThreadType /\ UNCHANGED threads => ThreadType'
  /\ MsqType /\ UNCHANGED msqs => MsqType'
  /\ RtrInv /\ UNCHANGED <<thread, call>> => RtrInv'
  BY DEF VerbType, ThreadType, MsqType, RtrInv, verbs, threads, msqs

\* Two nodes without queue pairs.
LEMMA TypeInit == Init => VerbType /\ ThreadType /\ MsqType /\ RtrInv
  <1> SUFFICES ASSUME Init PROVE VerbType /\ ThreadType /\ MsqType /\ RtrInv
    OBVIOUS
  <1>1. VerbType
    BY LinkAssumption, Calls DEF Init, VerbType
  <1>2. ThreadType
    BY LinkAssumption DEF Init, ThreadType, Places
  <1>3. MsqType
    BY LinkAssumption, EmptySeq DEF Init, MsqType
  <1>4. RtrInv
    BY Queues, Calls DEF Init, RtrInv
  <1> QED BY <1>1, <1>2, <1>3, <1>4

\* dis_qp_init starts the next worker of the queue it is at, within the bound.
LEMMA NextWorker ==
    ASSUME VerbType, ThreadType, RtrInv, NEW q \in Qps, QpInit(q), NEW w, w = At(q)
    PROVE  /\ w \in Wqs /\ w.qp = q
           /\ thread[w] + 1 \in 0..MaxRtr /\ thread[w] + 1 \in Workers
           /\ w \in Rqs => w = Rq(q) /\ thread[Rq(q)] = thread[Sq(q)]
           /\ w \notin Rqs => w = Sq(q) /\ thread[Rq(q)] = thread[w] + 1
  <1>1. w \in Wqs /\ w.qp = q
    BY AtQueue DEF VerbType
  <1>2. /\ w \in Rqs => w = Rq(q) /\ call[q] = <<"init", "DIS_RQ">>
        /\ w \notin Rqs => w = Sq(q) /\ call[q] = <<"init", "DIS_SQ">>
    <2>1. call[q] = <<"init", call[q][2]>>
      BY DEF QpInit, VerbType
    <2> QED BY <2>1, AtQueue DEF VerbType
  <1>3. thread[Rq(q)] \in 0..MaxRtr /\ thread[Sq(q)] \in 0..MaxRtr /\ thread[w] \in 0..MaxRtr
    BY <1>1, Queues DEF ThreadType
  <1>4. w \in Rqs => thread[w] < MaxRtr /\ thread[Rq(q)] = thread[Sq(q)]
    BY <1>2, Calls DEF RtrInv
  <1>5. w \notin Rqs => thread[Rq(q)] = thread[w] + 1
    BY <1>2 DEF RtrInv
  <1>6. thread[w] + 1 \in 0..MaxRtr
    BY <1>3, <1>4, <1>5, LinkAssumption
  <1>7. thread[w] + 1 \in Workers
    BY <1>3, <1>6, LinkAssumption DEF Workers
  <1> QED BY <1>1, <1>2, <1>4, <1>5, <1>6, <1>7

\* The verbs' variables; pd->qp_c does not pass DIS_QP_MAX.
LEMMA VerbStep == VerbType /\ RtrInv /\ [Next]_vars => VerbType'
  <1> SUFFICES ASSUME VerbType, RtrInv, [Next]_vars PROVE VerbType'
    OBVIOUS
  <1>0. UNCHANGED verbs => VerbType'
    BY TypeFrames
  <1>1. ASSUME NEW n \in Nodes, NEW d \in Pds, CreateQp(n, d) PROVE VerbType'
    <2>1. /\ qp_c[<<n, d>>] < QpMax
          /\ qp_c' = [qp_c EXCEPT ![<<n, d>>] = @ + 1]
          /\ \E q : state' = [state EXCEPT ![q] = "RESET"]
          /\ UNCHANGED call
      BY <1>1 DEF CreateQp, NewQp
    <2>2. qp_c[<<n, d>>] \in QpIni..QpMax
      BY DEF VerbType
    <2>3. qp_c[<<n, d>>] + 1 \in QpIni..QpMax
      BY <2>1, <2>2, LinkAssumption
    <2> QED BY <2>1, <2>3 DEF VerbType
  <1>2. ASSUME NEW q \in Qps, NEW s \in QpStates, ModifyQp(q, s)
        PROVE VerbType'
    BY <1>2, LinkAssumption DEF ModifyQp, VerbType
  <1>3. ASSUME NEW q \in Qps, ModifyRtr(q) \/ DestroyQp(q) PROVE VerbType'
    BY <1>3, Calls DEF ModifyRtr, DestroyQp, VerbType
  <1>4. ASSUME NEW q \in Qps, QpInit(q) PROVE VerbType'
    <2>1. /\ call' \in {[call EXCEPT ![q] = <<"init", "DIS_SQ">>], [call EXCEPT ![q] = Idle]}
          /\ state' \in {state, [state EXCEPT ![q] = "RTR"]}
          /\ UNCHANGED qp_c
      <3>1. CASE At(q) \in Rqs
        BY <1>4, <3>1 DEF QpInit
      <3>2. CASE At(q) \notin Rqs
        BY <1>4, <3>2 DEF QpInit
      <3> QED BY <3>1, <3>2
    <2>2. <<"init", "DIS_SQ">> \in {"idle", "init", "exit", "join"} \X WqTypes
      BY Calls
    <2>3. call' \in [Qps -> {"idle", "init", "exit", "join"} \X WqTypes]
      BY <2>1, <2>2, Calls DEF VerbType
    <2>4. state' \in [Qps -> {"none", "RESET", "INIT", "RTR", "RTS", "destroyed"}]
      BY <2>1 DEF VerbType
    <2> QED BY <2>1, <2>3, <2>4 DEF VerbType
  <1>5. ASSUME NEW q \in Qps, QpExitNothing(q) \/ QpExitJoin(q) PROVE VerbType'
    <2>1. /\ call' \in {[call EXCEPT ![q] = <<"exit", "DIS_SQ">>], [call EXCEPT ![q] = Idle]}
          /\ state' \in {state, [state EXCEPT ![q] = "destroyed"]}
          /\ UNCHANGED qp_c
      BY <1>5 DEF QpExitNothing, QpExitSkips, QpExitJoin, ExitReturns
    <2>2. <<"exit", "DIS_SQ">> \in {"idle", "init", "exit", "join"} \X WqTypes
      BY Calls
    <2>3. call' \in [Qps -> {"idle", "init", "exit", "join"} \X WqTypes]
      BY <2>1, <2>2, Calls DEF VerbType
    <2>4. state' \in [Qps -> {"none", "RESET", "INIT", "RTR", "RTS", "destroyed"}]
      BY <2>1 DEF VerbType
    <2> QED BY <2>1, <2>3, <2>4 DEF VerbType
  <1>6. ASSUME NEW q \in Qps, QpExitStop(q) PROVE VerbType'
    <2>1. /\ call' = [call EXCEPT ![q][1] = "join"]
          /\ UNCHANGED <<qp_c, state>>
      BY <1>6 DEF QpExitStop
    <2>2. call[q] = <<call[q][1], call[q][2]>> /\ call[q][2] \in WqTypes
      BY DEF VerbType
    <2>3. [call[q] EXCEPT ![1] = "join"] = <<"join", call[q][2]>>
      BY <2>2
    <2> QED BY <2>1, <2>2, <2>3 DEF VerbType
  <1>7. ASSUME NEW w \in Wqs, NEW k \in Workers, Worker(w, k) \/ SendMsg(w, k) PROVE VerbType'
    BY <1>0, <1>7 DEF Worker, ThreadNeverRuns, ThreadStart, CreateMsq, ConnectMsq, InitStopped,
       ReceiveMsg, Received, ThreadStops, SendMsg, Sending
  <1>8. CASE UNCHANGED vars
    BY <1>0, <1>8 DEF vars
  <1> QED BY <1>1, <1>2, <1>3, <1>4, <1>5, <1>6, <1>7, <1>8 DEF Next, Verb

\* The workers' variables; a queue gets no more workers than moves to RTR.
LEMMA ThreadStep ==
    VerbType /\ ThreadType /\ RtrInv /\ [Next]_vars => ThreadType' /\ RtrInv'
  <1> SUFFICES ASSUME VerbType, ThreadType, RtrInv, [Next]_vars PROVE ThreadType' /\ RtrInv'
    OBVIOUS
  <1>0. /\ UNCHANGED threads => ThreadType'
        /\ UNCHANGED <<thread, call>> => RtrInv'
    BY TypeFrames
  <1>1. ASSUME NEW n \in Nodes, NEW d \in Pds, CreateQp(n, d) PROVE ThreadType' /\ RtrInv'
    BY <1>0, <1>1 DEF CreateQp, NewQp, threads
  <1>2. ASSUME NEW q \in Qps, NEW s \in QpStates, ModifyQp(q, s)
        PROVE ThreadType' /\ RtrInv'
    BY <1>0, <1>2 DEF ModifyQp, threads
  <1>3. ASSUME NEW q \in Qps, ModifyRtr(q) \/ DestroyQp(q) PROVE ThreadType' /\ RtrInv'
    <2>1. /\ UNCHANGED threads /\ call[q] = Idle
          /\ \/ call' = [call EXCEPT ![q] = <<"init", "DIS_RQ">>] /\ thread[Rq(q)] < MaxRtr
             \/ call' = [call EXCEPT ![q] = <<"exit", "DIS_RQ">>]
      BY <1>3 DEF ModifyRtr, DestroyQp
    <2>2. \A p \in Qps : p # q => call'[p] = call[p]
      BY <2>1 DEF VerbType
    <2>3. /\ call'[q][2] = "DIS_RQ"
          /\ call'[q] = <<"init", "DIS_RQ">> => thread[Rq(q)] < MaxRtr
      BY <2>1 DEF VerbType
    <2>4. thread[Rq(q)] = thread[Sq(q)]
      BY <2>1, Calls DEF RtrInv
    <2>5. UNCHANGED thread
      BY <2>1 DEF threads
    <2>6. RtrInv'
      BY <2>2, <2>3, <2>4, <2>5, Calls DEF RtrInv
    <2> QED BY <1>0, <2>1, <2>6
  <1>4. ASSUME NEW q \in Qps, QpInit(q) PROVE ThreadType' /\ RtrInv'
    <2>w. PICK w : w = At(q)
      OBVIOUS
    <2>1. /\ wq_state' = [wq_state EXCEPT ![w] = "INITIALIZED"]
          /\ thread' = [thread EXCEPT ![w] = @ + 1]
          /\ pc' = [pc EXCEPT ![w][thread[w] + 1] = "created"]
          /\ UNCHANGED stop
      BY <1>4, <2>w DEF QpInit
    <2>2. /\ w \in Wqs /\ w.qp = q /\ thread[w] + 1 \in 0..MaxRtr
          /\ w \in Rqs => w = Rq(q) /\ thread[Rq(q)] = thread[Sq(q)]
          /\ w \notin Rqs => w = Sq(q) /\ thread[Rq(q)] = thread[w] + 1
      BY <1>4, <2>w, NextWorker
    <2>8. /\ thread' \in [Wqs -> 0..MaxRtr] /\ thread'[w] = thread[w] + 1
          /\ \A v \in Wqs : v # w => thread'[v] = thread[v]
      BY <2>1, <2>2 DEF ThreadType
    <2>9. ThreadType'
      BY <2>1, <2>8 DEF ThreadType, Places
    <2>10. \A p \in Qps : p # q =>
             /\ thread'[Rq(p)] = thread[Rq(p)] /\ thread'[Sq(p)] = thread[Sq(p)]
             /\ call'[p] = call[p]
      <3>1. \A p \in Qps : p # q => call'[p] = call[p]
        BY <1>4 DEF QpInit, VerbType
      <3> QED BY <2>2, <2>8, <3>1, Queues
    <2>11. CASE w \in Rqs
      <3>1. call'[q] = <<"init", "DIS_SQ">>
        BY <1>4, <2>w, <2>11 DEF QpInit, VerbType
      <3>2. thread'[Rq(q)] = thread[Rq(q)] + 1 /\ thread'[Sq(q)] = thread[Sq(q)]
        BY <2>2, <2>8, <2>11, Queues
      <3>3. RtrInv'
        BY <2>2, <2>10, <2>11, <3>1, <3>2, Calls DEF RtrInv
      <3> QED BY <2>9, <3>3
    <2>12. CASE w \notin Rqs
      <3>1. call'[q] = Idle
        BY <1>4, <2>w, <2>12 DEF QpInit, VerbType
      <3>2. thread'[Rq(q)] = thread[Rq(q)] /\ thread'[Sq(q)] = thread[Sq(q)] + 1
        BY <2>2, <2>8, <2>12, Queues
      <3>3. RtrInv'
        BY <2>2, <2>10, <2>12, <3>1, <3>2, Calls DEF RtrInv
      <3> QED BY <2>9, <3>3
    <2> QED BY <2>11, <2>12
  <1>5. ASSUME NEW q \in Qps, QpExitNothing(q) \/ QpExitJoin(q) PROVE ThreadType' /\ RtrInv'
    <2>1. /\ call' \in {[call EXCEPT ![q] = <<"exit", "DIS_SQ">>], [call EXCEPT ![q] = Idle]}
          /\ UNCHANGED threads /\ call[q][1] \in {"exit", "join"}
      BY <1>5 DEF QpExitNothing, QpExitSkips, QpExitJoin, ExitReturns
    <2>2. UNCHANGED thread
      BY <2>1 DEF threads
    <2>3. /\ \A p \in Qps : p # q => call'[p] = call[p]
          /\ call'[q][1] # "init"
      BY <2>1, Calls DEF VerbType
    <2>4. thread[Rq(q)] = thread[Sq(q)]
      BY <2>1, Calls DEF RtrInv
    <2>5. RtrInv'
      BY <2>2, <2>3, <2>4, Calls DEF RtrInv
    <2> QED BY <1>0, <2>1, <2>5
  <1>6. ASSUME NEW q \in Qps, QpExitStop(q) PROVE ThreadType' /\ RtrInv'
    <2>1. /\ call' = [call EXCEPT ![q][1] = "join"] /\ call[q][1] = "exit"
          /\ \E j : stop' = [stop EXCEPT ![At(q)][j] = TRUE]
          /\ UNCHANGED <<wq_state, thread, pc>>
      BY <1>6 DEF QpExitStop
    <2>2. /\ \A p \in Qps : p # q => call'[p] = call[p]
          /\ call'[q][1] = "join"
      BY <2>1 DEF VerbType
    <2>3. thread[Rq(q)] = thread[Sq(q)]
      BY <2>1, Calls DEF RtrInv
    <2>4. RtrInv'
      BY <2>1, <2>2, <2>3, Calls DEF RtrInv
    <2>5. stop' \in [Wqs -> [Workers -> BOOLEAN]]
      <3>1. PICK j : stop' = [stop EXCEPT ![At(q)][j] = TRUE]
        BY <2>1
      <3>2. At(q) \in Wqs
        BY AtQueue DEF VerbType
      <3>3. stop[At(q)] \in [Workers -> BOOLEAN]
        BY <3>2 DEF ThreadType
      <3>4. [stop[At(q)] EXCEPT ![j] = TRUE] \in [Workers -> BOOLEAN]
        BY <3>3
      <3> QED BY <3>1, <3>2, <3>4 DEF ThreadType
    <2>6. ThreadType'
      BY <2>1, <2>5 DEF ThreadType
    <2> QED BY <2>4, <2>6
  <1>7. ASSUME NEW w \in Wqs, NEW k \in Workers, Worker(w, k) \/ SendMsg(w, k)
        PROVE ThreadType' /\ RtrInv'
    <2>1. UNCHANGED <<thread, call>>
      BY <1>7 DEF Worker, ThreadNeverRuns, ThreadStart, CreateMsq, ConnectMsq, InitStopped,
         ReceiveMsg, Received, ThreadStops, SendMsg, Sending, verbs, threads
    <2>2. CASE ReceiveMsg(w, k) \/ SendMsg(w, k)
      BY <1>0, <2>1, <2>2 DEF ReceiveMsg, Received, SendMsg, Sending
    <2>3. ASSUME NEW x \in Places, pc' = [pc EXCEPT ![w][k] = x],
                 NEW y \in {"RUNNING", "EXITED"},
                 wq_state' \in {wq_state, [wq_state EXCEPT ![w] = y]}, UNCHANGED stop
          PROVE  ThreadType' /\ RtrInv'
      <3>1. pc' \in [Wqs -> [Workers -> Places]]
        BY <2>3 DEF ThreadType
      <3>2. ThreadType'
        BY <2>1, <2>3, <3>1 DEF ThreadType
      <3> QED BY <1>0, <2>1, <3>2
    <2>4. "init" \in Places /\ "run" \in Places /\ "dead" \in Places
      BY DEF Places
    <2>5. CASE ThreadNeverRuns(w, k)
      BY <2>3, <2>4, <2>5 DEF ThreadNeverRuns
    <2>6. CASE ThreadStart(w, k)
      BY <2>3, <2>4, <2>6 DEF ThreadStart
    <2>7. CASE InitStopped(w, k)
      BY <2>3, <2>4, <2>7 DEF InitStopped
    <2>8. CASE CreateMsq(w, k) \/ ConnectMsq(w, k)
      BY <2>3, <2>4, <2>8 DEF CreateMsq, ConnectMsq
    <2>9. CASE ThreadStops(w, k)
      BY <2>3, <2>4, <2>9 DEF ThreadStops
    <2> QED BY <1>7, <2>2, <2>5, <2>6, <2>7, <2>8, <2>9 DEF Worker
  <1>8. CASE UNCHANGED vars
    BY <1>0, <1>8 DEF vars, verbs, threads
  <1> QED BY <1>1, <1>2, <1>3, <1>4, <1>5, <1>6, <1>7, <1>8 DEF Next, Verb

\* The library's variables.
LEMMA MsqStep == PairInv /\ MsqType /\ [Next]_vars => MsqType'
  <1> SUFFICES ASSUME PairInv, MsqType, [Next]_vars PROVE MsqType'
    OBVIOUS
  <1>0. UNCHANGED msqs => MsqType'
    BY TypeFrames
  <1>1. open' \subseteq Rqs /\ conn' \in [Sqs -> Rqs \cup {NoWq}]
    BY PairStep DEF PairInv
  <1>2. ASSUME UNCHANGED <<inq, sent, received>> PROVE MsqType'
    BY <1>1, <1>2 DEF MsqType
  <1>3. ASSUME NEW w \in Wqs, NEW k \in Workers, SendMsg(w, k) PROVE MsqType'
    <2> DEFINE r == conn[w]
               m == [from |-> w.qp, no |-> sent[w] + 1]
    <2>1. /\ w \in Sqs /\ r # NoWq /\ sent[w] < MaxMsgs
          /\ inq' = [inq EXCEPT ![r] = Append(@, m)]
          /\ sent' = [sent EXCEPT ![w] = @ + 1]
          /\ UNCHANGED received
      BY <1>3 DEF SendMsg, Sending
    <2>2. sent[w] \in 0..MaxMsgs /\ r \in Rqs
      BY <2>1 DEF MsqType
    <2>3. sent[w] + 1 \in 1..MaxMsgs /\ sent[w] + 1 \in 0..MaxMsgs
      BY <2>1, <2>2, LinkAssumption
    <2>4. m \in Message
      BY <2>3, Queues DEF Message
    <2>5. Append(inq[r], m) \in Seq(Message)
      BY <2>2, <2>4, AppendProperties DEF MsqType
    <2> QED BY <1>1, <2>1, <2>3, <2>5 DEF MsqType
  <1>4. ASSUME NEW w \in Wqs, NEW k \in Workers, ReceiveMsg(w, k) PROVE MsqType'
    <2>1. /\ w \in Rqs /\ inq[w] # <<>>
          /\ received' = [received EXCEPT ![w] = Append(@, Head(inq[w]))]
          /\ inq' = [inq EXCEPT ![w] = Tail(@)]
          /\ UNCHANGED sent
      BY <1>4 DEF ReceiveMsg, Receiving, Received
    <2>2. inq[w] \in Seq(Message) /\ received[w] \in Seq(Message)
      BY <2>1 DEF MsqType
    <2>3. Head(inq[w]) \in Message /\ Tail(inq[w]) \in Seq(Message)
      BY <2>1, <2>2, HeadTailProperties
    <2>4. Append(received[w], Head(inq[w])) \in Seq(Message)
      BY <2>2, <2>3, AppendProperties
    <2> QED BY <1>1, <2>1, <2>3, <2>4 DEF MsqType
  <1>5. ASSUME NEW w \in Wqs, NEW k \in Workers, ThreadStops(w, k) PROVE MsqType'
    <2>1. <<>> \in Seq(Message)
      BY EmptySeq
    <2>2. inq' \in {inq, [inq EXCEPT ![w] = <<>>]} /\ UNCHANGED <<sent, received>>
      BY <1>5 DEF ThreadStops
    <2> QED BY <1>1, <2>1, <2>2 DEF MsqType
  <1>6. ASSUME NEW w \in Wqs, NEW k \in Workers, Worker(w, k) PROVE MsqType'
    <2>1. CASE ThreadNeverRuns(w, k) \/ ThreadStart(w, k) \/ InitStopped(w, k)
      BY <1>0, <2>1 DEF ThreadNeverRuns, ThreadStart, InitStopped
    <2>2. CASE CreateMsq(w, k) \/ ConnectMsq(w, k)
      BY <1>2, <2>2 DEF CreateMsq, ConnectMsq
    <2> QED BY <1>4, <1>5, <1>6, <2>1, <2>2 DEF Worker
  <1> QED BY <1>0, <1>3, <1>6 DEF Next, Verb, CreateQp, NewQp, ModifyQp, ModifyRtr, DestroyQp,
          QpInit, QpExitNothing, QpExitSkips, QpExitStop, QpExitJoin, vars

\* Every variable has its type: queue pair numbers stay within pd->qp_list and
\* each move to RTR starts at most one worker on each queue.
THEOREM LinkTypeCorrect == Spec => []TypeOK
  <1>1. VerbType /\ ThreadType /\ MsqType => TypeOK
    BY DEF VerbType, ThreadType, MsqType, TypeOK, Message, Places
  <1> QED BY <1>1, PairInit, PairStep, TypeInit, VerbStep, ThreadStep, MsqStep, PTL DEF Spec

-----------------------------------------------------------------------------
(* What is called and stopped.                                             *)

\* A number is used once, and a queue pair that does not exist gets no call.
QpNamed(q) ==
  /\ qp_c[<<q.node, q.pd>>] <= q.qpn => state[q] = "none"
  /\ state[q] \in {"none", "destroyed"} => call[q] = Idle

NameInv == \A q \in Qps : QpNamed(q)

\* Only the worker a queue knows of is told to stop, and it has no successor.
Told(w, k) == k = thread[w] /\ Leaving(w.qp)
StopInv == \A w \in Wqs, k \in Workers : stop[w][k] => Told(w, k)

VerbInv == VerbType /\ ThreadType /\ RtrInv /\ NameInv /\ StopInv

\* No queue pair has been created.
LEMMA VerbInit == Init => VerbInv
  <1> SUFFICES ASSUME Init PROVE VerbInv
    OBVIOUS
  <1>1. NameInv
    BY DEF Init, NameInv, QpNamed
  <1>2. StopInv
    BY DEF Init, StopInv
  <1> QED BY <1>1, <1>2, TypeInit DEF VerbInv

\* dis_create_qp uses a number above those in use.
LEMMA CreateNames ==
    ASSUME VerbType, NameInv, NEW n \in Nodes, NEW d \in Pds, CreateQp(n, d)
    PROVE  /\ NameInv'
           /\ \A p \in Qps : state'[p] = state[p] \/ (state[p] = "none" /\ state'[p] = "RESET")
  <1> DEFINE q == [node |-> n, pd |-> d, qpn |-> qp_c[<<n, d>>]]
  <1>1. /\ qp_c' = [qp_c EXCEPT ![<<n, d>>] = @ + 1]
        /\ state' = [state EXCEPT ![q] = "RESET"]
        /\ UNCHANGED call
    BY DEF CreateQp, NewQp
  <1>2. qp_c[<<n, d>>] \in Nat /\ q.node = n /\ q.pd = d /\ q.qpn = qp_c[<<n, d>>]
    BY LinkAssumption DEF VerbType
  <1>3. \A p \in Qps : p # q => state'[p] = state[p]
    BY <1>1 DEF VerbType
  <1>4. q \in Qps => state[q] = "none" /\ call[q] = Idle /\ state'[q] = "RESET"
    <2>1. qp_c[<<q.node, q.pd>>] <= q.qpn
      BY <1>2
    <2> HIDE DEF q
    <2> QED BY <1>1, <2>1 DEF NameInv, QpNamed, VerbType
  <1>5. ASSUME NEW p \in Qps, qp_c'[<<p.node, p.pd>>] <= p.qpn PROVE state'[p] = "none"
    <2>1. p.node \in Nodes /\ p.pd \in Pds /\ p.qpn \in Nat
      BY LinkAssumption DEF Qps
    <2>2. qp_c[<<p.node, p.pd>>] \in Nat
      BY <2>1, LinkAssumption DEF VerbType
    <2>3. CASE p.node = n /\ p.pd = d
      <3>1. qp_c'[<<n, d>>] = qp_c[<<n, d>>] + 1
        BY <1>1 DEF VerbType
      <3>2. qp_c[<<n, d>>] + 1 <= p.qpn
        BY <1>5, <2>3, <3>1
      <3>3. qp_c[<<p.node, p.pd>>] <= p.qpn /\ p # q
        BY <1>2, <2>1, <2>3, <3>2
      <3> QED BY <1>3, <3>3 DEF NameInv, QpNamed
    <2>4. CASE ~(p.node = n /\ p.pd = d)
      <3>1. qp_c'[<<p.node, p.pd>>] = qp_c[<<p.node, p.pd>>] /\ p # q
        BY <1>1, <1>2, <2>1, <2>4 DEF VerbType
      <3> QED BY <1>3, <1>5, <3>1 DEF NameInv, QpNamed
    <2> QED BY <2>3, <2>4
  <1> HIDE DEF q
  <1>6. \A p \in Qps : state'[p] = state[p] \/ (state[p] = "none" /\ state'[p] = "RESET")
    BY <1>3, <1>4
  <1>7. NameInv'
    BY <1>1, <1>5, <1>6 DEF NameInv, QpNamed
  <1> QED BY <1>6, <1>7

\* The verbs other than dis_create_qp leave the other queue pairs alone.
LEMMA OneVerb ==
    ASSUME VerbType, NameInv, NEW q \in Qps,
           \A p \in Qps : p # q => state'[p] = state[p] /\ call'[p] = call[p],
           UNCHANGED qp_c, state[q] # "none", state'[q] # "none",
           state'[q] = "destroyed" => call'[q] = Idle
    PROVE  NameInv'
  BY DEF NameInv, QpNamed

\* What the call in progress changes of it.
LEMMA CallSteps ==
    ASSUME VerbType, NEW q \in Qps, NEW c, call' = [call EXCEPT ![q] = c]
    PROVE  call'[q] = c /\ \A p \in Qps : p # q => call'[p] = call[p]
  BY DEF VerbType

\* dis_qp_exit goes on to the send queue, or dis_destroy_qp frees the queue pair.
LEMMA ExitChanges ==
    ASSUME VerbType, NEW q \in Qps, ExitReturns(q)
    PROVE  /\ \A p \in Qps : p # q => state'[p] = state[p] /\ call'[p] = call[p]
           /\ \/ At(q) \in Rqs /\ call'[q] = <<"exit", "DIS_SQ">> /\ state'[q] = state[q]
              \/ At(q) \notin Rqs /\ call'[q] = Idle /\ state'[q] = "destroyed"
  <1>1. CASE At(q) \in Rqs
    BY <1>1, CallSteps DEF ExitReturns
  <1>2. CASE At(q) \notin Rqs
    <2>1. state' = [state EXCEPT ![q] = "destroyed"] /\ call' = [call EXCEPT ![q] = Idle]
      BY <1>2 DEF ExitReturns
    <2> QED BY <1>2, <2>1, CallSteps DEF VerbType
  <1> QED BY <1>1, <1>2

\* dis_qp_init goes on to the send queue, or the queue pair is at RTR.
LEMMA InitChanges ==
    ASSUME VerbType, NameInv, NEW q \in Qps, QpInit(q)
    PROVE  /\ \A p \in Qps : p # q => state'[p] = state[p] /\ call'[p] = call[p]
           /\ call[q][1] = "init" /\ call'[q] \in {<<"init", "DIS_SQ">>, Idle}
           /\ state[q] \notin {"none", "destroyed"} /\ state'[q] \notin {"none", "destroyed"}
  <1>1. call[q][1] = "init"
    BY DEF QpInit
  <1>2. state[q] \notin {"none", "destroyed"}
    BY <1>1, Calls DEF NameInv, QpNamed
  <1>3. CASE At(q) \in Rqs
    <2>1. UNCHANGED state /\ call' = [call EXCEPT ![q] = <<"init", "DIS_SQ">>]
      BY <1>3 DEF QpInit
    <2> QED BY <1>1, <1>2, <2>1, CallSteps
  <1>4. CASE At(q) \notin Rqs
    <2>1. state' = [state EXCEPT ![q] = "RTR"] /\ call' = [call EXCEPT ![q] = Idle]
      BY <1>4 DEF QpInit
    <2>2. state'[q] = "RTR" /\ \A p \in Qps : p # q => state'[p] = state[p]
      BY <2>1 DEF VerbType
    <2> QED BY <1>1, <1>2, <2>1, <2>2, CallSteps
  <1> QED BY <1>3, <1>4

\* dis_qp_exit has told a worker to stop and waits for it.
LEMMA StopCalls ==
    ASSUME VerbType, NEW q \in Qps, QpExitStop(q)
    PROVE  /\ call'[q] = <<"join", call[q][2]>> /\ call[q] = <<"exit", call[q][2]>>
           /\ \A p \in Qps : p # q => call'[p] = call[p]
           /\ UNCHANGED <<qp_c, state, wq_state, thread, pc, open, conn, inq, sent, received>>
  <1>1. /\ call' = [call EXCEPT ![q][1] = "join"] /\ call[q][1] = "exit"
        /\ UNCHANGED <<qp_c, state, wq_state, thread, pc, msqs>>
    BY DEF QpExitStop
  <1>2. call[q] = <<call[q][1], call[q][2]>>
    BY DEF VerbType
  <1>3. [call[q] EXCEPT ![1] = "join"] = <<"join", call[q][2]>>
    BY <1>2
  <1>4. call'[q] = <<"join", call[q][2]>> /\ \A p \in Qps : p # q => call'[p] = call[p]
    BY <1>1, <1>3 DEF VerbType
  <1> QED BY <1>1, <1>2, <1>4 DEF msqs

\* kthread_stop is called on the worker the queue knows of.
LEMMA StopChanges ==
    ASSUME VerbType, ThreadType, NEW q \in Qps, QpExitStop(q)
    PROVE  /\ At(q) \in Wqs /\ At(q).qp = q
           /\ wq_state[At(q)] \notin {"UNINITIALIZED", "EXITED"}
           /\ \A v \in Wqs, j \in Workers :
                IF v = At(q) /\ j = thread[v] THEN stop'[v][j] ELSE stop'[v][j] = stop[v][j]
  <1>1. /\ stop' = [stop EXCEPT ![At(q)][thread[At(q)]] = TRUE]
        /\ wq_state[At(q)] \notin {"UNINITIALIZED", "EXITED"}
    BY DEF QpExitStop
  <1>2. At(q) \in Wqs /\ At(q).qp = q
    BY AtQueue DEF VerbType
  <1>3. \A v \in Wqs, j \in Workers :
          IF v = At(q) /\ j = thread[v] THEN stop'[v][j] ELSE stop'[v][j] = stop[v][j]
    BY <1>1, <1>2 DEF ThreadType
  <1> QED BY <1>1, <1>2, <1>3

\* No verb is called on a queue pair that does not exist.
LEMMA NameStep == VerbType /\ ThreadType /\ NameInv /\ [Next]_vars => NameInv'
  <1> SUFFICES ASSUME VerbType, ThreadType, NameInv, [Next]_vars PROVE NameInv'
    OBVIOUS
  <1>0. UNCHANGED verbs => NameInv'
    BY DEF verbs, NameInv, QpNamed
  <1>1. ASSUME NEW n \in Nodes, NEW d \in Pds, CreateQp(n, d) PROVE NameInv'
    BY <1>1, CreateNames
  <1>2. ASSUME NEW q \in Qps, NEW s \in QpStates, ModifyQp(q, s) PROVE NameInv'
    <2>1. /\ state' = [state EXCEPT ![q] = s] /\ Exists(q)
          /\ UNCHANGED <<qp_c, call>> /\ s \in {"RESET", "INIT", "RTS"}
      BY <1>2, LinkAssumption DEF ModifyQp
    <2>2. state'[q] = s /\ \A p \in Qps : p # q => state'[p] = state[p]
      BY <2>1 DEF VerbType
    <2> QED BY <2>1, <2>2, OneVerb DEF Exists
  <1>3. ASSUME NEW q \in Qps, ModifyRtr(q) \/ DestroyQp(q) PROVE NameInv'
    <2>1. /\ \E c : call' = [call EXCEPT ![q] = c]
          /\ Exists(q) /\ UNCHANGED <<qp_c, state>>
      BY <1>3 DEF ModifyRtr, DestroyQp
    <2> QED BY <2>1, CallSteps, OneVerb DEF Exists
  <1>4. ASSUME NEW q \in Qps, QpInit(q) PROVE NameInv'
    <2>1. UNCHANGED qp_c
      BY <1>4 DEF QpInit
    <2> QED BY <1>4, <2>1, InitChanges, OneVerb
  <1>5. ASSUME NEW q \in Qps, QpExitNothing(q) \/ QpExitJoin(q) PROVE NameInv'
    <2>1. ExitReturns(q) /\ call[q][1] \in {"exit", "join"} /\ UNCHANGED qp_c
      BY <1>5 DEF QpExitNothing, QpExitSkips, QpExitJoin
    <2>2. state[q] \notin {"none", "destroyed"}
      BY <2>1, Calls DEF NameInv, QpNamed
    <2>3. ExitReturns(q) => state'[q] # "none" /\ (state'[q] = "destroyed" => call'[q] = Idle)
      BY <2>2, ExitChanges
    <2> QED BY <2>1, <2>2, <2>3, ExitChanges, OneVerb
  <1>6. ASSUME NEW q \in Qps, QpExitStop(q) PROVE NameInv'
    <2>1. call[q][1] = "exit" /\ UNCHANGED <<qp_c, state>>
      BY <1>6 DEF QpExitStop
    <2>2. state[q] \notin {"none", "destroyed"}
      BY <2>1, Calls DEF NameInv, QpNamed
    <2>3. \A p \in Qps : p # q => call'[p] = call[p]
      BY <1>6, StopCalls
    <2> QED BY <2>1, <2>2, <2>3, OneVerb
  <1>7. ASSUME NEW w \in Wqs, NEW k \in Workers, Worker(w, k) \/ SendMsg(w, k) PROVE NameInv'
    BY <1>0, <1>7 DEF Worker, ThreadNeverRuns, ThreadStart, CreateMsq, ConnectMsq, InitStopped,
       ReceiveMsg, Received, ThreadStops, SendMsg, Sending
  <1>8. CASE UNCHANGED vars
    BY <1>0, <1>8 DEF vars
  <1> QED BY <1>1, <1>2, <1>3, <1>4, <1>5, <1>6, <1>7, <1>8 DEF Next, Verb

\* A queue pair that is leaving starts no worker and stays so.
LEMMA LeavingStays ==
    ASSUME NEW q \in Qps, Leaving(q),
           \A p \in Qps : p # q => state'[p] = state[p] /\ call'[p] = call[p],
           state'[q] = "destroyed" \/ call'[q][1] \in {"exit", "join"},
           UNCHANGED <<thread, stop>>, StopInv
    PROVE  StopInv'
  <1>1. \A p \in Qps : Leaving(p) => Leaving(p)'
    BY DEF Leaving
  <1> QED BY <1>1, Queues DEF StopInv, Told

\* No worker is stopped but by dis_destroy_qp.
LEMMA StopStep ==
    VerbType /\ ThreadType /\ RtrInv /\ NameInv /\ StopInv /\ [Next]_vars => StopInv'
  <1> SUFFICES ASSUME VerbType, ThreadType, RtrInv, NameInv, StopInv, [Next]_vars PROVE StopInv'
    OBVIOUS
  <1>0. ASSUME UNCHANGED <<thread, stop>>, \A p \in Qps : Leaving(p) => Leaving(p)'
        PROVE  StopInv'
    BY <1>0, Queues DEF StopInv, Told
  <1>1. ASSUME NEW n \in Nodes, NEW d \in Pds, CreateQp(n, d) PROVE StopInv'
    <2>1. UNCHANGED <<call, thread, stop>>
      BY <1>1 DEF CreateQp, NewQp, threads
    <2>2. \A p \in Qps : state[p] = "destroyed" => state'[p] = "destroyed"
      BY <1>1, CreateNames
    <2> QED BY <1>0, <2>1, <2>2 DEF Leaving
  <1>2. ASSUME NEW q \in Qps, NEW s \in QpStates, ModifyQp(q, s) PROVE StopInv'
    <2>1. /\ state' = [state EXCEPT ![q] = s] /\ Exists(q)
          /\ UNCHANGED <<call, thread, stop>>
      BY <1>2 DEF ModifyQp, threads
    <2>2. \A p \in Qps : state[p] = "destroyed" => state'[p] = "destroyed"
      BY <2>1 DEF VerbType, Exists
    <2> QED BY <1>0, <2>1, <2>2 DEF Leaving
  <1>3. ASSUME NEW q \in Qps, ModifyRtr(q) \/ DestroyQp(q) PROVE StopInv'
    <2>1. /\ \E c : call' = [call EXCEPT ![q] = c]
          /\ call[q] = Idle /\ Exists(q) /\ UNCHANGED <<state, thread, stop>>
      BY <1>3 DEF ModifyRtr, DestroyQp, threads
    <2>2. ~Leaving(q)
      BY <2>1, Calls DEF Leaving, Exists
    <2>3. \A p \in Qps : Leaving(p) => Leaving(p)'
      BY <2>1, <2>2, CallSteps DEF Leaving
    <2> QED BY <1>0, <2>1, <2>3
  <1>4. ASSUME NEW q \in Qps, QpInit(q) PROVE StopInv'
    <2>1. thread' = [thread EXCEPT ![At(q)] = @ + 1] /\ UNCHANGED stop
      BY <1>4 DEF QpInit
    <2>2. ~Leaving(q)
      BY <1>4, InitChanges DEF Leaving
    <2>3. \A p \in Qps : Leaving(p) => Leaving(p)'
      BY <1>4, <2>2, InitChanges DEF Leaving
    <2>4. \A w \in Wqs : w.qp # q => thread'[w] = thread[w]
      BY <1>4, <2>1, NextWorker DEF ThreadType
    <2> QED BY <2>1, <2>2, <2>3, <2>4, Queues DEF StopInv, Told
  <1>5. ASSUME NEW q \in Qps, QpExitNothing(q) \/ QpExitJoin(q) PROVE StopInv'
    <2>1. ExitReturns(q) /\ UNCHANGED <<thread, stop>> /\ call[q][1] \in {"exit", "join"}
      BY <1>5 DEF QpExitNothing, QpExitSkips, QpExitJoin, threads
    <2>2. state'[q] = "destroyed" \/ call'[q][1] \in {"exit", "join"}
      BY <2>1, ExitChanges
    <2> QED BY <2>1, <2>2, ExitChanges, LeavingStays DEF Leaving
  <1>6. ASSUME NEW q \in Qps, QpExitStop(q) PROVE StopInv'
    <2>2. /\ call'[q][1] = "join" /\ \A p \in Qps : p # q => call'[p] = call[p]
          /\ UNCHANGED <<state, thread>>
      BY <1>6, StopCalls
    <2>3. Leaving(q)'
      BY <2>2 DEF Leaving
    <2>4. \A p \in Qps : Leaving(p) => Leaving(p)'
      BY <2>2 DEF Leaving
    <2>5. /\ At(q).qp = q
          /\ \A v \in Wqs, j \in Workers :
               stop'[v][j] => stop[v][j] \/ (v = At(q) /\ j = thread[v])
      BY <1>6, StopChanges
    <2> QED BY <2>2, <2>3, <2>4, <2>5, Queues DEF StopInv, Told
  <1>7. ASSUME NEW w \in Wqs, NEW k \in Workers, Worker(w, k) \/ SendMsg(w, k) PROVE StopInv'
    <2>1. UNCHANGED <<state, call, thread, stop>>
      BY <1>7 DEF Worker, ThreadNeverRuns, ThreadStart, CreateMsq, ConnectMsq, InitStopped,
         ReceiveMsg, Received, ThreadStops, SendMsg, Sending, verbs, threads
    <2> QED BY <1>0, <2>1 DEF Leaving
  <1>8. CASE UNCHANGED vars
    BY <1>0, <1>8 DEF vars, verbs, threads, Leaving
  <1> QED BY <1>1, <1>2, <1>3, <1>4, <1>5, <1>6, <1>7, <1>8 DEF Next, Verb

LEMMA VerbInvStep == VerbInv /\ [Next]_vars => VerbInv'
  BY VerbStep, ThreadStep, NameStep, StopStep DEF VerbInv

-----------------------------------------------------------------------------
(* Workers.                                                                *)

\* The worker the queue knows of, if it has had one, has ended.
Ended(w) == thread[w] # 0 => pc[w][thread[w]] = "dead"

\* wq_state tells the queues that have had a worker and those whose last worker has
\* ended; a queue that had one at most has a message queue or a connection only
\* while that runs.
WorkerInv ==
  /\ \A w \in Wqs :
       /\ \A k \in Workers : pc[w][k] = "none" <=> k > thread[w]
       /\ wq_state[w] = "UNINITIALIZED" <=> thread[w] = 0
       /\ wq_state[w] = "EXITED" => Ended(w)
  /\ \A r \in open : thread[r] <= 1 => pc[r][1] = "run"
  /\ \A s \in Sqs : conn[s] # NoWq =>
       /\ thread[s] <= 1 => pc[s][1] = "run"
       /\ conn[s] \in open

\* What it speaks of.
workVars == <<wq_state, thread, pc, open, conn>>

\* A worker's step changes the place of that worker only.
LEMMA PcStep ==
    ASSUME ThreadType, NEW w \in Wqs, NEW k \in Workers, NEW x \in Places,
           pc' = [pc EXCEPT ![w][k] = x]
    PROVE  /\ pc'[w][k] = x
           /\ \A j \in Workers : j # k => pc'[w][j] = pc[w][j]
           /\ \A v \in Wqs : v # w => pc'[v] = pc[v]
  BY DEF ThreadType

\* The only worker of a queue is the first.
LEMMA TheWorker ==
    ASSUME ThreadType, WorkerInv, NEW w \in Wqs, NEW k \in Workers, pc[w][k] # "none"
    PROVE  thread[w] # 0 /\ k <= thread[w] /\ (thread[w] <= 1 => k = 1 /\ thread[w] = 1)
  <1>1. k \in Nat /\ k >= 1 /\ thread[w] \in Nat
    BY LinkAssumption DEF Workers, ThreadType
  <1>2. ~(k > thread[w])
    BY DEF WorkerInv
  <1> QED BY <1>1, <1>2

\* A queue that has had a worker knows the last.
LEMMA LastWorker ==
    ASSUME ThreadType, NEW w \in Wqs, thread[w] # 0
    PROVE  thread[w] \in Workers
  BY LinkAssumption DEF ThreadType, Workers

\* No worker has been created.
LEMMA WorkerInit == Init => WorkerInv
  <1> SUFFICES ASSUME Init PROVE WorkerInv
    OBVIOUS
  <1>1. \A w \in Wqs, k \in Workers : pc[w][k] = "none" /\ thread[w] = 0 /\ k > 0
    BY LinkAssumption DEF Init, Workers
  <1>2. \A w \in Wqs : wq_state[w] = "UNINITIALIZED" /\ thread[w] = 0
    BY DEF Init
  <1> QED BY <1>1, <1>2 DEF Init, WorkerInv

\* dis_qp_init starts one worker and leaves the other queues alone.
LEMMA InitStarts ==
    ASSUME VerbInv, WorkerInv, NEW q \in Qps, QpInit(q), NEW w, w = At(q)
    PROVE  /\ w \in Wqs /\ w.qp = q /\ thread[w] + 1 \in Workers
           /\ thread'[w] = thread[w] + 1 /\ thread[w] \in Nat
           /\ pc[w][thread[w] + 1] = "none" /\ pc'[w][thread[w] + 1] = "created"
           /\ \A j \in Workers : j # thread[w] + 1 => pc'[w][j] = pc[w][j]
           /\ wq_state'[w] = "INITIALIZED" /\ wq_state[w] # "EXITED"
           /\ \A v \in Wqs : v # w =>
                pc'[v] = pc[v] /\ thread'[v] = thread[v] /\ wq_state'[v] = wq_state[v]
           /\ UNCHANGED <<stop, open, conn, inq, sent, received>>
  <1>1. /\ wq_state' = [wq_state EXCEPT ![w] = "INITIALIZED"]
        /\ thread' = [thread EXCEPT ![w] = @ + 1]
        /\ pc' = [pc EXCEPT ![w][thread[w] + 1] = "created"]
        /\ UNCHANGED <<stop, open, conn, inq, sent, received>> /\ wq_state[w] # "EXITED"
    BY DEF QpInit, msqs
  <1>2. w \in Wqs /\ w.qp = q /\ thread[w] + 1 \in Workers
    BY NextWorker DEF VerbInv
  <1>3. thread[w] \in Nat
    BY <1>2, LinkAssumption DEF VerbInv, ThreadType
  <1>4. pc[w][thread[w] + 1] = "none"
    BY <1>2, <1>3 DEF WorkerInv
  <1>5. /\ pc'[w][thread[w] + 1] = "created"
        /\ \A j \in Workers : j # thread[w] + 1 => pc'[w][j] = pc[w][j]
        /\ \A v \in Wqs : v # w => pc'[v] = pc[v]
    <2>1. "created" \in Places
      BY DEF Places
    <2> QED BY <1>1, <1>2, <2>1, PcStep DEF VerbInv
  <1>6. thread'[w] = thread[w] + 1 /\ \A v \in Wqs : v # w => thread'[v] = thread[v]
    BY <1>1, <1>2 DEF VerbInv, ThreadType
  <1>7. wq_state'[w] = "INITIALIZED" /\ \A v \in Wqs : v # w => wq_state'[v] = wq_state[v]
    BY <1>1, <1>2 DEF VerbInv, ThreadType
  <1> QED BY <1>1, <1>2, <1>3, <1>4, <1>5, <1>6, <1>7

\* A worker that moves on changes its own queue only.
LEMMA MovesOn ==
    ASSUME ThreadType, WorkerInv, NEW w \in Wqs, NEW k \in Workers,
           pc[w][k] \in {"created", "init", "run"}, NEW x \in {"init", "run", "dead"},
           pc' = [pc EXCEPT ![w][k] = x], UNCHANGED thread,
           wq_state' = wq_state \/ wq_state' = [wq_state EXCEPT ![w] = "RUNNING"]
             \/ (wq_state' = [wq_state EXCEPT ![w] = "EXITED"] /\ x = "dead" /\ k = thread[w])
    PROVE  /\ pc'[w][k] = x
           /\ \A j \in Workers : j # k => pc'[w][j] = pc[w][j]
           /\ \A v \in Wqs : v # w => pc'[v] = pc[v]
           /\ \A v \in Wqs :
                /\ \A j \in Workers : pc'[v][j] = "none" <=> j > thread'[v]
                /\ wq_state'[v] = "UNINITIALIZED" <=> thread'[v] = 0
                /\ wq_state'[v] = "EXITED" => Ended(v)'
  <1>1. /\ pc'[w][k] = x
        /\ \A j \in Workers : j # k => pc'[w][j] = pc[w][j]
        /\ \A v \in Wqs : v # w => pc'[v] = pc[v]
    <2>1. x \in Places
      BY DEF Places
    <2> QED BY <2>1, PcStep
  <1>2. thread[w] # 0 /\ k <= thread[w]
    BY TheWorker
  <1>3. thread[w] \in Workers
    BY <1>2, LastWorker
  <1>4. \A v \in Wqs, j \in Workers : pc'[v][j] = "none" <=> j > thread'[v]
    <2>1. \A v \in Wqs, j \in Workers : pc'[v][j] = "none" <=> pc[v][j] = "none"
      BY <1>1
    <2> QED BY <2>1 DEF WorkerInv
  <1>5. \A v \in Wqs : v # w => wq_state'[v] = wq_state[v]
    BY DEF ThreadType
  <1>6. \/ wq_state'[w] = wq_state[w] \/ wq_state'[w] = "RUNNING"
        \/ wq_state'[w] = "EXITED" /\ x = "dead" /\ k = thread[w]
    BY DEF ThreadType
  <1>7. \A v \in Wqs : wq_state'[v] = "UNINITIALIZED" <=> thread'[v] = 0
    BY <1>2, <1>5, <1>6 DEF WorkerInv
  <1>8. ASSUME NEW v \in Wqs, wq_state'[v] = "EXITED" PROVE Ended(v)'
    <2>1. CASE v # w
      BY <1>1, <1>5, <1>8, <2>1 DEF WorkerInv, Ended
    <2>2. CASE v = w /\ wq_state[w] = "EXITED"
      <3>1. pc[w][thread[w]] = "dead" /\ thread[w] # k
        BY <1>2, <2>2 DEF WorkerInv, Ended
      <3> QED BY <1>1, <1>3, <2>2, <3>1 DEF Ended
    <2>3. CASE v = w /\ wq_state[w] # "EXITED"
      BY <1>1, <1>6, <1>8, <2>3 DEF Ended
    <2> QED BY <2>1, <2>2, <2>3
  <1> QED BY <1>1, <1>4, <1>7, <1>8

\* The steps of the verbs and of the threads keep it.
LEMMA WorkerStep == VerbInv /\ PairInv /\ WorkerInv /\ [Next]_vars => WorkerInv'
  <1> SUFFICES ASSUME VerbInv, PairInv, WorkerInv, [Next]_vars PROVE WorkerInv'
    OBVIOUS
  <1>0. UNCHANGED workVars => WorkerInv'
    BY DEF workVars, WorkerInv, Ended
  <1>t. ThreadType
    BY DEF VerbInv
  <1>1. ASSUME NEW n \in Nodes, NEW d \in Pds, CreateQp(n, d) PROVE WorkerInv'
    BY <1>0, <1>1 DEF CreateQp, NewQp, msqs, threads, workVars
  <1>2. ASSUME NEW q \in Qps, NEW s \in QpStates, ModifyQp(q, s) PROVE WorkerInv'
    BY <1>0, <1>2 DEF ModifyQp, msqs, threads, workVars
  <1>3. ASSUME NEW q \in Qps, ModifyRtr(q) \/ DestroyQp(q) PROVE WorkerInv'
    BY <1>0, <1>3 DEF ModifyRtr, DestroyQp, msqs, threads, workVars
  <1>4. ASSUME NEW q \in Qps, QpInit(q) PROVE WorkerInv'
    <2>w. PICK w : w = At(q)
      OBVIOUS
    <2>1. /\ w \in Wqs /\ thread[w] + 1 \in Workers
          /\ thread'[w] = thread[w] + 1 /\ thread[w] \in Nat
          /\ pc[w][thread[w] + 1] = "none" /\ pc'[w][thread[w] + 1] = "created"
          /\ \A j \in Workers : j # thread[w] + 1 => pc'[w][j] = pc[w][j]
          /\ wq_state'[w] = "INITIALIZED"
          /\ \A v \in Wqs : v # w =>
               pc'[v] = pc[v] /\ thread'[v] = thread[v] /\ wq_state'[v] = wq_state[v]
          /\ UNCHANGED <<open, conn>>
      BY <1>4, <2>w, InitStarts
    <2>2. \A j \in Workers : pc'[w][j] = "none" <=> j > thread'[w]
      <3>1. \A j \in Workers : j \in Nat
        BY LinkAssumption DEF Workers
      <3>2. \A j \in Workers : pc[w][j] = "none" <=> j > thread[w]
        BY <2>1 DEF WorkerInv
      <3> QED BY <2>1, <3>1, <3>2
    <2>3. \A v \in Wqs :
            /\ \A j \in Workers : pc'[v][j] = "none" <=> j > thread'[v]
            /\ wq_state'[v] = "UNINITIALIZED" <=> thread'[v] = 0
            /\ wq_state'[v] = "EXITED" => Ended(v)'
      <3>1. ASSUME NEW v \in Wqs, v # w
            PROVE  /\ \A j \in Workers : pc'[v][j] = "none" <=> j > thread'[v]
                   /\ wq_state'[v] = "UNINITIALIZED" <=> thread'[v] = 0
                   /\ wq_state'[v] = "EXITED" => Ended(v)'
        BY <2>1, <3>1 DEF WorkerInv, Ended
      <3> QED BY <2>1, <2>2, <3>1
    <2>4. \A v \in Wqs : v # w \/ thread'[v] > 1 \/ pc[v][1] = "none"
      BY <2>1
    <2>5. \A v \in Wqs : thread[v] \in Nat /\ thread'[v] \in Nat
      BY <1>t, <2>1, LinkAssumption DEF ThreadType
    <2>6. \A v \in Wqs : thread'[v] <= 1 /\ pc[v][1] = "run" => pc'[v][1] = "run"
      BY <2>1, <2>4, <2>5
    <2>7. \A v \in Wqs : thread'[v] <= 1 => thread[v] <= 1
      BY <2>1, <2>5
    <2>8. \A r \in open : r \in Wqs
      BY Queues DEF PairInv
    <2> QED BY <2>1, <2>3, <2>6, <2>7, <2>8, Queues DEF WorkerInv
  <1>5. ASSUME NEW q \in Qps, QpExitNothing(q) \/ QpExitStop(q) \/ QpExitJoin(q)
        PROVE WorkerInv'
    BY <1>0, <1>5 DEF QpExitNothing, QpExitSkips, QpExitStop, QpExitJoin, msqs, threads, workVars
  <1>6. ASSUME NEW w \in Wqs, NEW k \in Workers, Worker(w, k) \/ SendMsg(w, k) PROVE WorkerInv'
    <2>k. pc[w][k] # "none" /\ thread[w] <= 1 => k = 1
      BY <1>t, TheWorker
    <2>s. stop[w][k] => k = thread[w]
      BY DEF VerbInv, StopInv, Told
    <2>o. \A r \in open : r \in Wqs
      BY Queues DEF PairInv
    <2>1. CASE ReceiveMsg(w, k) \/ SendMsg(w, k)
      BY <1>0, <2>1 DEF ReceiveMsg, Received, SendMsg, Sending, threads, workVars
    <2>2. CASE ThreadNeverRuns(w, k) \/ ThreadStart(w, k) \/ InitStopped(w, k)
      <3>1. UNCHANGED <<thread, open, conn>> /\ pc[w][k] \in {"created", "init"}
        BY <2>2 DEF ThreadNeverRuns, ThreadStart, InitStopped, msqs
      <3>p. PICK x \in {"init", "dead"} :
              /\ pc' = [pc EXCEPT ![w][k] = x]
              /\ \/ wq_state' = wq_state \/ wq_state' = [wq_state EXCEPT ![w] = "RUNNING"]
                 \/ wq_state' = [wq_state EXCEPT ![w] = "EXITED"] /\ x = "dead"
                      /\ k = thread[w]
        BY <2>2, <2>s DEF ThreadNeverRuns, ThreadStart, InitStopped
      <3>2. /\ \A j \in Workers : j # k => pc'[w][j] = pc[w][j]
            /\ \A v \in Wqs : v # w => pc'[v] = pc[v]
            /\ \A v \in Wqs :
                 /\ \A j \in Workers : pc'[v][j] = "none" <=> j > thread'[v]
                 /\ wq_state'[v] = "UNINITIALIZED" <=> thread'[v] = 0
                 /\ wq_state'[v] = "EXITED" => Ended(v)'
        <4>1. pc[w][k] \in {"created", "init", "run"} /\ x \in {"init", "run", "dead"}
          BY <3>1
        <4>2. UNCHANGED thread
          BY <3>1
        <4> QED BY <1>t, <3>p, <4>1, <4>2, MovesOn
      <3>3. \A v \in Wqs : pc[v][1] = "run" => pc'[v][1] = "run"
        BY <3>1, <3>2, OneWorker
      <3> QED BY <2>o, <3>1, <3>2, <3>3, Queues DEF WorkerInv
    <2>3. CASE CreateMsq(w, k) \/ ConnectMsq(w, k)
      <3>1. /\ UNCHANGED <<thread, wq_state>> /\ pc[w][k] = "init"
            /\ pc' = [pc EXCEPT ![w][k] = "run"]
        BY <2>3 DEF CreateMsq, ConnectMsq
      <3>2. /\ pc'[w][k] = "run"
            /\ \A j \in Workers : j # k => pc'[w][j] = pc[w][j]
            /\ \A v \in Wqs : v # w => pc'[v] = pc[v]
            /\ \A v \in Wqs :
                 /\ \A j \in Workers : pc'[v][j] = "none" <=> j > thread'[v]
                 /\ wq_state'[v] = "UNINITIALIZED" <=> thread'[v] = 0
                 /\ wq_state'[v] = "EXITED" => Ended(v)'
        BY <1>t, <3>1, MovesOn
      <3>3. \A v \in Wqs : pc[v][1] = "run" => pc'[v][1] = "run"
        BY <3>1, <3>2, OneWorker
      <3>4. thread[w] <= 1 => pc'[w][1] = "run"
        BY <2>k, <3>1, <3>2
      <3>5. CASE CreateMsq(w, k)
        <4>1. open' = open \cup {w} /\ UNCHANGED conn
          BY <3>5 DEF CreateMsq
        <4> QED BY <2>o, <3>1, <3>2, <3>3, <3>4, <4>1, Queues DEF WorkerInv
      <3>6. CASE ConnectMsq(w, k)
        <4>1. UNCHANGED open /\ \E r \in open : conn' = [conn EXCEPT ![w] = r]
          BY <3>6 DEF ConnectMsq
        <4>2. \A s \in Sqs : conn'[s] = conn[s] \/ (s = w /\ conn'[s] \in open)
          BY <4>1 DEF PairInv
        <4> QED BY <2>o, <3>1, <3>2, <3>3, <3>4, <4>1, <4>2, Queues DEF WorkerInv
      <3> QED BY <2>3, <3>5, <3>6
    <2>4. CASE ThreadStops(w, k)
      <3>1. UNCHANGED thread /\ pc[w][k] = "run" /\ k = thread[w]
            /\ pc' = [pc EXCEPT ![w][k] = "dead"]
            /\ wq_state' = [wq_state EXCEPT ![w] = "EXITED"]
        BY <2>4, <2>s DEF ThreadStops
      <3>2. /\ \A v \in Wqs : v # w => pc'[v] = pc[v]
            /\ \A v \in Wqs :
                 /\ \A j \in Workers : pc'[v][j] = "none" <=> j > thread'[v]
                 /\ wq_state'[v] = "UNINITIALIZED" <=> thread'[v] = 0
                 /\ wq_state'[v] = "EXITED" => Ended(v)'
        BY <1>t, <3>1, MovesOn
      <3>3. \A s \in Sqs :
              conn'[s] # NoWq => conn'[s] = conn[s] /\ s # w /\ conn'[s] # w
        BY <2>4, Queues DEF ThreadStops, PairInv
      <3>4. open' = open \ {w} \/ (UNCHANGED open /\ w \notin Rqs)
        BY <2>4 DEF ThreadStops
      <3>5. w \notin Rqs => w \notin open
        BY DEF PairInv
      <3>6. open' = open \ {w}
        BY <3>4, <3>5
      <3> QED BY <2>o, <3>1, <3>2, <3>3, <3>6, Queues DEF WorkerInv
    <2> QED BY <1>6, <2>1, <2>2, <2>3, <2>4 DEF Worker
  <1>7. CASE UNCHANGED vars
    BY <1>0, <1>7 DEF vars, msqs, threads, workVars
  <1> QED BY <1>1, <1>2, <1>3, <1>4, <1>5, <1>6, <1>7 DEF Next, Verb

-----------------------------------------------------------------------------
(* Destroying a queue pair.                                                *)

\* A worker that has ended does not come back.
LEMMA DeadStays ==
    ASSUME VerbInv, WorkerInv, [Next]_vars, NEW v \in Wqs, NEW j \in Workers,
           pc[v][j] = "dead"
    PROVE  pc'[v][j] = "dead"
  <1>t. ThreadType
    BY DEF VerbInv
  <1>1. CASE UNCHANGED pc
    BY <1>1
  <1>2. ASSUME NEW q \in Qps, QpInit(q) PROVE pc'[v][j] = "dead"
    <2>w. PICK w : w = At(q)
      OBVIOUS
    <2>1. /\ pc[w][thread[w] + 1] = "none"
          /\ \A i \in Workers : i # thread[w] + 1 => pc'[w][i] = pc[w][i]
          /\ \A u \in Wqs : u # w => pc'[u] = pc[u]
      BY <1>2, <2>w, InitStarts
    <2> QED BY <2>1
  <1>3. ASSUME NEW w \in Wqs, NEW k \in Workers, NEW x, pc[w][k] # "dead",
               pc' = [pc EXCEPT ![w][k] = x]
        PROVE  pc'[v][j] = "dead"
    BY <1>t, <1>3 DEF ThreadType
  <1>4. ASSUME NEW w \in Wqs, NEW k \in Workers, Worker(w, k) \/ SendMsg(w, k)
        PROVE pc'[v][j] = "dead"
    <2>1. CASE ReceiveMsg(w, k) \/ SendMsg(w, k)
      BY <1>1, <2>1 DEF ReceiveMsg, Received, SendMsg, Sending, threads
    <2>2. CASE ThreadNeverRuns(w, k) \/ ThreadStart(w, k) \/ InitStopped(w, k)
      BY <1>3, <2>2 DEF ThreadNeverRuns, ThreadStart, InitStopped
    <2>3. CASE CreateMsq(w, k) \/ ConnectMsq(w, k) \/ ThreadStops(w, k)
      BY <1>3, <2>3 DEF CreateMsq, ConnectMsq, ThreadStops
    <2> QED BY <1>4, <2>1, <2>2, <2>3 DEF Worker
  <1> QED BY <1>1, <1>2, <1>4 DEF Next, Verb, CreateQp, NewQp, ModifyQp, ModifyRtr, DestroyQp,
          QpExitNothing, QpExitSkips, QpExitStop, QpExitJoin, threads, vars

\* A queue whose worker has ended stays so unless it gets another.
LEMMA EndedStays ==
    ASSUME VerbInv, WorkerInv, [Next]_vars, NEW v \in Wqs, Ended(v), thread'[v] = thread[v]
    PROVE  Ended(v)'
  <1>1. thread[v] # 0 => thread[v] \in Workers
    BY LastWorker DEF VerbInv
  <1> QED BY <1>1, DeadStays DEF Ended

\* dis_destroy_qp is past the receive queue.
AtSq(q) == call[q][1] \in {"exit", "join"} /\ call[q][2] # "DIS_RQ"

\* The last workers of the queues dis_qp_exit has returned from have ended, and no
\* other is started.
DestroyInv ==
  \A q \in Qps :
    /\ AtSq(q) => Ended(Rq(q))
    /\ state[q] = "destroyed" => Ended(Rq(q)) /\ Ended(Sq(q))

\* No queue pair has been destroyed.
LEMMA DestroyInit == Init => DestroyInv
  BY Calls DEF Init, DestroyInv, AtSq

\* A step that starts no worker and does not return from dis_qp_exit.
LEMMA DestroyFrame ==
    ASSUME VerbInv, WorkerInv, DestroyInv, [Next]_vars, UNCHANGED thread,
           \A p \in Qps : /\ AtSq(p)' => AtSq(p)
                          /\ state'[p] = "destroyed" => state[p] = "destroyed"
    PROVE  DestroyInv'
  <1>1. \A v \in Wqs : Ended(v) => Ended(v)'
    BY EndedStays
  <1> QED BY <1>1, Queues DEF DestroyInv

\* dis_qp_exit returns only when the queue's last worker has ended.
LEMMA ExitEnds ==
    ASSUME VerbInv, WorkerInv, NEW q \in Qps, QpExitNothing(q) \/ QpExitJoin(q)
    PROVE  /\ Ended(At(q)) /\ ExitReturns(q) /\ call[q][1] \in {"exit", "join"}
           /\ UNCHANGED <<qp_c, threads, msqs>>
           /\ wq_state[At(q)] \in {"UNINITIALIZED", "EXITED"}
  <1>1. /\ ExitReturns(q) /\ call[q][1] \in {"exit", "join"}
        /\ UNCHANGED <<qp_c, threads, msqs>>
        /\ wq_state[At(q)] \in {"UNINITIALIZED", "EXITED"}
    BY DEF QpExitNothing, QpExitSkips, QpExitJoin
  <1>2. At(q) \in Wqs
    BY AtQueue DEF VerbInv, VerbType
  <1> QED BY <1>1, <1>2 DEF WorkerInv, Ended

\* Every return of dis_qp_exit leaves its queue without its worker.
LEMMA DestroyStep == VerbInv /\ WorkerInv /\ DestroyInv /\ [Next]_vars => DestroyInv'
  <1> SUFFICES ASSUME VerbInv, WorkerInv, DestroyInv, [Next]_vars PROVE DestroyInv'
    OBVIOUS
  <1>t. VerbType /\ NameInv
    BY DEF VerbInv
  <1>1. ASSUME NEW n \in Nodes, NEW d \in Pds, CreateQp(n, d) PROVE DestroyInv'
    <2>1. UNCHANGED <<call, thread>>
      BY <1>1 DEF CreateQp, NewQp, threads
    <2>2. \A p \in Qps : state'[p] = "destroyed" => state[p] = "destroyed"
      BY <1>1, <1>t, CreateNames
    <2> QED BY <2>1, <2>2, DestroyFrame DEF AtSq
  <1>2. ASSUME NEW q \in Qps, NEW s \in QpStates, ModifyQp(q, s) PROVE DestroyInv'
    <2>1. /\ UNCHANGED <<call, thread>> /\ state' = [state EXCEPT ![q] = s]
          /\ s # "destroyed"
      BY <1>2, LinkAssumption DEF ModifyQp, threads
    <2>2. \A p \in Qps : state'[p] = "destroyed" => state[p] = "destroyed"
      BY <1>t, <2>1 DEF VerbType
    <2> QED BY <2>1, <2>2, DestroyFrame DEF AtSq
  <1>3. ASSUME NEW q \in Qps, ModifyRtr(q) \/ DestroyQp(q) PROVE DestroyInv'
    <2>1. UNCHANGED <<state, thread>>
      BY <1>3 DEF ModifyRtr, DestroyQp, threads
    <2>c. PICK c \in {"init", "exit"} : call' = [call EXCEPT ![q] = <<c, "DIS_RQ">>]
      BY <1>3 DEF ModifyRtr, DestroyQp
    <2>2. call'[q][2] = "DIS_RQ" /\ \A p \in Qps : p # q => call'[p] = call[p]
      BY <1>t, <2>c DEF VerbType
    <2> QED BY <2>1, <2>2, DestroyFrame DEF AtSq
  <1>4. ASSUME NEW q \in Qps, QpInit(q) PROVE DestroyInv'
    <2>1. /\ \A p \in Qps : p # q => state'[p] = state[p] /\ call'[p] = call[p]
          /\ call'[q][1] \in {"init", "idle"} /\ state'[q] # "destroyed"
      BY <1>4, <1>t, InitChanges, Calls
    <2>2. \A v \in Wqs : v.qp # q => thread'[v] = thread[v]
      <3>w. PICK w : w = At(q)
        OBVIOUS
      <3>1. w.qp = q /\ \A v \in Wqs : v # w => thread'[v] = thread[v]
        BY <1>4, <3>w, InitStarts
      <3> QED BY <3>1
    <2>3. \A v \in Wqs : v.qp # q /\ Ended(v) => Ended(v)'
      BY <2>2, EndedStays
    <2>4. \A p \in Qps : p # q => (Ended(Rq(p)) => Ended(Rq(p))') /\ (Ended(Sq(p)) => Ended(Sq(p))')
      BY <2>3, Queues
    <2> QED BY <2>1, <2>4 DEF DestroyInv, AtSq
  <1>5. ASSUME NEW q \in Qps, QpExitNothing(q) \/ QpExitJoin(q) PROVE DestroyInv'
    <2>1. /\ Ended(At(q)) /\ ExitReturns(q) /\ call[q][1] \in {"exit", "join"}
          /\ UNCHANGED thread
      BY <1>5, ExitEnds DEF threads
    <2>2. \A v \in Wqs : Ended(v) => Ended(v)'
      BY <2>1, EndedStays
    <2>3. /\ \A p \in Qps : p # q => state'[p] = state[p] /\ call'[p] = call[p]
          /\ \/ At(q) \in Rqs /\ call'[q] = <<"exit", "DIS_SQ">> /\ state'[q] = state[q]
             \/ At(q) \notin Rqs /\ call'[q] = Idle /\ state'[q] = "destroyed"
      BY <1>t, <2>1, ExitChanges
    <2>4. CASE At(q) \in Rqs
      <3>1. Ended(Rq(q))
        BY <1>t, <2>1, <2>4, AtQueue DEF VerbType
      <3>2. state[q] # "destroyed"
        BY <1>t, <2>1, Calls DEF NameInv, QpNamed
      <3> QED BY <2>2, <2>3, <2>4, <3>1, <3>2, Queues DEF DestroyInv, AtSq
    <2>5. CASE At(q) \notin Rqs
      <3>1. Ended(Sq(q)) /\ Ended(Rq(q))
        BY <1>t, <2>1, <2>5, AtQueue DEF DestroyInv, AtSq, VerbType
      <3>2. ~AtSq(q)'
        BY <2>3, <2>5, Calls DEF AtSq
      <3> QED BY <2>2, <2>3, <3>1, <3>2, Queues DEF DestroyInv, AtSq
    <2> QED BY <2>4, <2>5
  <1>6. ASSUME NEW q \in Qps, QpExitStop(q) PROVE DestroyInv'
    <2>1. /\ call'[q] = <<"join", call[q][2]>> /\ call[q] = <<"exit", call[q][2]>>
          /\ \A p \in Qps : p # q => call'[p] = call[p]
          /\ UNCHANGED <<state, thread>>
      BY <1>6, <1>t, StopCalls
    <2>2. \A p \in Qps : AtSq(p)' => AtSq(p)
      BY <2>1 DEF AtSq
    <2> QED BY <2>1, <2>2, DestroyFrame
  <1>7. ASSUME NEW w \in Wqs, NEW k \in Workers, Worker(w, k) \/ SendMsg(w, k)
        PROVE DestroyInv'
    <2>1. UNCHANGED <<state, call, thread>>
      BY <1>7 DEF Worker, ThreadNeverRuns, ThreadStart, CreateMsq, ConnectMsq, InitStopped,
         ReceiveMsg, Received, ThreadStops, SendMsg, Sending, verbs, threads
    <2> QED BY <2>1, DestroyFrame DEF AtSq
  <1>8. CASE UNCHANGED vars
    BY <1>8, DestroyFrame DEF vars, verbs, threads, AtSq
  <1> QED BY <1>1, <1>2, <1>3, <1>4, <1>5, <1>6, <1>7, <1>8 DEF Next, Verb

\* Nothing is left of a queue that had one worker at most, if that has ended.
LEMMA EndedLeavesNothing ==
    ASSUME ThreadType, PairInv, WorkerInv, NEW w \in Wqs, Ended(w), thread[w] <= 1
    PROVE  LeavesNothing(w)
  <1>1. thread[w] = 0 \/ thread[w] = 1
    <2>1. thread[w] \in 0..MaxRtr
      BY DEF ThreadType
    <2>2. thread[w] \in Nat
      BY <2>1, LinkAssumption
    <2> QED BY <2>2
  <1>2. pc[w][1] # "run" /\ \A k \in Workers : pc[w][k] \in {"none", "dead"}
    <2>1. CASE thread[w] = 0
      <3>1. \A k \in Workers : k > thread[w]
        BY <2>1, LinkAssumption DEF Workers
      <3> QED BY <3>1, OneWorker DEF WorkerInv
    <2>2. CASE thread[w] = 1
      <3>1. \A k \in Workers : k = 1 \/ k > thread[w]
        BY <2>2, LinkAssumption DEF Workers
      <3>2. pc[w][1] = "dead"
        BY <2>2 DEF Ended
      <3> QED BY <3>1, <3>2 DEF WorkerInv
    <2> QED BY <1>1, <2>1, <2>2
  <1>3. w \in Rqs => w \notin open
    BY <1>2 DEF WorkerInv
  <1>4. w \notin Rqs => conn[w] = NoWq
    BY <1>2, Queues DEF WorkerInv
  <1> QED BY <1>2, <1>3, <1>4 DEF LeavesNothing

\* When dis_destroy_qp has freed a queue pair, whatever its workers were doing when the
\* call began and however often and in whatever order it was moved between states,
\* the worker each of its queues knows of has ended; of a queue that had one worker
\* at most no worker, no message queue and no connection is left.
THEOREM FreedQueuePairQuiet == Spec => []DestroyedIsQuiet
  <1>1. ASSUME VerbInv, PairInv, WorkerInv, DestroyInv PROVE DestroyedIsQuiet
    <2> SUFFICES ASSUME NEW w \in Wqs, state[w.qp] = "destroyed"
                 PROVE  /\ thread[w] # 0 => pc[w][thread[w]] = "dead"
                        /\ thread[w] <= 1 => LeavesNothing(w)
      BY DEF DestroyedIsQuiet
    <2>1. Ended(w)
      BY <1>1, Queues DEF DestroyInv
    <2> QED BY <1>1, <2>1, EndedLeavesNothing DEF Ended, VerbInv
  <1> QED BY <1>1, VerbInit, VerbInvStep, PairInit, PairStep, WorkerInit, WorkerStep,
          DestroyInit, DestroyStep, PTL DEF Spec

-----------------------------------------------------------------------------
(* Messages.                                                               *)

Msgs == [from : Qps, no : Nat]

\* A message in the message queue r is the i-th its peer sent.
Is(m, r, i) == m.from \in Peers(r.qp) /\ m.no = i

\* The messages a receive queue got and those in its message queue are what its
\* peer sent, in order; all of it, until the receive queue's worker is gone.
OrderInv ==
  /\ inq \in [Rqs -> Seq(Msgs)]
  /\ received \in [Rqs -> Seq(Msgs)]
  /\ sent \in [Sqs -> Nat]
  /\ \A r \in Rqs :
       /\ \A i \in 1..Len(received[r]) : Is(received[r][i], r, i)
       /\ \A i \in 1..Len(inq[r]) : Is(inq[r][i], r, Len(received[r]) + i)
  /\ \A s \in Sqs, r \in Rqs :
       r.qp \in Peers(s.qp) /\ pc[r][1] # "dead" =>
         sent[s] = Len(received[r]) + Len(inq[r])

\* A queue pair is the peer of its peer and has no other: there are two nodes.
LEMMA PeersUnique ==
  \A p, q \in Qps : p \in Peers(q) =>
    /\ q \in Peers(p)
    /\ \A x \in Peers(q) : x = p
    /\ \A x \in Qps : p \in Peers(x) => x = q
  <1>1. \A l, m, n \in Nodes : l # n /\ m # n => l = m
    BY LinkAssumption
  <1>2. \A p, q \in Qps : p.node = q.node /\ p.pd = q.pd /\ p.qpn = q.qpn => p = q
    BY DEF Qps
  <1>3. \A p \in Qps : p.node \in Nodes
    BY DEF Qps
  <1>4. \A p, q \in Qps : p \in Peers(q) => q \in Peers(p)
    BY DEF Peers
  <1>5. \A p, q \in Qps : p \in Peers(q) => \A x \in Peers(q) : x = p
    BY <1>1, <1>2, <1>3 DEF Peers
  <1> QED BY <1>4, <1>5

\* With one move to RTR for each queue pair, every queue has one worker at most.
LEMMA AlwaysOne ==
    ASSUME OneStart, VerbInv, PairInv, WorkerInv
    PROVE  /\ Workers = {1}
           /\ \A w \in Wqs : thread[w] <= 1
           /\ \A r \in open : pc[r][1] = "run"
  <1>1. Workers = {1}
    BY DEF OneStart, Workers
  <1>2. \A w \in Wqs : thread[w] <= 1
    BY DEF OneStart, VerbInv, ThreadType
  <1>3. \A r \in open : r \in Wqs
    BY Queues DEF PairInv
  <1> QED BY <1>1, <1>2, <1>3 DEF WorkerInv

\* Nothing has been sent.
LEMMA OrderInit == Init => OrderInv
  <1>1. <<>> \in Seq(Msgs) /\ Len(<<>>) = 0
    BY EmptySeq
  <1> QED BY <1>1 DEF Init, OrderInv

\* Moving a message from one of two sequences to the other, or adding one.
LEMMA Sums ==
    ASSUME NEW a \in Nat, NEW b \in Nat
    PROVE  /\ (a + b) + 1 = a + (b + 1)
           /\ (a + 1) + b = a + (b + 1)
           /\ (a + 1) + (b - 1) = a + b
  OBVIOUS

\* A message is added to a message queue that is still read, and only by the peer.
LEMMA SendKeepsOrder ==
    ASSUME OneDomain, OneStart, VerbInv, PairInv, WorkerInv, OrderInv,
           NEW w \in Wqs, NEW k \in Workers, SendMsg(w, k)
    PROVE  OrderInv'
  <1> DEFINE r == conn[w]
             m == [from |-> w.qp, no |-> sent[w] + 1]
  <1>1. /\ w \in Sqs /\ r # NoWq
        /\ inq' = [inq EXCEPT ![r] = Append(@, m)]
        /\ sent' = [sent EXCEPT ![w] = @ + 1]
        /\ UNCHANGED <<pc, received>>
    BY DEF SendMsg, Sending, threads
  <1>2. r \in Rqs /\ Matches(w, r)
    BY <1>1 DEF PairInv, Matches
  <1>3. r.qp \in Peers(w.qp) /\ r.qp \in Qps /\ w.qp \in Qps
    BY <1>1, <1>2, MatchesPeer, Queues
  <1>4. sent[w] \in Nat /\ received[r] \in Seq(Msgs) /\ inq[r] \in Seq(Msgs)
    BY <1>1, <1>2 DEF OrderInv
  <1>5. sent[w] = Len(received[r]) + Len(inq[r])
    <2>1. pc[r][1] = "run"
      BY <1>1, AlwaysOne DEF WorkerInv
    <2> QED BY <1>1, <1>2, <1>3, <2>1 DEF OrderInv
  <1>6. m \in Msgs
    BY <1>3, <1>4 DEF Msgs
  <1>7. Is(m, r, Len(received[r]) + Len(inq[r]) + 1)
    BY <1>3, <1>5, PeersUnique DEF Is
  <1>8. /\ inq'[r] = Append(inq[r], m) /\ inq'[r] \in Seq(Msgs)
        /\ \A x \in Rqs : x # r => inq'[x] = inq[x]
        /\ inq' \in [Rqs -> Seq(Msgs)]
    BY <1>1, <1>2, <1>4, <1>6, AppendProperties DEF OrderInv
  <1>9. /\ sent' \in [Sqs -> Nat] /\ sent'[w] = sent[w] + 1
        /\ \A s \in Sqs : s # w => sent'[s] = sent[s]
    BY <1>1, <1>4 DEF OrderInv
  <1>10. /\ Len(inq'[r]) = Len(inq[r]) + 1 /\ Len(inq[r]) \in Nat /\ Len(received[r]) \in Nat
         /\ \A i \in 1..Len(inq'[r]) :
              inq'[r][i] = IF i = Len(inq[r]) + 1 THEN m ELSE inq[r][i]
    BY <1>4, <1>6, <1>8, AppendProperties, LenProperties
  <1>11. \A i \in 1..Len(inq'[r]) : Is(inq'[r][i], r, Len(received[r]) + i)
    <2> SUFFICES ASSUME NEW i \in 1..Len(inq'[r])
                 PROVE  Is(inq'[r][i], r, Len(received[r]) + i)
      OBVIOUS
    <2>1. CASE i = Len(inq[r]) + 1
      <3>1. Len(received[r]) \in Nat /\ Len(inq[r]) \in Nat
        BY <1>10
      <3>2. Len(received[r]) + Len(inq[r]) + 1 = Len(received[r]) + (Len(inq[r]) + 1)
        BY <3>1, Sums
      <3> QED BY <1>7, <1>10, <2>1, <3>2
    <2>2. CASE i # Len(inq[r]) + 1
      <3>1. i \in 1..Len(inq[r])
        BY <1>10, <2>2
      <3> QED BY <1>2, <1>10, <2>2, <3>1 DEF OrderInv
    <2> QED BY <2>1, <2>2
  <1>12. \A x \in Rqs : \A i \in 1..Len(inq'[x]) : Is(inq'[x][i], x, Len(received[x]) + i)
    BY <1>8, <1>11 DEF OrderInv
  <1>13. ASSUME NEW s \in Sqs, NEW x \in Rqs, x.qp \in Peers(s.qp), pc[x][1] # "dead"
         PROVE  sent'[s] = Len(received[x]) + Len(inq'[x])
    <2>1. s.qp \in Qps /\ x.qp \in Qps /\ s = Sq(s.qp) /\ x = Rq(x.qp)
          /\ w = Sq(w.qp) /\ r = Rq(r.qp)
      BY <1>1, <1>2, Queues
    <2>2. s = w <=> x = r
      BY <1>3, <1>13, <2>1, PeersUnique
    <2>3. sent[s] = Len(received[x]) + Len(inq[x])
      BY <1>13 DEF OrderInv
    <2>4. CASE s = w
      <3>1. Len(received[r]) \in Nat /\ Len(inq[r]) \in Nat
        BY <1>10
      <3>2. Len(received[r]) + Len(inq[r]) + 1 = Len(received[r]) + (Len(inq[r]) + 1)
        BY <3>1, Sums
      <3> QED BY <1>5, <1>9, <1>10, <2>2, <2>4, <3>2
    <2>5. CASE s # w
      BY <1>8, <1>9, <2>2, <2>3, <2>5
    <2> QED BY <2>4, <2>5
  <1>14. \A x \in Rqs : \A i \in 1..Len(received[x]) : Is(received[x][i], x, i)
    BY DEF OrderInv
  <1>15. received \in [Rqs -> Seq(Msgs)]
    BY DEF OrderInv
  <1> HIDE DEF r, m
  <1>16. UNCHANGED <<pc, received>>
    BY <1>1
  <1>17. inq' \in [Rqs -> Seq(Msgs)] /\ sent' \in [Sqs -> Nat]
    BY <1>8, <1>9
  <1> QED BY <1>12, <1>13, <1>14, <1>15, <1>16, <1>17 DEF OrderInv, Is, Peers

\* The message that is received is the oldest one.
LEMMA ReceiveKeepsOrder ==
    ASSUME OrderInv, NEW w \in Wqs, NEW k \in Workers, ReceiveMsg(w, k)
    PROVE  OrderInv'
  <1> DEFINE q == inq[w]
             got == received[w]
  <1>1. /\ w \in Rqs /\ q # <<>>
        /\ received' = [received EXCEPT ![w] = Append(@, Head(q))]
        /\ inq' = [inq EXCEPT ![w] = Tail(@)]
        /\ UNCHANGED <<pc, sent>>
    BY DEF ReceiveMsg, Receiving, Received, threads
  <1>2. q \in Seq(Msgs) /\ got \in Seq(Msgs)
    BY <1>1 DEF OrderInv
  <1>3. /\ Head(q) = q[1] /\ Head(q) \in Msgs /\ Tail(q) \in Seq(Msgs)
        /\ Len(q) \in Nat /\ Len(q) >= 1 /\ Len(Tail(q)) = Len(q) - 1
        /\ \A i \in 1..(Len(q) - 1) : Tail(q)[i] = q[i + 1]
    BY <1>1, <1>2, HeadTailProperties, LenProperties, EmptySeq
  <1>4. /\ Append(got, Head(q)) \in Seq(Msgs) /\ Len(got) \in Nat
        /\ Len(Append(got, Head(q))) = Len(got) + 1
        /\ \A i \in 1..(Len(got) + 1) :
              Append(got, Head(q))[i] = IF i = Len(got) + 1 THEN Head(q) ELSE got[i]
    BY <1>2, <1>3, AppendProperties, LenProperties
  <1>5. /\ inq' \in [Rqs -> Seq(Msgs)] /\ received' \in [Rqs -> Seq(Msgs)]
        /\ inq'[w] = Tail(q) /\ received'[w] = Append(got, Head(q))
        /\ \A x \in Rqs : x # w => inq'[x] = inq[x] /\ received'[x] = received[x]
    BY <1>1, <1>3, <1>4 DEF OrderInv
  <1>6. /\ \A i \in 1..Len(got) : Is(got[i], w, i)
        /\ \A i \in 1..Len(q) : Is(q[i], w, Len(got) + i)
    BY <1>1 DEF OrderInv
  <1>7. \A i \in 1..Len(received'[w]) : Is(received'[w][i], w, i)
    <2>1. Is(Head(q), w, Len(got) + 1)
      BY <1>3, <1>6
    <2> QED BY <1>4, <1>5, <1>6, <2>1
  <1>8. \A i \in 1..Len(inq'[w]) : Is(inq'[w][i], w, Len(received'[w]) + i)
    <2> SUFFICES ASSUME NEW i \in 1..(Len(q) - 1)
                 PROVE  Is(q[i + 1], w, Len(got) + 1 + i)
      BY <1>3, <1>4, <1>5
    <2>1. Len(q) \in Nat /\ Len(got) \in Nat
      BY <1>3, <1>4
    <2>2. i \in Nat /\ i + 1 \in 1..Len(q)
      BY <2>1
    <2>3. Len(got) + (i + 1) = (Len(got) + 1) + i
      BY <2>1, <2>2, Sums
    <2> QED BY <1>6, <2>2, <2>3
  <1>9. Len(received'[w]) + Len(inq'[w]) = Len(got) + Len(q)
    <2>1. Len(q) \in Nat /\ Len(got) \in Nat
      BY <1>3, <1>4
    <2>2. (Len(got) + 1) + (Len(q) - 1) = Len(got) + Len(q)
      BY <2>1, Sums
    <2> QED BY <1>3, <1>4, <1>5, <2>2
  <1> HIDE DEF q, got
  <1>10. \A x \in Rqs :
           /\ \A i \in 1..Len(received'[x]) : Is(received'[x][i], x, i)
           /\ \A i \in 1..Len(inq'[x]) : Is(inq'[x][i], x, Len(received'[x]) + i)
    BY <1>5, <1>7, <1>8 DEF OrderInv
  <1>11. \A x \in Rqs : Len(received'[x]) + Len(inq'[x]) = Len(received[x]) + Len(inq[x])
    BY <1>5, <1>9 DEF q, got
  <1>12. /\ sent' \in [Sqs -> Nat]
         /\ \A s \in Sqs, x \in Rqs :
              x.qp \in Peers(s.qp) /\ pc'[x][1] # "dead" =>
                sent'[s] = Len(received'[x]) + Len(inq'[x])
    BY <1>1, <1>11 DEF OrderInv
  <1> QED BY <1>5, <1>10, <1>12 DEF OrderInv, Is, Peers

\* The messages of a queue that is removed are lost, and none follows them.
LEMMA OrderStep ==
    ASSUME OneDomain, OneStart
    PROVE  VerbInv /\ PairInv /\ WorkerInv /\ OrderInv /\ [Next]_vars => OrderInv'
  <1> SUFFICES ASSUME VerbInv, PairInv, WorkerInv, OrderInv, [Next]_vars PROVE OrderInv'
    OBVIOUS
  <1>0. \A r \in Rqs : pc'[r][1] # "dead" => pc[r][1] # "dead"
    BY DeadStays, Queues, OneWorker
  <1>1. ASSUME UNCHANGED <<inq, sent, received>> PROVE OrderInv'
    BY <1>0, <1>1 DEF OrderInv, Is, Peers
  <1>2. ASSUME NEW w \in Wqs, NEW k \in Workers, ThreadStops(w, k) PROVE OrderInv'
    <2>1. CASE w \notin Rqs
      BY <1>1, <1>2, <2>1 DEF ThreadStops
    <2>2. CASE w \in Rqs
      <3>1. /\ inq' = [inq EXCEPT ![w] = <<>>]
            /\ pc' = [pc EXCEPT ![w][k] = "dead"]
            /\ UNCHANGED <<sent, received>>
        BY <1>2, <2>2 DEF ThreadStops
      <3>2. pc'[w][1] = "dead"
        <4>1. k = 1
          BY AlwaysOne
        <4>2. ThreadType /\ "dead" \in Places
          BY DEF VerbInv, Places
        <4>3. pc'[w][k] = "dead"
          BY <3>1, <4>2 DEF ThreadType
        <4> QED BY <4>1, <4>3
      <3>3. inq' \in [Rqs -> Seq(Msgs)] /\ Len(inq'[w]) = 0
        BY <2>2, <3>1, EmptySeq DEF OrderInv
      <3>4. \A x \in Rqs : x # w => inq'[x] = inq[x]
        BY <3>1 DEF OrderInv
      <3> QED BY <1>0, <3>1, <3>2, <3>3, <3>4 DEF OrderInv, Is, Peers
    <2> QED BY <2>1, <2>2
  <1>3. ASSUME NEW w \in Wqs, NEW k \in Workers, Worker(w, k) \/ SendMsg(w, k) PROVE OrderInv'
    <2>1. CASE SendMsg(w, k)
      BY <2>1, SendKeepsOrder
    <2>2. CASE ReceiveMsg(w, k)
      BY <2>2, ReceiveKeepsOrder
    <2>3. CASE ThreadNeverRuns(w, k) \/ ThreadStart(w, k) \/ InitStopped(w, k)
      BY <1>1, <2>3 DEF ThreadNeverRuns, ThreadStart, InitStopped, msqs
    <2>4. CASE CreateMsq(w, k) \/ ConnectMsq(w, k)
      BY <1>1, <2>4 DEF CreateMsq, ConnectMsq
    <2> QED BY <1>2, <1>3, <2>1, <2>2, <2>3, <2>4 DEF Worker
  <1> QED BY <1>1, <1>3 DEF Next, Verb, CreateQp, NewQp, ModifyQp, ModifyRtr, DestroyQp, QpInit,
          QpExitNothing, QpExitSkips, QpExitStop, QpExitJoin, msqs, vars

\* With one domain and one move to RTR a receive queue gets the messages of its
\* peer from the first one on, none lost, repeated or out of order.
THEOREM MessagesInOrder ==
    ASSUME OneDomain, OneStart PROVE Spec => []ReceivedInOrder
  <1>1. OrderInv => ReceivedInOrder
    BY DEF OrderInv, ReceivedInOrder, Is
  <1> QED BY <1>1, VerbInit, VerbInvStep, PairInit, PairStep, WorkerInit, WorkerStep, OrderInit,
          OrderStep, PTL DEF Spec

-----------------------------------------------------------------------------
(* Channels.                                                               *)

\* What the abstract channels are, of what there is now.
BySender(f) == [c \in Directions |-> f[Sq(c[1])]]
ByReceiver(f) == [c \in Directions |-> f[Rq(c[2])]]
Closed == {c \in Directions : pc[Rq(c[2])][1] = "dead"}

\* Messages wait only in a message queue that exists.
HeldInv == \A r \in Rqs : inq[r] # <<>> => r \in open

\* A direction has its own send queue and its own receive queue.
LEMMA DirectionFacts ==
    ASSUME NEW c \in Directions
    PROVE  /\ c = <<c[1], c[2]>> /\ c[1] \in Qps /\ c[2] \in Qps /\ c[2] \in Peers(c[1])
           /\ Sq(c[1]) \in Sqs /\ Rq(c[2]) \in Rqs
           /\ \A d \in Directions : Sq(d[1]) = Sq(c[1]) <=> d = c
           /\ \A d \in Directions : Rq(d[2]) = Rq(c[2]) <=> d = c
  <1>1. \A d \in Directions : /\ d = <<d[1], d[2]>> /\ d[1] \in Qps /\ d[2] \in Qps
                              /\ d[2] \in Peers(d[1])
    BY DEF Directions
  <1>2. \A d \in Directions : d[1] = c[1] \/ d[2] = c[2] => d[1] = c[1] /\ d[2] = c[2]
    BY <1>1, PeersUnique
  <1>3. \A p, q \in Qps : (Sq(p) = Sq(q) => p = q) /\ (Rq(p) = Rq(q) => p = q)
    BY DEF Sq, Rq
  <1>4. \A d \in Directions : d[1] = c[1] \/ d[2] = c[2] => d = c
    BY <1>1, <1>2
  <1> QED BY <1>1, <1>3, <1>4, Queues

\* Nothing waits at first, and no channel is closed.
LEMMA HeldInit == Init => HeldInv
  BY DEF Init, HeldInv

LEMMA ChannelInit == Init => Link!Init
  <1> SUFFICES ASSUME Init PROVE Link!Init
    OBVIOUS
  <1>1. \A c \in Directions : Sq(c[1]) \in Sqs /\ Rq(c[2]) \in Rqs /\ Rq(c[2]) \in Wqs
    BY DirectionFacts, Queues
  <1>2. \A c \in Directions : /\ sent[Sq(c[1])] = 0
                              /\ inq[Rq(c[2])] = <<>>
                              /\ received[Rq(c[2])] = <<>>
                              /\ pc[Rq(c[2])][1] = "none"
    BY <1>1, OneWorker DEF Init
  <1> QED BY <1>2 DEF Link!Init

\* A message queue is removed with the messages in it.
LEMMA HeldStep == WorkerInv /\ OrderInv /\ HeldInv /\ [Next]_vars => HeldInv'
  <1> SUFFICES ASSUME WorkerInv, OrderInv, HeldInv, [Next]_vars PROVE HeldInv'
    OBVIOUS
  <1>0. ASSUME UNCHANGED inq, open \subseteq open' PROVE HeldInv'
    BY <1>0 DEF HeldInv
  <1>1. ASSUME NEW w \in Wqs, NEW k \in Workers, SendMsg(w, k) PROVE HeldInv'
    <2>1. /\ \E m : inq' = [inq EXCEPT ![conn[w]] = Append(@, m)]
          /\ w \in Sqs /\ conn[w] # NoWq /\ UNCHANGED open
      BY <1>1 DEF SendMsg, Sending
    <2>2. conn[w] \in open
      BY <2>1 DEF WorkerInv
    <2>3. \A r \in Rqs : r # conn[w] => inq'[r] = inq[r]
      BY <2>1 DEF OrderInv
    <2> QED BY <2>1, <2>2, <2>3 DEF HeldInv
  <1>2. ASSUME NEW w \in Wqs, NEW k \in Workers, ReceiveMsg(w, k) PROVE HeldInv'
    <2>1. /\ inq' = [inq EXCEPT ![w] = Tail(@)]
          /\ w \in Rqs /\ inq[w] # <<>> /\ UNCHANGED open
      BY <1>2 DEF ReceiveMsg, Receiving, Received
    <2>2. \A r \in Rqs : r # w => inq'[r] = inq[r]
      BY <2>1 DEF OrderInv
    <2> QED BY <2>1, <2>2 DEF HeldInv
  <1>3. ASSUME NEW w \in Wqs, NEW k \in Workers, ThreadStops(w, k) PROVE HeldInv'
    <2>1. CASE w \in Rqs
      <3>1. open' = open \ {w} /\ inq' = [inq EXCEPT ![w] = <<>>]
        BY <1>3, <2>1 DEF ThreadStops
      <3>2. inq'[w] = <<>> /\ \A r \in Rqs : r # w => inq'[r] = inq[r]
        BY <2>1, <3>1 DEF OrderInv
      <3> QED BY <3>1, <3>2 DEF HeldInv
    <2>2. CASE w \notin Rqs
      BY <1>0, <1>3, <2>2 DEF ThreadStops
    <2> QED BY <2>1, <2>2
  <1>4. ASSUME NEW w \in Wqs, NEW k \in Workers, Worker(w, k) \/ SendMsg(w, k) PROVE HeldInv'
    <2>1. CASE ThreadNeverRuns(w, k) \/ ThreadStart(w, k) \/ InitStopped(w, k)
      BY <1>0, <2>1 DEF ThreadNeverRuns, ThreadStart, InitStopped, msqs
    <2>2. CASE CreateMsq(w, k) \/ ConnectMsq(w, k)
      BY <1>0, <2>2 DEF CreateMsq, ConnectMsq
    <2> QED BY <1>1, <1>2, <1>3, <1>4, <2>1, <2>2 DEF Worker
  <1> QED BY <1>0, <1>4 DEF Next, Verb, CreateQp, NewQp, ModifyQp, ModifyRtr, DestroyQp, QpInit,
          QpExitNothing, QpExitSkips, QpExitStop, QpExitJoin, msqs, vars

\* A step that moves no message and ends no receive queue is none of the channels'.
LEMMA ChannelStutters ==
    ASSUME UNCHANGED <<inq, sent, received>>,
           \A r \in Rqs : pc'[r][1] = "dead" <=> pc[r][1] = "dead"
    PROVE  [Link!Next]_(Link!vars)
  <1>1. \A c \in Directions : Rq(c[2]) \in Rqs
    BY DirectionFacts
  <1>2. Closed' = Closed
    BY <1>1 DEF Closed
  <1> QED BY <1>2 DEF Link!vars, Closed

\* SendMsg gives the channel between the peers its next message.
LEMMA SendGives ==
    ASSUME OneDomain, OneStart, VerbInv, PairInv, WorkerInv, OrderInv,
           NEW w \in Wqs, NEW k \in Workers, SendMsg(w, k)
    PROVE  [Link!Next]_(Link!vars)
  <1>1. PICK r : r = conn[w]
    OBVIOUS
  <1>2. PICK n : n = sent[w] + 1
    OBVIOUS
  <1>3. /\ w \in Sqs /\ r # NoWq
        /\ Len(inq[r]) < MsgMax
        /\ inq' = [inq EXCEPT ![r] = Append(inq[r], [from |-> w.qp, no |-> n])]
        /\ sent' = [sent EXCEPT ![w] = n]
        /\ UNCHANGED <<pc, received>>
    BY <1>1, <1>2 DEF SendMsg, Sending, threads
  <1>4. r \in Rqs /\ Matches(w, r) /\ pc[r][1] = "run"
    BY <1>1, <1>3, AlwaysOne DEF PairInv, WorkerInv, Matches
  <1>5. PICK c \in Directions : c = <<w.qp, r.qp>>
    BY <1>3, <1>4, MatchesPeer, Queues DEF Directions
  <1>6. Sq(c[1]) = w /\ Rq(c[2]) = r /\ c[1] = w.qp
    BY <1>3, <1>4, <1>5, Queues
  <1>7. DOMAIN inq = Rqs /\ DOMAIN sent = Sqs
    BY DEF OrderInv
  <1>8. BySender(sent)[c] = sent[w] /\ ByReceiver(inq)[c] = inq[r]
    BY <1>6 DEF BySender, ByReceiver
  <1>9. BySender(sent') = [BySender(sent) EXCEPT ![c] = n]
    <2>1. \A d \in Directions : sent'[Sq(d[1])] = IF d = c THEN n ELSE sent[Sq(d[1])]
      BY <1>3, <1>6, <1>7, DirectionFacts
    <2>2. BySender(sent') = [d \in Directions |-> IF d = c THEN n ELSE BySender(sent)[d]]
      BY <2>1 DEF BySender
    <2> QED BY <2>2 DEF BySender
  <1>10. ByReceiver(inq')
           = [ByReceiver(inq) EXCEPT ![c] = Append(inq[r], [from |-> w.qp, no |-> n])]
    <2>1. PICK s : s = Append(inq[r], [from |-> w.qp, no |-> n])
      OBVIOUS
    <2>2. \A d \in Directions : inq'[Rq(d[2])] = IF d = c THEN s ELSE inq[Rq(d[2])]
      BY <1>3, <1>4, <1>6, <1>7, <2>1, DirectionFacts
    <2>3. ByReceiver(inq') = [d \in Directions |-> IF d = c THEN s ELSE ByReceiver(inq)[d]]
      BY <2>2 DEF ByReceiver
    <2>4. ByReceiver(inq') = [ByReceiver(inq) EXCEPT ![c] = s]
      BY <2>3 DEF ByReceiver
    <2> QED BY <2>1, <2>4
  <1>11. c \notin Closed /\ Closed' = Closed /\ ByReceiver(received') = ByReceiver(received)
    BY <1>3, <1>4, <1>6 DEF Closed
  <1>12. /\ BySender(sent') = [BySender(sent) EXCEPT ![c] = @ + 1]
         /\ ByReceiver(inq') = [ByReceiver(inq) EXCEPT
                                  ![c] = Append(@, [from |-> c[1], no |-> BySender(sent)[c] + 1])]
         /\ Len(ByReceiver(inq)[c]) < MsgMax
    <2>1. c \in DOMAIN BySender(sent) /\ c \in DOMAIN ByReceiver(inq)
      BY DEF BySender, ByReceiver
    <2> QED BY <1>2, <1>3, <1>6, <1>8, <1>9, <1>10, <2>1
  <1>13. Link!Give(c)
    BY <1>11, <1>12 DEF Link!Give, Link!Message, BySender, ByReceiver, Closed
  <1> QED BY <1>13 DEF Link!Next

\* ReceiveMsg hands the receiver the oldest message of its peer.
LEMMA ReceiveDelivers ==
    ASSUME OneStart, VerbInv, PairInv, WorkerInv, OrderInv, NEW w \in Wqs, NEW k \in Workers,
           ReceiveMsg(w, k)
    PROVE  [Link!Next]_(Link!vars)
  <1>1. /\ w \in Rqs /\ inq[w] # <<>> /\ pc[w][k] = "run"
        /\ received' = [received EXCEPT ![w] = Append(received[w], Head(inq[w]))]
        /\ inq' = [inq EXCEPT ![w] = Tail(inq[w])]
        /\ UNCHANGED <<pc, sent>>
    BY DEF ReceiveMsg, Receiving, Received, threads
  <1>2. pc[w][1] = "run"
    BY <1>1, AlwaysOne
  <1>3. PICK q : q = inq[w][1].from
    OBVIOUS
  <1>4. q \in Peers(w.qp)
    <2>1. inq[w] \in Seq(Msgs)
      BY <1>1 DEF OrderInv
    <2>2. 1 \in 1..Len(inq[w])
      BY <1>1, <2>1, EmptySeq, LenProperties
    <2> QED BY <1>1, <1>3, <2>2 DEF OrderInv, Is
  <1>5. PICK c \in Directions : c = <<q, w.qp>>
    <2>1. q \in Qps /\ w.qp \in Qps
      BY <1>4, Queues DEF Peers
    <2> QED BY <1>4, <2>1, PeersUnique DEF Directions
  <1>6. Rq(c[2]) = w
    BY <1>1, <1>5, Queues
  <1>7. DOMAIN inq = Rqs /\ DOMAIN received = Rqs
    BY DEF OrderInv
  <1>8. ByReceiver(inq)[c] = inq[w] /\ ByReceiver(received)[c] = received[w]
    BY <1>6 DEF ByReceiver
  <1>9. /\ ByReceiver(inq') = [ByReceiver(inq) EXCEPT ![c] = Tail(inq[w])]
        /\ ByReceiver(received')
             = [ByReceiver(received) EXCEPT ![c] = Append(received[w], Head(inq[w]))]
    <2>1. PICK s, t : s = Tail(inq[w]) /\ t = Append(received[w], Head(inq[w]))
      OBVIOUS
    <2>2. \A d \in Directions :
            /\ inq'[Rq(d[2])] = IF d = c THEN s ELSE inq[Rq(d[2])]
            /\ received'[Rq(d[2])] = IF d = c THEN t ELSE received[Rq(d[2])]
      BY <1>1, <1>6, <1>7, <2>1, DirectionFacts
    <2>3. /\ ByReceiver(inq') = [d \in Directions |-> IF d = c THEN s ELSE ByReceiver(inq)[d]]
          /\ ByReceiver(received')
               = [d \in Directions |-> IF d = c THEN t ELSE ByReceiver(received)[d]]
      BY <2>2 DEF ByReceiver
    <2>4. /\ ByReceiver(inq') = [ByReceiver(inq) EXCEPT ![c] = s]
          /\ ByReceiver(received') = [ByReceiver(received) EXCEPT ![c] = t]
      BY <2>3 DEF ByReceiver
    <2> QED BY <2>1, <2>4
  <1>10. c \notin Closed /\ Closed' = Closed /\ BySender(sent') = BySender(sent)
    BY <1>1, <1>2, <1>6 DEF Closed
  <1>11. /\ ByReceiver(inq') = [ByReceiver(inq) EXCEPT ![c] = Tail(@)]
         /\ ByReceiver(received')
              = [ByReceiver(received) EXCEPT ![c] = Append(@, Head(ByReceiver(inq)[c]))]
         /\ ByReceiver(inq)[c] # <<>>
    <2>1. c \in DOMAIN ByReceiver(inq) /\ c \in DOMAIN ByReceiver(received)
      BY DEF ByReceiver
    <2> QED BY <1>1, <1>8, <1>9, <2>1
  <1>12. Link!Deliver(c)
    BY <1>10, <1>11 DEF Link!Deliver, BySender, ByReceiver, Closed
  <1> QED BY <1>12 DEF Link!Next

\* A worker that ends closes the channel to its queue, if it has received.
LEMMA EndCloses ==
    ASSUME OneStart, VerbInv, PairInv, WorkerInv, OrderInv, NEW w \in Wqs, NEW k \in Workers,
           pc[w][k] # "dead", pc' = [pc EXCEPT ![w][k] = "dead"],
           UNCHANGED <<sent, received>>,
           w \in Rqs => inq' = [inq EXCEPT ![w] = <<>>],
           w \notin Rqs => UNCHANGED inq
    PROVE  [Link!Next]_(Link!vars)
  <1>1. /\ pc[w][1] # "dead"
        /\ pc'[w][1] = "dead"
        /\ \A v \in Wqs : v # w => pc'[v] = pc[v]
    <2>1. k = 1
      BY AlwaysOne
    <2>2. ThreadType /\ "dead" \in Places
      BY DEF VerbInv, Places
    <2>3. pc'[w][k] = "dead" /\ \A v \in Wqs : v # w => pc'[v] = pc[v]
      BY <2>2, PcStep
    <2> QED BY <2>1, <2>3
  <1>r. \A r \in Rqs : r \in Wqs
    BY Queues
  <1>2. CASE w \notin Rqs
    BY <1>1, <1>2, <1>r, ChannelStutters
  <1>3. CASE w \in Rqs /\ ~\E c \in Directions : Rq(c[2]) = w
    <2>1. \A c \in Directions : Rq(c[2]) \in Wqs /\ Rq(c[2]) \in Rqs /\ Rq(c[2]) # w
      BY <1>3, <1>r, DirectionFacts
    <2>2. \A c \in Directions : inq'[Rq(c[2])] = inq[Rq(c[2])] /\ pc'[Rq(c[2])] = pc[Rq(c[2])]
      BY <1>1, <1>3, <2>1 DEF OrderInv
    <2>3. ByReceiver(inq') = ByReceiver(inq) /\ Closed' = Closed
      BY <2>2 DEF ByReceiver, Closed
    <2> QED BY <2>3 DEF Link!vars, ByReceiver, Closed
  <1>4. ASSUME w \in Rqs, NEW c \in Directions, Rq(c[2]) = w PROVE [Link!Next]_(Link!vars)
    <2>1. DOMAIN inq = Rqs
      BY DEF OrderInv
    <2>2. ByReceiver(inq') = [ByReceiver(inq) EXCEPT ![c] = <<>>]
      <3>1. \A d \in Directions : inq'[Rq(d[2])] = IF d = c THEN <<>> ELSE inq[Rq(d[2])]
        BY <1>4, <2>1, DirectionFacts
      <3>2. ByReceiver(inq') = [d \in Directions |-> IF d = c THEN <<>> ELSE ByReceiver(inq)[d]]
        BY <3>1 DEF ByReceiver
      <3> QED BY <3>2 DEF ByReceiver
    <2>3. \A d \in Directions : pc'[Rq(d[2])][1] = "dead" <=> d = c \/ pc[Rq(d[2])][1] = "dead"
      <3>1. \A d \in Directions : Rq(d[2]) \in Wqs /\ (d # c => Rq(d[2]) # w)
        BY <1>4, <1>r, DirectionFacts
      <3> QED BY <1>1, <1>4, <3>1
    <2>4. c \notin Closed /\ Closed' = Closed \cup {c}
      BY <1>1, <1>4, <2>3 DEF Closed
    <2>5. ByReceiver(received') = ByReceiver(received) /\ BySender(sent') = BySender(sent)
      OBVIOUS
    <2>6. Link!Close(c)
      BY <2>2, <2>4, <2>5 DEF Link!Close, BySender, ByReceiver, Closed
    <2> QED BY <2>6 DEF Link!Next
  <1> QED BY <1>2, <1>3, <1>4

\* Each step of the queue pairs is a step of the channels or none.
LEMMA ChannelStep ==
    ASSUME OneDomain, OneStart
    PROVE  VerbInv /\ PairInv /\ WorkerInv /\ OrderInv /\ HeldInv /\ [Next]_vars
             => [Link!Next]_(Link!vars)
  <1> SUFFICES ASSUME VerbInv, PairInv, WorkerInv, OrderInv, HeldInv, [Next]_vars
               PROVE  [Link!Next]_(Link!vars)
    OBVIOUS
  <1>1. ASSUME UNCHANGED <<pc, inq, sent, received>> PROVE [Link!Next]_(Link!vars)
    BY <1>1, ChannelStutters
  <1>2. ASSUME NEW w \in Wqs, NEW k \in Workers, NEW x \in Places, x # "dead",
               pc[w][1] # "dead", pc' = [pc EXCEPT ![w][k] = x],
               UNCHANGED <<inq, sent, received>>
        PROVE  [Link!Next]_(Link!vars)
    <2>1. pc'[w][1] # "dead" /\ \A v \in Wqs : v # w => pc'[v] = pc[v]
      BY <1>2, AlwaysOne, PcStep DEF VerbInv
    <2>2. \A r \in Rqs : pc'[r][1] = "dead" <=> pc[r][1] = "dead"
      BY <1>2, <2>1, Queues
    <2> QED BY <1>2, <2>2, ChannelStutters
  <1>3. ASSUME NEW q \in Qps, QpInit(q) PROVE [Link!Next]_(Link!vars)
    <2>w. PICK w : w = At(q)
      OBVIOUS
    <2>1. /\ w \in Wqs /\ thread[w] + 1 \in Workers
          /\ pc[w][thread[w] + 1] = "none" /\ pc'[w][thread[w] + 1] = "created"
          /\ \A v \in Wqs : v # w => pc'[v] = pc[v]
          /\ UNCHANGED <<inq, sent, received>>
      BY <1>3, <2>w, InitStarts
    <2>2. thread[w] + 1 = 1
      BY <2>1, AlwaysOne
    <2>3. \A r \in Rqs : pc'[r][1] = "dead" <=> pc[r][1] = "dead"
      BY <2>1, <2>2, Queues
    <2> QED BY <2>1, <2>3, ChannelStutters
  <1>4. ASSUME NEW w \in Wqs, NEW k \in Workers, ThreadStart(w, k) \/ CreateMsq(w, k)
                                                 \/ ConnectMsq(w, k)
        PROVE  [Link!Next]_(Link!vars)
    <2>1. /\ pc[w][k] \in {"created", "init"} /\ UNCHANGED <<inq, sent, received>>
          /\ \E x \in {"init", "run"} : pc' = [pc EXCEPT ![w][k] = x]
      BY <1>4 DEF ThreadStart, CreateMsq, ConnectMsq, msqs
    <2>2. pc[w][1] # "dead"
      BY <2>1, AlwaysOne
    <2> QED BY <1>2, <2>1, <2>2 DEF Places
  <1>5. ASSUME NEW w \in Wqs, NEW k \in Workers, ThreadNeverRuns(w, k) \/ InitStopped(w, k)
        PROVE  [Link!Next]_(Link!vars)
    <2>1. /\ pc[w][k] \in {"created", "init"} /\ pc' = [pc EXCEPT ![w][k] = "dead"]
          /\ UNCHANGED <<inq, sent, received>>
      BY <1>5 DEF ThreadNeverRuns, InitStopped, msqs
    <2>2. w \in Rqs => inq' = [inq EXCEPT ![w] = <<>>]
      <3>1. w \notin open
        BY <2>1, AlwaysOne
      <3>2. w \in Rqs => inq[w] = <<>>
        BY <3>1 DEF HeldInv
      <3> QED BY <2>1, <3>2 DEF OrderInv
    <2> QED BY <2>1, <2>2, EndCloses
  <1>6. ASSUME NEW w \in Wqs, NEW k \in Workers, ThreadStops(w, k)
        PROVE  [Link!Next]_(Link!vars)
    <2>1. /\ pc[w][k] = "run" /\ pc' = [pc EXCEPT ![w][k] = "dead"]
          /\ UNCHANGED <<sent, received>>
          /\ w \in Rqs => inq' = [inq EXCEPT ![w] = <<>>]
          /\ w \notin Rqs => UNCHANGED inq
      BY <1>6 DEF ThreadStops
    <2> QED BY <2>1, EndCloses
  <1>7. ASSUME NEW w \in Wqs, NEW k \in Workers, Worker(w, k) \/ SendMsg(w, k)
        PROVE  [Link!Next]_(Link!vars)
    BY <1>4, <1>5, <1>6, <1>7, SendGives, ReceiveDelivers DEF Worker
  <1> QED BY <1>1, <1>3, <1>7 DEF Next, Verb, CreateQp, NewQp, ModifyQp, ModifyRtr, DestroyQp,
          QpExitNothing, QpExitSkips, QpExitStop, QpExitJoin, threads, msqs, vars

\* With one domain and one move to RTR, peers are connected by reliable channels
\* of the message queues' capacity, whatever is created, started or destroyed.
THEOREM LinkImplementsChannels ==
    ASSUME OneDomain, OneStart PROVE Spec => IsChannel
  <1>1. VerbInv /\ PairInv /\ WorkerInv /\ OrderInv /\ HeldInv /\ [Next]_vars
          => [Link!Next]_(Link!vars)
    BY ChannelStep
  <1> QED BY <1>1, VerbInit, VerbInvStep, PairInit, PairStep, WorkerInit, WorkerStep, OrderInit,
          OrderStep, HeldInit, HeldStep, ChannelInit, PTL DEF Spec, IsChannel, Link!Spec

-----------------------------------------------------------------------------
(* The lives of the workers.                                               *)

\* The worker of w does nothing that its life is about.
LEMMA LifeStutters ==
    ASSUME NEW w \in Wqs,
           pc'[w][1] = pc[w][1], stop'[w][1] = stop[w][1], Using(w)' = Using(w),
           (wq_state'[w] = "EXITED") = (wq_state[w] = "EXITED"), Released(w)' = Released(w)
    PROVE  [Life(w)!Next]_(Life(w)!vars)
  BY DEF Life!vars

\* The peer's worker may take the message queue away from a send queue.
LEMMA LifeLoses ==
    ASSUME NEW w \in Wqs, pc[w][1] = "run", Using(w)' = FALSE,
           pc'[w][1] = pc[w][1], stop'[w][1] = stop[w][1],
           (wq_state'[w] = "EXITED") = (wq_state[w] = "EXITED"), Released(w)' = Released(w)
    PROVE  Life(w)!Next
  <1>1. Life(w)!Lose
    BY DEF Life!Lose
  <1> QED BY <1>1 DEF Life!Next

\* What a worker does not do.
LEMMA WorkerFrame ==
    ASSUME NEW w \in Wqs, NEW k \in Workers, Worker(w, k) \/ SendMsg(w, k)
    PROVE  /\ UNCHANGED <<state, call, thread, stop>>
           /\ \A v \in Wqs : Released(v)' = Released(v)
  <1>1. UNCHANGED <<state, call, thread, stop>>
    BY DEF Worker, ThreadNeverRuns, ThreadStart, CreateMsq, ConnectMsq, InitStopped,
           ReceiveMsg, Received, ThreadStops, SendMsg, Sending, verbs, threads
  <1> QED BY <1>1 DEF Released

\* What the step of a worker means for the others.
LEMMA OthersLive ==
    ASSUME VerbInv, PairInv, WorkerInv, NEW w \in Wqs, NEW k \in Workers,
           Worker(w, k) \/ SendMsg(w, k), NEW v \in Wqs, v # w, thread[v] <= 1
    PROVE  [Life(v)!Next]_(Life(v)!vars)
  <1>1. stop'[v][1] = stop[v][1] /\ Released(v)' = Released(v)
    BY WorkerFrame
  <1>2. pc'[v] = pc[v] /\ wq_state'[v] = wq_state[v]
    <2>1. CASE ReceiveMsg(w, k) \/ SendMsg(w, k)
      BY <2>1 DEF ReceiveMsg, Received, SendMsg, Sending, threads
    <2>2. CASE ThreadNeverRuns(w, k) \/ CreateMsq(w, k) \/ ConnectMsq(w, k)
      BY <2>2 DEF ThreadNeverRuns, CreateMsq, ConnectMsq, VerbInv, ThreadType
    <2>3. CASE ThreadStart(w, k) \/ InitStopped(w, k) \/ ThreadStops(w, k)
      BY <2>3 DEF ThreadStart, InitStopped, ThreadStops, VerbInv, ThreadType
    <2> QED BY <2>1, <2>2, <2>3 DEF Worker
  <1>3. v \in Rqs => Using(v)' = Using(v)
    <2>1. open' \in {open, open \cup {w}, open \ {w}}
      BY DEF Worker, ThreadNeverRuns, ThreadStart, CreateMsq, ConnectMsq, InitStopped,
             ReceiveMsg, Received, ThreadStops, SendMsg, Sending, msqs
    <2> QED BY <2>1 DEF Using
  <1>4. v \notin Rqs => Using(v)' = Using(v) \/ (Using(v)' = FALSE /\ pc[v][1] = "run")
    <2>1. v \notin Rqs => v \in Sqs
      BY Queues
    <2>2. CASE ConnectMsq(w, k)
      BY <2>1, <2>2 DEF ConnectMsq, Using, PairInv
    <2>3. CASE ThreadStops(w, k)
      <3>1. v \in Sqs => conn'[v] = conn[v] \/ (conn[v] # NoWq /\ conn'[v] = NoWq)
        BY <2>3, NoWqAssumption DEF ThreadStops, PairInv, Rqs
      <3> QED BY <2>1, <3>1 DEF Using, WorkerInv
    <2>4. CASE ~(ConnectMsq(w, k) \/ ThreadStops(w, k))
      <3>1. UNCHANGED conn
        BY <2>4 DEF Worker, ThreadNeverRuns, ThreadStart, CreateMsq, InitStopped,
                    ReceiveMsg, Received, SendMsg, Sending, msqs
      <3> QED BY <3>1 DEF Using
    <2> QED BY <2>2, <2>3, <2>4
  <1> QED BY <1>1, <1>2, <1>3, <1>4, LifeStutters, LifeLoses

\* What it means for itself.
LEMMA OwnLife ==
    ASSUME VerbInv, PairInv, WorkerInv, NEW w \in Wqs, NEW k \in Workers,
           Worker(w, k) \/ SendMsg(w, k), thread[w] <= 1
    PROVE  [Life(w)!Next]_(Life(w)!vars)
  <1>0. stop'[w][1] = stop[w][1] /\ Released(w)' = Released(w)
    BY WorkerFrame
  <1>k. /\ pc[w][k] # "none" => k = 1
        /\ 1 \in Workers
        /\ wq_state[w] = "EXITED" /\ pc[w][k] # "none" => pc[w][k] = "dead"
    <2>1. ThreadType
      BY DEF VerbInv
    <2>2. pc[w][k] # "none" => k = 1 /\ thread[w] = 1
      BY <2>1, TheWorker
    <2> QED BY <2>2, OneWorker DEF WorkerInv, Ended
  <1>u. Using(w) => pc[w][1] = "run"
    BY Queues DEF Using, WorkerInv
  <1>1. CASE ReceiveMsg(w, k) \/ SendMsg(w, k)
    <2>1. UNCHANGED <<pc, wq_state, open, conn>>
      BY <1>1 DEF ReceiveMsg, Received, SendMsg, Sending, threads
    <2> QED BY <1>0, <2>1, LifeStutters DEF Using
  <1>2. CASE ThreadNeverRuns(w, k)
    <2>1. /\ pc[w][1] = "created" /\ pc'[w][1] = "dead" /\ stop[w][1]
          /\ UNCHANGED <<wq_state, open, conn>>
      BY <1>k, <1>2 DEF ThreadNeverRuns, msqs, VerbInv, ThreadType
    <2>2. stop[w][1] = TRUE
      BY <1>k, <1>2, <2>1 DEF ThreadNeverRuns, VerbInv, ThreadType
    <2>3. Life(w)!NeverRun
      BY <1>0, <2>1, <2>2 DEF Life!NeverRun, Using
    <2> QED BY <2>3 DEF Life!Next
  <1>3. CASE ThreadStart(w, k)
    <2>1. /\ pc[w][1] = "created" /\ pc'[w][1] = "init" /\ ~stop[w][1]
          /\ wq_state'[w] = "RUNNING" /\ UNCHANGED <<open, conn>>
      BY <1>k, <1>3 DEF ThreadStart, msqs, VerbInv, ThreadType
    <2>2. wq_state[w] # "EXITED"
      BY <1>k, <1>3 DEF ThreadStart
    <2>3. Life(w)!Enter
      BY <1>0, <2>1, <2>2 DEF Life!Enter, Using
    <2> QED BY <2>3 DEF Life!Next
  <1>4. CASE CreateMsq(w, k) \/ ConnectMsq(w, k)
    <2>1. /\ pc[w][1] = "init" /\ pc'[w][1] = "run" /\ ~stop[w][1] /\ UNCHANGED wq_state
      BY <1>k, <1>4 DEF CreateMsq, ConnectMsq, VerbInv, ThreadType
    <2>2. Using(w)' = TRUE
      <3>1. CASE CreateMsq(w, k)
        BY <3>1 DEF CreateMsq, Using
      <3>2. CASE ConnectMsq(w, k)
        <4>1. \A r \in open : r # NoWq
          BY NoWqAssumption DEF PairInv, Rqs
        <4>2. w \in Sqs /\ \E r \in open : conn' = [conn EXCEPT ![w] = r]
          BY <3>2 DEF ConnectMsq
        <4>3. w \notin Rqs /\ conn'[w] # NoWq
          BY <4>1, <4>2, Queues DEF PairInv
        <4> QED BY <4>3 DEF Using
      <3> QED BY <1>4, <3>1, <3>2
    <2>3. Life(w)!Open
      BY <1>0, <2>1, <2>2 DEF Life!Open
    <2> QED BY <2>3 DEF Life!Next
  <1>5. CASE InitStopped(w, k)
    <2>1. /\ pc[w][1] = "init" /\ pc'[w][1] = "dead" /\ stop[w][1]
          /\ wq_state'[w] = "EXITED" /\ UNCHANGED <<open, conn>>
      BY <1>k, <1>5 DEF InitStopped, msqs, VerbInv, ThreadType
    <2>2. Using(w)' = FALSE
      BY <1>u, <2>1 DEF Using
    <2>3. Life(w)!End
      BY <1>0, <2>1, <2>2 DEF Life!End
    <2> QED BY <2>3 DEF Life!Next
  <1>6. CASE ThreadStops(w, k)
    <2>1. /\ pc[w][1] = "run" /\ pc'[w][1] = "dead" /\ stop[w][1] /\ wq_state'[w] = "EXITED"
      BY <1>k, <1>6 DEF ThreadStops, VerbInv, ThreadType
    <2>2. Using(w)' = FALSE
      <3>1. w \in Rqs => w \notin open'
        BY <1>6 DEF ThreadStops
      <3>2. w \notin Rqs => conn'[w] = NoWq
        BY <1>6, Queues DEF ThreadStops, PairInv
      <3> QED BY <3>1, <3>2 DEF Using
    <2>3. Life(w)!End
      BY <1>0, <2>1, <2>2 DEF Life!End
    <2> QED BY <2>3 DEF Life!Next
  <1> QED BY <1>1, <1>2, <1>3, <1>4, <1>5, <1>6 DEF Worker

\* A verb that leaves the workers alone and does not return from dis_qp_exit.
LEMMA VerbStutters ==
    ASSUME UNCHANGED <<threads, msqs>>, NEW w \in Wqs, Released(w)' = Released(w)
    PROVE  [Life(w)!Next]_(Life(w)!vars)
  BY LifeStutters DEF threads, msqs, Using

\* dis_qp_exit returns for a queue that had no worker or whose worker is gone.
LEMMA ExitReleases ==
    ASSUME VerbInv, NEW q \in Qps, call[q][1] \in {"exit", "join"}, ExitReturns(q),
           UNCHANGED <<threads, msqs>>, pc[At(q)][1] = "none" \/ wq_state[At(q)] = "EXITED",
           NEW w \in Wqs
    PROVE  [Life(w)!Next]_(Life(w)!vars)
  <1>t. VerbType
    BY DEF VerbInv
  <1>1. state[q] # "destroyed" /\ At(q) \in Wqs /\ At(q).qp = q
    BY <1>t, AtQueue, Calls DEF VerbInv, NameInv, QpNamed, VerbType
  <1>2. CASE w = At(q)
    <2>1. Released(w)' = TRUE
      <3>1. CASE At(q) \in Rqs
        <4>1. call'[q] = <<"exit", "DIS_SQ">>
          BY <1>t, <3>1 DEF ExitReturns, VerbType
        <4> QED BY <1>1, <1>2, <3>1, <4>1 DEF Released
      <3>2. CASE At(q) \notin Rqs
        <4>1. state'[q] = "destroyed"
          BY <1>t, <3>2 DEF ExitReturns, VerbType
        <4> QED BY <1>1, <1>2, <4>1 DEF Released
      <3> QED BY <3>1, <3>2
    <2>2. Life(w)!Release
      BY <1>2, <2>1 DEF Life!Release, threads, msqs, Using
    <2> QED BY <2>2 DEF Life!Next
  <1>3. CASE w # At(q) /\ w.qp # q
    <2>1. w.qp \in Qps
      BY Queues
    <2>2. call'[w.qp] = call[w.qp] /\ state'[w.qp] = state[w.qp]
      BY <1>t, <1>3, <2>1 DEF ExitReturns, VerbType
    <2> QED BY <2>2, VerbStutters DEF Released
  <1>4. CASE w # At(q) /\ w.qp = q
    <2>1. CASE At(q) \in Rqs
      <3>1. w \notin Rqs
        BY <1>1, <1>4, <2>1, Queues
      <3>2. UNCHANGED state
        BY <2>1 DEF ExitReturns
      <3> QED BY <3>1, <3>2, VerbStutters DEF Released
    <2>2. CASE At(q) \notin Rqs
      <3>1. w \in Rqs
        BY <1>1, <1>4, <2>2, Queues
      <3>2. call[q] \in {"exit", "join"} \X {"DIS_SQ"}
        BY <1>t, <2>2, AtQueue DEF VerbType
      <3>3. state'[q] = "destroyed"
        BY <1>t, <2>2 DEF ExitReturns, VerbType
      <3> QED BY <1>4, <3>1, <3>2, <3>3, VerbStutters DEF Released
    <2> QED BY <2>1, <2>2
  <1> QED BY <1>2, <1>3, <1>4

\* A change of state or call that is no return from dis_qp_exit.
LEMMA StaysReleased ==
    ASSUME NEW q \in Qps,
           \A p \in Qps : p # q => state'[p] = state[p] /\ call'[p] = call[p],
           state'[q] = "destroyed" <=> state[q] = "destroyed",
           (call'[q] \in {"exit", "join"} \X {"DIS_SQ"})
             <=> (call[q] \in {"exit", "join"} \X {"DIS_SQ"}),
           NEW w \in Wqs
    PROVE  Released(w)' = Released(w)
  <1>1. w.qp \in Qps
    BY Queues
  <1>2. CASE w.qp # q
    BY <1>1, <1>2 DEF Released
  <1>3. CASE w.qp = q
    BY <1>3 DEF Released
  <1> QED BY <1>2, <1>3

\* What a verb means for the worker of a queue.
LEMMA VerbLife ==
    ASSUME VerbInv, WorkerInv, NEW q \in Qps, Verb(q) \/ ModifyRtr(q) \/ DestroyQp(q),
           NEW w \in Wqs, thread'[w] <= 1
    PROVE  [Life(w)!Next]_(Life(w)!vars)
  <1>t. VerbType /\ NameInv /\ ThreadType
    BY DEF VerbInv
  <1>1. CASE ModifyRtr(q) \/ DestroyQp(q)
    <2>1. call[q] = Idle /\ UNCHANGED <<state, threads, msqs>>
      BY <1>1 DEF ModifyRtr, DestroyQp
    <2>c. PICK c \in {"init", "exit"} : call' = [call EXCEPT ![q] = <<c, "DIS_RQ">>]
      BY <1>1 DEF ModifyRtr, DestroyQp
    <2>2. /\ \A p \in Qps : p # q => call'[p] = call[p]
          /\ call'[q][2] = "DIS_RQ" /\ call[q][2] = "DIS_RQ"
      BY <1>t, <2>1, <2>c DEF VerbType, Idle
    <2>3. Released(w)' = Released(w)
      BY <2>1, <2>2, StaysReleased
    <2> QED BY <2>1, <2>3, VerbStutters
  <1>2. CASE QpInit(q)
    <2>1. /\ \A p \in Qps : p # q => state'[p] = state[p] /\ call'[p] = call[p]
          /\ call[q][1] = "init" /\ call'[q][1] \in {"init", "idle"}
          /\ state[q] # "destroyed" /\ state'[q] # "destroyed"
      BY <1>t, <1>2, InitChanges, Calls
    <2>2. Released(w)' = Released(w)
      BY <2>1, StaysReleased
    <2>a. PICK a : a = At(q)
      OBVIOUS
    <2>3. /\ a \in Wqs /\ a.qp = q /\ thread[a] \in Nat /\ thread'[a] = thread[a] + 1
          /\ pc[a][thread[a] + 1] = "none" /\ pc'[a][thread[a] + 1] = "created"
          /\ wq_state'[a] = "INITIALIZED" /\ wq_state[a] # "EXITED"
          /\ \A v \in Wqs : v # a => pc'[v] = pc[v] /\ wq_state'[v] = wq_state[v]
          /\ UNCHANGED <<stop, open, conn>>
      BY <1>2, <2>a, InitStarts
    <2>4. CASE w = a
      <3>1. ~Released(w)
        BY <2>1, <2>3, <2>4 DEF Released
      <3>2. thread[a] + 1 = 1
        BY <2>3, <2>4
      <3>3. Life(w)!Begin
        BY <2>2, <2>3, <2>4, <3>1, <3>2 DEF Life!Begin, Using
      <3> QED BY <3>3 DEF Life!Next
    <2>5. CASE w # a
      BY <2>2, <2>3, <2>5, LifeStutters DEF Using
    <2> QED BY <2>4, <2>5
  <1>3. CASE QpExitNothing(q) \/ QpExitJoin(q)
    <2>1. /\ ExitReturns(q) /\ call[q][1] \in {"exit", "join"} /\ UNCHANGED <<threads, msqs>>
          /\ wq_state[At(q)] \in {"UNINITIALIZED", "EXITED"}
      BY <1>3, ExitEnds
    <2>2. pc[At(q)][1] = "none" \/ wq_state[At(q)] = "EXITED"
      BY <1>t, <2>1, AtQueue, OneWorker DEF WorkerInv, VerbType
    <2> QED BY <2>1, <2>2, ExitReleases
  <1>4. CASE QpExitStop(q)
    <2>1. /\ call'[q] = <<"join", call[q][2]>> /\ call[q] = <<"exit", call[q][2]>>
          /\ \A p \in Qps : p # q => call'[p] = call[p]
          /\ UNCHANGED <<state, wq_state, thread, pc, open, conn>>
      BY <1>t, <1>4, StopCalls
    <2>2. /\ At(q) \in Wqs
          /\ wq_state[At(q)] \notin {"UNINITIALIZED", "EXITED"}
          /\ \A v \in Wqs, j \in Workers :
               IF v = At(q) /\ j = thread[v] THEN stop'[v][j] ELSE stop'[v][j] = stop[v][j]
      BY <1>t, <1>4, StopChanges
    <2>3. Released(w)' = Released(w)
      BY <2>1, StaysReleased
    <2>4. CASE w = At(q)
      <3>1. thread[w] = 1
        <4>1. thread[w] # 0 /\ thread[w] \in 0..MaxRtr /\ thread[w] <= 1
          BY <1>t, <2>1, <2>2, <2>4 DEF WorkerInv, ThreadType
        <4> QED BY <4>1, LinkAssumption
      <3>2. pc[w][1] # "none"
        BY <3>1, OneWorker DEF WorkerInv
      <3>3. stop'[w][1] = TRUE
        <4>1. stop'[w][1]
          BY <2>2, <2>4, <3>1, OneWorker
        <4>2. stop' \in [Wqs -> [Workers -> BOOLEAN]]
          BY <1>t, <1>4 DEF QpExitStop, ThreadType
        <4> QED BY <4>1, <4>2, OneWorker
      <3>4. Life(w)!Tell
        BY <2>1, <2>3, <3>2, <3>3 DEF Life!Tell, Using
      <3> QED BY <3>4 DEF Life!Next
    <2>5. CASE w # At(q)
      <3>1. stop'[w][1] = stop[w][1]
        BY <2>2, <2>5, OneWorker
      <3> QED BY <2>1, <2>3, <3>1, LifeStutters DEF Using
    <2> QED BY <2>4, <2>5
  <1> QED BY <1>1, <1>2, <1>3, <1>4 DEF Verb

\* Each step is, for each queue with one worker at most, a step of its worker's life or
\* none.
LEMMA LivesStep ==
    ASSUME VerbInv, PairInv, WorkerInv, [Next]_vars, NEW w \in Wqs, thread'[w] <= 1
    PROVE  [Life(w)!Next]_(Life(w)!vars)
  <1>t. VerbType /\ NameInv
    BY DEF VerbInv
  <1>1. ASSUME NEW n \in Nodes, NEW d \in Pds, CreateQp(n, d)
        PROVE  [Life(w)!Next]_(Life(w)!vars)
    <2>1. UNCHANGED <<call, threads, msqs>>
      BY <1>1 DEF CreateQp, NewQp
    <2>2. state'[w.qp] = "destroyed" <=> state[w.qp] = "destroyed"
      BY <1>t, <1>1, CreateNames, Queues
    <2>3. Released(w)' = Released(w)
      BY <2>1, <2>2 DEF Released
    <2> QED BY <2>1, <2>3, VerbStutters
  <1>2. ASSUME NEW q \in Qps, NEW s \in QpStates, ModifyQp(q, s)
        PROVE  [Life(w)!Next]_(Life(w)!vars)
    <2>1. /\ state' = [state EXCEPT ![q] = s] /\ UNCHANGED <<call, threads, msqs>>
          /\ state[q] # "destroyed" /\ s # "destroyed"
      BY <1>2, LinkAssumption DEF ModifyQp, Exists
    <2>2. state'[w.qp] = "destroyed" <=> state[w.qp] = "destroyed"
      BY <1>t, <2>1, Queues DEF VerbType
    <2>3. Released(w)' = Released(w)
      BY <2>1, <2>2 DEF Released
    <2> QED BY <2>1, <2>3, VerbStutters
  <1>3. ASSUME NEW q \in Qps, Verb(q) \/ ModifyRtr(q) \/ DestroyQp(q)
        PROVE  [Life(w)!Next]_(Life(w)!vars)
    BY <1>3, VerbLife
  <1>4. ASSUME NEW v \in Wqs, NEW k \in Workers, Worker(v, k) \/ SendMsg(v, k)
        PROVE  [Life(w)!Next]_(Life(w)!vars)
    <2>1. thread[w] <= 1
      BY <1>4, WorkerFrame
    <2>2. CASE v = w
      BY <1>4, <2>1, <2>2, OwnLife
    <2>3. CASE v # w
      BY <1>4, <2>1, <2>3, OthersLive
    <2> QED BY <2>2, <2>3
  <1>5. CASE UNCHANGED vars
    BY <1>5, VerbStutters DEF vars, verbs, Released
  <1> QED BY <1>1, <1>2, <1>3, <1>4, <1>5 DEF Next

\* Until its queue pair moves to RTR again the worker of every queue lives as that of one
\* work queue by itself does: no verb on a queue pair, move between its states, other
\* worker or step of the other node ends it or frees its queue too early.
THEOREM WorkersLiveSo == Spec => AreWorkers
  <1>1. Init => \A w \in Wqs : Life(w)!Init
    BY OneWorker, Queues DEF Init, Life!Init, Using, Released, Idle
  <1>2. VerbInv /\ PairInv /\ WorkerInv /\ [Next]_vars
          => [\A w \in Wqs : thread'[w] <= 1 => [Life(w)!Next]_(Life(w)!vars)]_vars
    BY LivesStep
  <1> QED BY <1>1, <1>2, VerbInit, VerbInvStep, PairInit, PairStep, WorkerInit, WorkerStep,
          PTL DEF Spec, AreWorkers
==============================================================================
