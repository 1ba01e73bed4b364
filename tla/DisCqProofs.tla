------------------------------- MODULE DisCqProofs ---------------------------
(***************************************************************************)
(* Proofs about a completion queue that one thread polls at a time, for    *)
(* every ring size and any number of work queues that share it.            *)
(***************************************************************************)
EXTENDS DisCq, CircBufLemmas, SequenceTheorems

\* dis_poll_cq is called by one thread at most.
OnePoller == \A p, q \in Pollers : p = q

AnyCqe == Cqes \cup {NoCqe}
Rings == [Slots -> AnyCqe]
Contents == CircContents(buf, head, tail, CqeMax)
Count == CircCnt(head, tail, CqeMax)

\* The slot of the i-th entry from t on.
SlotAt(t, i) == (t + i - 1) % CqeMax

\* The ring's size suits the lemmas about rings.
LEMMA RingSize == CqeMax \in Nat \ {0}
  BY CqAssumption

-----------------------------------------------------------------------------
(* What the ring holds, as a sequence.                                     *)

\* The contents of a ring are a sequence of as many entries as CIRC_CNT says.
LEMMA ContentsSeq ==
    ASSUME NEW b \in Rings, NEW h \in Slots, NEW t \in Slots
    PROVE  /\ CircContents(b, h, t, CqeMax) \in Seq(AnyCqe)
           /\ Len(CircContents(b, h, t, CqeMax)) = CircCnt(h, t, CqeMax)
           /\ \A i \in 1..CircCnt(h, t, CqeMax) :
                CircContents(b, h, t, CqeMax)[i] = b[SlotAt(t, i)]
  <1> DEFINE n == CircCnt(h, t, CqeMax)
  <1>1. n \in 0..CqeMax - 1
    BY RingSize, CircCntCases DEF Slots
  <1>2. \A i \in 1..n : SlotAt(t, i) \in Slots
    <2> SUFFICES ASSUME NEW i \in 1..n PROVE SlotAt(t, i) \in Slots
      OBVIOUS
    <2>1. i \in 1..CqeMax
      BY <1>1, RingSize
    <2> QED BY <2>1, RingSize, CircSlotCases DEF Slots, SlotAt
  <1>3. CircContents(b, h, t, CqeMax) \in [1..n -> AnyCqe]
    BY <1>2 DEF CircContents, SlotAt, Rings
  <1>4. n \in Nat
    BY <1>1, RingSize
  <1> HIDE DEF n
  <1>5. CircContents(b, h, t, CqeMax) \in Seq(AnyCqe)
    BY <1>3, <1>4, SeqDef
  <1>6. Len(CircContents(b, h, t, CqeMax)) = n
    BY <1>3, <1>4
  <1>7. \A i \in 1..n : CircContents(b, h, t, CqeMax)[i] = b[SlotAt(t, i)]
    BY DEF CircContents, SlotAt, n
  <1> QED BY <1>5, <1>6, <1>7 DEF n

\* The same, of contents and a count that have a name.
LEMMA NamedContents ==
    ASSUME NEW b \in Rings, NEW h \in Slots, NEW t \in Slots,
           NEW c, c = CircContents(b, h, t, CqeMax), NEW n, n = CircCnt(h, t, CqeMax)
    PROVE  /\ c \in Seq(AnyCqe)
           /\ Len(c) = n
           /\ \A i \in 1..n : c[i] = b[SlotAt(t, i)]
  BY ContentsSeq

\* Writing the slot at head leaves the contents alone.
LEMMA FillKeeps ==
    ASSUME NEW h \in Slots, NEW t \in Slots, NEW b, NEW c, \A i \in Slots : i # h => c[i] = b[i]
    PROVE  CircContents(c, h, t, CqeMax) = CircContents(b, h, t, CqeMax)
  <1> DEFINE n == CircCnt(h, t, CqeMax)
  <1>1. n \in 0..CqeMax - 1
    BY RingSize, CircCntCases DEF Slots
  <1>2. ASSUME NEW i \in 1..n PROVE c[SlotAt(t, i)] = b[SlotAt(t, i)]
    <2>1. i \in 1..n + 1 /\ i # n + 1 /\ i \in 1..CqeMax
      BY <1>1, RingSize
    <2>2. SlotAt(t, i) # h
      BY <2>1, RingSize, CircHeadSlot DEF Slots, SlotAt
    <2>3. SlotAt(t, i) \in Slots
      BY <2>1, RingSize, CircSlotCases DEF Slots, SlotAt
    <2> QED BY <2>2, <2>3
  <1> QED BY <1>2 DEF CircContents, SlotAt

\* Advancing head appends the entry that was there.
LEMMA PublishAppends ==
    ASSUME NEW b \in Rings, NEW h \in Slots, NEW t \in Slots,
           CircSpace(h, t, CqeMax) >= 1
    PROVE  CircContents(b, CircNext(h, CqeMax), t, CqeMax)
             = Append(CircContents(b, h, t, CqeMax), b[h])
  <1> DEFINE n == CircCnt(h, t, CqeMax)
             old == CircContents(b, h, t, CqeMax)
             new == CircContents(b, CircNext(h, CqeMax), t, CqeMax)
  <1>1. CircNext(h, CqeMax) \in Slots
    BY RingSize, CircNextCases DEF Slots
  <1>2. CircCnt(CircNext(h, CqeMax), t, CqeMax) = n + 1
    BY RingSize, CircCntGrows DEF Slots
  <1>3. /\ old \in Seq(AnyCqe)
        /\ Len(old) = n
        /\ \A i \in 1..n : old[i] = b[SlotAt(t, i)]
    <2> HIDE DEF n, old
    <2>1. n = CircCnt(h, t, CqeMax) /\ old = CircContents(b, h, t, CqeMax)
      BY DEF n, old
    <2> QED BY <2>1, NamedContents
  <1>4. /\ new \in Seq(AnyCqe)
        /\ Len(new) = n + 1
        /\ \A i \in 1..n + 1 : new[i] = b[SlotAt(t, i)]
    <2>1. new = CircContents(b, CircNext(h, CqeMax), t, CqeMax)
      BY DEF new
    <2>2. PICK h2 \in Slots : h2 = CircNext(h, CqeMax)
      BY <1>1
    <2>3. PICK m : m = CircCnt(h2, t, CqeMax)
      OBVIOUS
    <2>4. m = n + 1
      BY <1>2, <2>2, <2>3
    <2> HIDE DEF n, new
    <2>5. /\ new \in Seq(AnyCqe)
          /\ Len(new) = m
          /\ \A i \in 1..m : new[i] = b[SlotAt(t, i)]
      BY <2>1, <2>2, <2>3, NamedContents
    <2> QED BY <2>4, <2>5
  <1>5. n \in Nat
    BY RingSize, CircCntCases DEF Slots
  <1>6. b[SlotAt(t, n + 1)] = b[h]
    <2>1. n + 1 \in 1..n + 1
      BY <1>5
    <2>2. SlotAt(t, n + 1) = h
      BY <2>1, RingSize, CircHeadSlot DEF Slots, SlotAt
    <2> QED BY <2>2
  <1> HIDE DEF n, old, new
  <1>7. b[h] \in AnyCqe
    BY DEF Rings
  <1>8. /\ Append(old, b[h]) \in Seq(AnyCqe)
        /\ Len(Append(old, b[h])) = n + 1
        /\ \A i \in 1..n : Append(old, b[h])[i] = old[i]
        /\ Append(old, b[h])[n + 1] = b[h]
    BY <1>3, <1>7, AppendProperties
  <1>9. \A i \in 1..n + 1 : new[i] = Append(old, b[h])[i]
    <2> SUFFICES ASSUME NEW i \in 1..n + 1 PROVE new[i] = Append(old, b[h])[i]
      OBVIOUS
    <2>1. CASE i = n + 1
      BY <2>1, <1>4, <1>5, <1>6, <1>8
    <2>2. CASE i # n + 1
      <3>1. i \in 1..n
        BY <2>2, <1>5
      <3> QED BY <3>1, <1>3, <1>4, <1>8
    <2> QED BY <2>1, <2>2
  <1>10. new = Append(old, b[h])
    BY <1>4, <1>8, <1>9, SeqEqual
  <1> QED BY <1>10 DEF new, old

\* Advancing tail takes the oldest entry.
LEMMA RetireTakes ==
    ASSUME NEW b \in Rings, NEW h \in Slots, NEW t \in Slots,
           CircCnt(h, t, CqeMax) >= 1
    PROVE  /\ CircContents(b, h, t, CqeMax) # <<>>
           /\ Head(CircContents(b, h, t, CqeMax)) = b[t]
           /\ CircContents(b, h, CircNext(t, CqeMax), CqeMax)
                = Tail(CircContents(b, h, t, CqeMax))
  <1> DEFINE n == CircCnt(h, t, CqeMax)
             old == CircContents(b, h, t, CqeMax)
             new == CircContents(b, h, CircNext(t, CqeMax), CqeMax)
  <1>1. CircNext(t, CqeMax) \in Slots
    BY RingSize, CircNextCases DEF Slots
  <1>2. CircCnt(h, CircNext(t, CqeMax), CqeMax) = n - 1
    BY RingSize, CircCntShrinks DEF Slots
  <1>3. /\ old \in Seq(AnyCqe)
        /\ Len(old) = n
        /\ \A i \in 1..n : old[i] = b[SlotAt(t, i)]
    <2> HIDE DEF n, old
    <2>1. n = CircCnt(h, t, CqeMax) /\ old = CircContents(b, h, t, CqeMax)
      BY DEF n, old
    <2> QED BY <2>1, NamedContents
  <1>4. /\ new \in Seq(AnyCqe)
        /\ Len(new) = n - 1
        /\ \A i \in 1..n - 1 : new[i] = b[SlotAt(CircNext(t, CqeMax), i)]
    <2>1. new = CircContents(b, h, CircNext(t, CqeMax), CqeMax)
      BY DEF new
    <2>2. PICK t2 \in Slots : t2 = CircNext(t, CqeMax)
      BY <1>1
    <2>3. PICK m : m = CircCnt(h, t2, CqeMax)
      OBVIOUS
    <2>4. m = n - 1
      BY <1>2, <2>2, <2>3
    <2> HIDE DEF n, new
    <2>5. /\ new \in Seq(AnyCqe)
          /\ Len(new) = m
          /\ \A i \in 1..m : new[i] = b[SlotAt(t2, i)]
      BY <2>1, <2>2, <2>3, NamedContents
    <2> QED BY <2>2, <2>4, <2>5
  <1>5. n \in 1..CqeMax - 1
    BY RingSize, CircCntCases DEF Slots
  <1>6. old[1] = b[t]
    <2>1. SlotAt(t, 1) = t
      BY RingSize, CircSlotCases DEF Slots, SlotAt
    <2> QED BY <2>1, <1>3, <1>5
  <1>7. \A i \in 1..n - 1 : new[i] = old[i + 1]
    <2> SUFFICES ASSUME NEW i \in 1..n - 1 PROVE new[i] = old[i + 1]
      OBVIOUS
    <2>1. i \in 1..CqeMax - 1 /\ i + 1 \in 1..n
      BY <1>5, RingSize
    <2>2. SlotAt(CircNext(t, CqeMax), i) = SlotAt(t, i + 1)
      BY <2>1, RingSize, CircSlotShifts DEF Slots, SlotAt
    <2> QED BY <2>1, <2>2, <1>3, <1>4
  <1> HIDE DEF n, old, new
  <1>8. old # <<>> /\ Head(old) = old[1]
    BY <1>3, <1>5, EmptySeq
  <1>9. /\ Tail(old) \in Seq(AnyCqe)
        /\ Len(Tail(old)) = n - 1
        /\ \A i \in 1..n - 1 : Tail(old)[i] = old[i + 1]
    BY <1>3, <1>8, HeadTailProperties
  <1>10. new = Tail(old)
    BY <1>4, <1>7, <1>9, SeqEqual
  <1> QED BY <1>6, <1>8, <1>10 DEF new, old

-----------------------------------------------------------------------------
(* The invariant.                                                          *)

\* A worker between lock and unlock is alone there, has space before it, and
\* once it has filled the entry at head, that is what it is about to publish.
PostInv ==
  \A w \in Wqs :
    /\ wpc[w] # "run" => done[w] < MaxCqes
    /\ wpc[w] \in {"fill", "publish"} => cqe_lock = w /\ CircSpace(head, tail, CqeMax) >= 1
    /\ wpc[w] = "publish" => buf[head] = CurrentCqe(w)

\* The poller in the loop has tail in hand, an entry is there, and what it has
\* copied is that entry.
PollInv ==
  \A p \in Pollers :
    /\ ppc[p] \in {"read", "store"} => ptail[p] = tail /\ Count >= 1 /\ wc_left[p] > 0
    /\ ppc[p] = "store" => wc[p] = buf[tail]

CqInv == TypeOK /\ PostInv /\ PollInv

\* An empty queue satisfies it.
LEMMA CqInit == Init => CqInv
  BY RingSize, CqAssumption DEF Init, CqInv, TypeOK, PostInv, PollInv, Slots, NoCqe

\* The completion a worker is about to post is one that its queue has left.
LEMMA NextCqe ==
    ASSUME CqInv, NEW w \in Wqs, wpc[w] # "run"
    PROVE  done[w] + 1 \in 1..MaxCqes /\ CurrentCqe(w) \in Cqes
  <1>1. done[w] \in 0..MaxCqes /\ done[w] < MaxCqes /\ MaxCqes \in Nat
    BY CqAssumption DEF CqInv, TypeOK, PostInv
  <1> QED BY <1>1 DEF CurrentCqe, Cqes

\* The types: no index leaves the ring.
LEMMA TypeStep == CqInv /\ [Next]_vars => TypeOK'
  <1> SUFFICES ASSUME CqInv, [Next]_vars PROVE TypeOK'
    OBVIOUS
  <1> USE DEF CqInv, TypeOK, wqVars, pollVars
  <1>1. ASSUME NEW w \in Wqs, Complete(w) PROVE TypeOK'
    BY <1>1 DEF Complete
  <1>2. ASSUME NEW w \in Wqs, PostLock(w) PROVE TypeOK'
    BY <1>2 DEF PostLock
  <1>3. ASSUME NEW w \in Wqs, PostFull(w) PROVE TypeOK'
    <2>1. done[w] + 1 \in 1..MaxCqes /\ CurrentCqe(w) \in Cqes
      BY <1>3, NextCqe DEF PostFull
    <2> QED BY <1>3, <2>1 DEF PostFull
  <1>4. ASSUME NEW w \in Wqs, PostFill(w) PROVE TypeOK'
    <2>1. done[w] + 1 \in 1..MaxCqes /\ CurrentCqe(w) \in Cqes
      BY <1>4, NextCqe DEF PostFill
    <2> QED BY <1>4, <2>1 DEF PostFill
  <1>5. ASSUME NEW w \in Wqs, PostPublish(w) PROVE TypeOK'
    <2>1. done[w] + 1 \in 1..MaxCqes
      BY <1>5, NextCqe DEF PostPublish
    <2>2. CircNext(head, CqeMax) \in Slots
      BY RingSize, CircNextCases DEF Slots
    <2> QED BY <1>5, <2>1, <2>2 DEF PostPublish
  <1>6. ASSUME NEW p \in Pollers, PollCall(p) PROVE TypeOK'
    BY <1>6, CqAssumption DEF PollCall
  <1>7. ASSUME NEW p \in Pollers, PollLoad(p) PROVE TypeOK'
    BY <1>7 DEF PollLoad
  <1>8. ASSUME NEW p \in Pollers, PollReturn(p) PROVE TypeOK'
    BY <1>8 DEF PollReturn
  <1>9. ASSUME NEW p \in Pollers, PollRead(p) PROVE TypeOK'
    BY <1>9 DEF PollRead
  <1>10. ASSUME NEW p \in Pollers, PollStore(p) PROVE TypeOK'
    <2>1. wc_left[p] - 1 \in Nat
      BY <1>10 DEF PollStore, PollInv
    <2>2. CircNext(ptail[p], CqeMax) \in Slots
      BY RingSize, CircNextCases DEF Slots
    <2> QED BY <1>10, <2>1, <2>2 DEF PollStore
  <1>11. CASE UNCHANGED vars
    BY <1>11 DEF vars
  <1> QED
    BY <1>1, <1>2, <1>3, <1>4, <1>5, <1>6, <1>7, <1>8, <1>9, <1>10, <1>11
    DEF Next, Post, Poll

\* One slot more or less: what a store to head or tail does to the space and
\* to the entries.
LEMMA Advance ==
    ASSUME TypeOK
    PROVE  /\ CircSpace(head, tail, CqeMax) = CqeMax - 1 - Count
           /\ Count \in 0..CqeMax - 1
           /\ CircSpace(head, tail, CqeMax) >= 1
                => /\ CircNext(head, CqeMax) \in Slots
                   /\ CircCnt(CircNext(head, CqeMax), tail, CqeMax) = Count + 1
           /\ Count >= 1
                => /\ CircNext(tail, CqeMax) \in Slots
                   /\ CircCnt(head, CircNext(tail, CqeMax), CqeMax) = Count - 1
                   /\ CircSpace(head, CircNext(tail, CqeMax), CqeMax)
                        = CircSpace(head, tail, CqeMax) + 1
                   /\ head # tail
  <1> USE RingSize DEF TypeOK, Slots, Count
  <1>1. Count \in 0..CqeMax - 1 /\ CircSpace(head, tail, CqeMax) = CqeMax - 1 - Count
    BY CircCntCases, CircSpaceCases
  <1>2. CircNext(head, CqeMax) \in Slots /\ CircNext(tail, CqeMax) \in Slots
    BY CircNextCases
  <1>3. ASSUME CircSpace(head, tail, CqeMax) >= 1
        PROVE  CircCnt(CircNext(head, CqeMax), tail, CqeMax) = Count + 1
    BY <1>3, CircCntGrows
  <1>4. ASSUME Count >= 1
        PROVE  /\ CircCnt(head, CircNext(tail, CqeMax), CqeMax) = Count - 1
               /\ CircSpace(head, CircNext(tail, CqeMax), CqeMax)
                    = CqeMax - 1 - CircCnt(head, CircNext(tail, CqeMax), CqeMax)
               /\ head # tail
    <2>1. CircCnt(head, CircNext(tail, CqeMax), CqeMax) = Count - 1
      BY <1>4, CircCntShrinks
    <2>2. CircSpace(head, CircNext(tail, CqeMax), CqeMax)
            = CqeMax - 1 - CircCnt(head, CircNext(tail, CqeMax), CqeMax)
      BY <1>2, CircSpaceCases
    <2>3. head # tail
      <3>1. Count = IF head < tail THEN head - tail + CqeMax ELSE head - tail
        BY CircCntCases
      <3> QED BY <1>4, <3>1
    <2> QED BY <2>1, <2>2, <2>3
  <1> QED BY <1>1, <1>2, <1>3, <1>4

\* With one poller no step of a worker or of the poller breaks the invariant.
LEMMA CqStep ==
    ASSUME OnePoller
    PROVE  CqInv /\ [Next]_vars => CqInv'
  <1> SUFFICES ASSUME CqInv, [Next]_vars PROVE PostInv' /\ PollInv'
    BY TypeStep DEF CqInv
  <1> USE DEF CqInv, TypeOK, wqVars, pollVars
  <1>1. ASSUME NEW w \in Wqs, Complete(w) PROVE PostInv' /\ PollInv'
    <2> USE <1>1 DEF Complete
    <2>1. PostInv'
      BY DEF PostInv, CurrentCqe
    <2>2. PollInv'
      BY DEF PollInv, Count
    <2> QED BY <2>1, <2>2
  <1>2. ASSUME NEW w \in Wqs, PostLock(w) PROVE PostInv' /\ PollInv'
    <2> USE <1>2 DEF PostLock
    <2>1. PostInv'
      BY CqAssumption DEF PostInv, CurrentCqe
    <2>2. PollInv'
      BY DEF PollInv, Count
    <2> QED BY <2>1, <2>2
  <1>3. ASSUME NEW w \in Wqs, PostFull(w) PROVE PostInv' /\ PollInv'
    <2> USE <1>3 DEF PostFull
    <2>1. PostInv'
      BY CqAssumption DEF PostInv, CurrentCqe
    <2>2. PollInv'
      BY DEF PollInv, Count
    <2> QED BY <2>1, <2>2
  <1>4. ASSUME NEW w \in Wqs, PostFill(w) PROVE PostInv' /\ PollInv'
    <2> USE <1>4 DEF PostFill
    <2>1. PostInv'
      BY DEF PostInv, CurrentCqe
    <2>2. PollInv'
      BY Advance DEF PollInv, Count
    <2> QED BY <2>1, <2>2
  <1>5. ASSUME NEW w \in Wqs, PostPublish(w) PROVE PostInv' /\ PollInv'
    <2> USE <1>5 DEF PostPublish
    <2>1. PostInv'
      BY CqAssumption DEF PostInv, CurrentCqe
    <2>2. PollInv'
      BY Advance DEF PollInv, PostInv, Count
    <2> QED BY <2>1, <2>2
  <1>6. ASSUME NEW p \in Pollers, PollCall(p) PROVE PostInv' /\ PollInv'
    <2> USE <1>6 DEF PollCall
    <2>1. PostInv'
      BY DEF PostInv, CurrentCqe
    <2>2. PollInv'
      BY DEF PollInv, Count
    <2> QED BY <2>1, <2>2
  <1>7. ASSUME NEW p \in Pollers, PollLoad(p) PROVE PostInv' /\ PollInv'
    <2> USE <1>7 DEF PollLoad
    <2>1. PostInv'
      BY DEF PostInv, CurrentCqe
    <2>2. PollInv'
      BY DEF PollInv, Count
    <2> QED BY <2>1, <2>2
  <1>8. ASSUME NEW p \in Pollers, PollReturn(p) PROVE PostInv' /\ PollInv'
    <2> USE <1>8 DEF PollReturn
    <2>1. PostInv'
      BY DEF PostInv, CurrentCqe
    <2>2. PollInv'
      BY DEF PollInv, Count
    <2> QED BY <2>1, <2>2
  <1>9. ASSUME NEW p \in Pollers, PollRead(p) PROVE PostInv' /\ PollInv'
    <2> USE <1>9 DEF PollRead
    <2>1. PostInv'
      BY DEF PostInv, CurrentCqe
    <2>2. PollInv'
      BY DEF PollInv, Count
    <2> QED BY <2>1, <2>2
  <1>10. ASSUME NEW p \in Pollers, PollStore(p) PROVE PostInv' /\ PollInv'
    <2> USE <1>10 DEF PollStore
    <2>3. CircSpace(head, tail, CqeMax) >= 1 => CircSpace(head, tail', CqeMax) >= 1
      <3>1. Count >= 1 /\ tail' = CircNext(tail, CqeMax)
        BY DEF PollInv
      <3> HIDE DEF CqInv
      <3> QED BY <3>1, Advance, RingSize DEF CqInv
    <2>1. PostInv'
      BY <2>3 DEF PostInv, CurrentCqe
    <2>2. PollInv'
      BY DEF OnePoller, PollInv, Count
    <2> QED BY <2>1, <2>2
  <1>11. CASE UNCHANGED vars
    BY <1>11 DEF vars, PostInv, PollInv, CurrentCqe, Count
  <1> QED
    BY <1>1, <1>2, <1>3, <1>4, <1>5, <1>6, <1>7, <1>8, <1>9, <1>10, <1>11
    DEF Next, Post, Poll

\* A filled ring has no entry in common with the slot being written.
LEMMA CqSafe == CqInv => TypeOK /\ NoSharedSlot
  BY Advance DEF CqInv, PostInv, PollInv, NoSharedSlot

-----------------------------------------------------------------------------
(* The queue implements BoundedFifo.                                       *)

\* An empty ring is an empty queue.
LEMMA FifoInit == Init => Fifo!Init
  <1> SUFFICES ASSUME Init PROVE Contents = <<>>
    BY DEF Init, Fifo!Init, Contents
  <1>1. TypeOK
    BY CqInit DEF CqInv
  <1>2. Count = 0
    <2>1. Count = IF head < tail THEN head - tail + CqeMax ELSE head - tail
      BY <1>1, RingSize, CircCntCases DEF TypeOK, Slots, Count
    <2> QED BY <2>1 DEF Init
  <1>3. Contents \in Seq(AnyCqe) /\ Len(Contents) = 0
    <2>1. head \in Slots /\ tail \in Slots /\ buf \in Rings
      BY <1>1 DEF TypeOK, AnyCqe, Rings
    <2> QED BY <1>2, <2>1, ContentsSeq DEF Contents, Count
  <1> QED BY <1>3, EmptySeq

\* What is not a put, a take or a rejection leaves the contents alone.
LEMMA FifoStutters ==
    UNCHANGED <<head, tail, buf, polled, dropped>> => UNCHANGED Fifo!vars
  BY DEF Fifo!vars

\* Each step of the queue is a step of the abstract queue or none.
LEMMA FifoStep == CqInv /\ [Next]_vars => [Fifo!Next]_(Fifo!vars)
  <1> SUFFICES ASSUME CqInv, [Next]_vars PROVE [Fifo!Next]_(Fifo!vars)
    OBVIOUS
  <1>0. /\ head \in Slots
        /\ tail \in Slots
        /\ buf \in Rings
        /\ TypeOK
    BY DEF CqInv, TypeOK, AnyCqe, Rings
  <1>1. ASSUME NEW w \in Wqs, PostFull(w) PROVE [Fifo!Next]_(Fifo!vars)
    <2>1. CurrentCqe(w) \in Cqes
      BY <1>1, NextCqe DEF PostFull
    <2>2. Len(Contents) = Count
      BY <1>0, ContentsSeq DEF Contents, Count
    <2>3. Count = CqeMax - 1
      BY <1>0, <1>1, Advance, RingSize DEF PostFull
    <2>4. Fifo!TurnAway(CurrentCqe(w))
      BY <1>1, <2>2, <2>3 DEF PostFull, pollVars, Fifo!TurnAway, Contents
    <2> QED BY <2>1, <2>4 DEF Fifo!Next
  <1>2. ASSUME NEW w \in Wqs, PostFill(w) PROVE [Fifo!Next]_(Fifo!vars)
    <2>1. \A i \in Slots : i # head => buf'[i] = buf[i]
      BY <1>0, <1>2 DEF PostFill, Rings
    <2>2. CircContents(buf', head, tail, CqeMax) = Contents
      BY <1>0, <2>1, FillKeeps DEF Contents
    <2>3. Contents' = Contents
      BY <1>2, <2>2 DEF PostFill, Contents
    <2> QED BY <1>2, <2>3 DEF PostFill, pollVars, Fifo!vars, Contents
  <1>3. ASSUME NEW w \in Wqs, PostPublish(w) PROVE [Fifo!Next]_(Fifo!vars)
    <2>1. CurrentCqe(w) \in Cqes
      BY <1>3, NextCqe DEF PostPublish
    <2>2. CircSpace(head, tail, CqeMax) >= 1 /\ buf[head] = CurrentCqe(w)
      BY <1>3 DEF CqInv, PostInv, PostPublish
    <2>3. Contents' = Append(Contents, CurrentCqe(w))
      BY <1>0, <1>3, <2>2, PublishAppends DEF PostPublish, Contents
    <2>4. Len(Contents) = Count
      BY <1>0, ContentsSeq DEF Contents, Count
    <2>5. Count < CqeMax - 1
      BY <1>0, <2>2, Advance, RingSize
    <2>6. Fifo!Put(CurrentCqe(w))
      BY <1>3, <2>3, <2>4, <2>5 DEF PostPublish, pollVars, Fifo!Put, Contents
    <2> QED BY <2>1, <2>6 DEF Fifo!Next
  <1>4. ASSUME NEW p \in Pollers, PollStore(p) PROVE [Fifo!Next]_(Fifo!vars)
    <2>1. Count >= 1 /\ ptail[p] = tail /\ wc[p] = buf[tail]
      BY <1>4 DEF CqInv, PollInv, PollStore
    <2>2. /\ Contents # <<>>
          /\ Head(Contents) = wc[p]
          /\ CircContents(buf, head, CircNext(tail, CqeMax), CqeMax) = Tail(Contents)
      BY <1>0, <2>1, RetireTakes DEF Contents, Count
    <2>3. Fifo!Take
      BY <1>4, <2>1, <2>2 DEF PollStore, wqVars, Fifo!Take, Contents
    <2> QED BY <2>3 DEF Fifo!Next
  <1>5. ASSUME UNCHANGED <<head, tail, buf, polled, dropped>> PROVE [Fifo!Next]_(Fifo!vars)
    BY <1>5, FifoStutters
  <1>6. ASSUME NEW w \in Wqs, Complete(w) \/ PostLock(w) PROVE [Fifo!Next]_(Fifo!vars)
    BY <1>5, <1>6 DEF Complete, PostLock, pollVars
  <1>7. ASSUME NEW p \in Pollers, PollCall(p) \/ PollLoad(p) \/ PollReturn(p) \/ PollRead(p)
        PROVE  [Fifo!Next]_(Fifo!vars)
    BY <1>5, <1>7 DEF PollCall, PollLoad, PollReturn, PollRead, wqVars
  <1>8. CASE UNCHANGED vars
    BY <1>5, <1>8 DEF vars, wqVars, pollVars
  <1> QED BY <1>1, <1>2, <1>3, <1>4, <1>6, <1>7, <1>8 DEF Next, Post, Poll

\* With one poller every variable of a completion queue keeps its type: neither
\* index leaves the ring (dis_wq_post_sqe_cqe, dis_wq_post_rqe_cqe, dis_poll_cq).
THEOREM CqTypeCorrect == ASSUME OnePoller PROVE Spec => []TypeOK
  BY CqInit, CqStep, CqSafe, PTL DEF Spec

\* With one poller no worker writes the entry that is being copied, although
\* dis_poll_cq takes no lock.
THEOREM CqRaceFree == ASSUME OnePoller PROVE Spec => []NoSharedSlot
  BY CqInit, CqStep, CqSafe, PTL DEF Spec

\* With one poller a completion queue that any number of work queues share is a
\* first-in first-out queue of CqeMax - 1 entries, for every CqeMax: dis_poll_cq
\* hands out each completion once and in order, and one is dropped only if the
\* ring is full.
THEOREM CqImplementsFifo == ASSUME OnePoller PROVE Spec => IsFifo
  BY CqInit, CqStep, FifoInit, FifoStep, PTL DEF Spec, IsFifo, Fifo!Spec
==============================================================================
