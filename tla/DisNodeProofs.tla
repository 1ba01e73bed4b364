------------------------------ MODULE DisNodeProofs --------------------------
(***************************************************************************)
(* Proofs about a node: the memory of a protection domain for any number   *)
(* of calling threads, its keys for one, and the order in which the kernel *)
(* modules come and go, whatever the size of the tables.                   *)
(***************************************************************************)
EXTENDS DisNode, TLAPS

(* The memory of a domain.                                                 *)

\* A call has an object from its first kzalloc to its return.
Busy(t) == pc[t] \notin {"idle", "mr", "qp"}

\* What it has allocated for it.
HeldNames(t) ==
  IF pc[t] \in {"pin", "sq"} THEN {"struct"}
  ELSE IF pc[t] = "pages" THEN {"struct", "umem"}
  ELSE IF pc[t] = "rq" THEN {"struct", "sq"}
  ELSE Names(obj[t])

MemType ==
  /\ pd \in BOOLEAN
  /\ is_dma \in BOOLEAN
  /\ live \subseteq Objs
  /\ heap \subseteq Objs \X PieceNames
  /\ pc \in [Threads -> Steps]
  /\ obj \in [Threads -> Objs \cup {NULL}]

\* Without a domain there is nothing in it and no call on it.
NoneLeft == ~pd => live = {} /\ \A t \in Threads : pc[t] = "idle"

\* The object of a call is of the call's kind.
ObjKinds ==
  \A t \in Threads :
    /\ pc[t] \in {"pin", "pages", "fill"} => obj[t] \in Mrs /\ ~is_dma
    /\ pc[t] = "key" => obj[t] \in Mrs
    /\ pc[t] \in {"sq", "rq"} => obj[t] \in Qps
    /\ Busy(t) => obj[t] \in Objs

\* Nobody else has it.
ObjOwned ==
  \A t \in Threads : Busy(t) =>
    /\ obj[t] \notin live
    /\ \A u \in Threads : Busy(u) /\ obj[u] = obj[t] => u = t

\* A live object has all its pieces, that of a call what it has got so far,
\* and no others have any.
LivePieces == \A o \in live, x \in PieceNames : <<o, x>> \in heap <=> x \in Names(o)
HeldPieces ==
  \A t \in Threads, x \in PieceNames :
    Busy(t) => (<<obj[t], x>> \in heap <=> x \in HeldNames(t))
PiecesOwned ==
  \A o \in Objs, x \in PieceNames :
    <<o, x>> \in heap => o \in live \/ \E t \in Threads : Busy(t) /\ obj[t] = o

MemInv ==
  MemType /\ NoneLeft /\ ObjKinds /\ ObjOwned /\ LivePieces /\ HeldPieces /\ PiecesOwned

\* What kzalloc returns is neither in use nor held by a call.
LEMMA FreshObject ==
    ASSUME MemInv, NEW o \in Objs \ Allocated
    PROVE  /\ o \notin live
           /\ \A t \in Threads : Busy(t) => obj[t] # o
           /\ \A x \in PieceNames : <<o, x>> \notin heap
  <1>1. \A x \in PieceNames : <<o, x>> \notin heap
    <2> SUFFICES ASSUME NEW x \in PieceNames, <<o, x>> \in heap PROVE FALSE
      OBVIOUS
    <2>1. <<o, x>>[1] \in Allocated
      BY DEF Allocated
    <2> QED BY <2>1
  <1>2. "struct" \in PieceNames
    BY DEF PieceNames
  <1>3. "struct" \in Names(o) /\ \A t \in Threads : "struct" \in HeldNames(t)
    BY DEF Names, MrNames, HeldNames
  <1>4. o \notin live
    BY <1>1, <1>2, <1>3 DEF MemInv, LivePieces
  <1>5. \A t \in Threads : Busy(t) => obj[t] # o
    BY <1>1, <1>2, <1>3 DEF MemInv, HeldPieces
  <1> QED BY <1>1, <1>4, <1>5

\* An object's pieces have names of their own.
LEMMA NamesOfPieces == \A o : Names(o) \subseteq PieceNames
  BY DEF Names, MrNames, PieceNames

\* What MemInv speaks of.
memVars == <<pd, is_dma, live, heap, pc, obj>>

\* A step that changes none of it keeps it.
LEMMA MemFrame == MemInv /\ UNCHANGED memVars => MemInv'
  BY DEF MemInv, MemType, NoneLeft, ObjKinds, ObjOwned, LivePieces, HeldPieces,
       PiecesOwned, Busy, HeldNames, Names, MrNames, memVars

\* No step leaks memory or frees what is in use.
LEMMA MemStep == MemInv /\ [PdNext]_pdVars => MemInv'
  <1> SUFFICES ASSUME MemInv, [PdNext]_pdVars PROVE MemInv'
    OBVIOUS
  <1> USE NamesOfPieces, PdAssumption DEF MemInv
  <1>1. CASE AllocPd
    <2> USE <1>1 DEF AllocPd
    <2>1. MemType' /\ NoneLeft' /\ ObjKinds' /\ ObjOwned'
      BY DEF MemType, NoneLeft, ObjKinds, ObjOwned, Busy
    <2>2. LivePieces'
      BY DEF LivePieces, NoneLeft
    <2>3. HeldPieces'
      BY DEF HeldPieces, Busy, NoneLeft
    <2>4. PiecesOwned'
      BY DEF PiecesOwned, Busy
    <2> QED BY <2>1, <2>2, <2>3, <2>4
  <1>2. CASE DeallocPd
    <2> USE <1>2 DEF DeallocPd
    <2>1. MemType' /\ NoneLeft' /\ ObjKinds' /\ ObjOwned'
      BY DEF MemType, NoneLeft, ObjKinds, ObjOwned, Busy
    <2>2. LivePieces'
      BY DEF LivePieces
    <2>3. HeldPieces'
      BY DEF HeldPieces, Busy
    <2>4. PiecesOwned'
      BY DEF PiecesOwned, Busy
    <2> QED BY <2>1, <2>2, <2>3, <2>4
  <1>3. ASSUME NEW t \in Threads, NEW k \in Kinds, CheckRoom(t, k) PROVE MemInv'
    <2> USE <1>3 DEF CheckRoom, Enter
    <2>1. MemType' /\ NoneLeft' /\ ObjKinds' /\ ObjOwned'
      BY DEF Kinds, Steps, MemType, NoneLeft, ObjKinds, ObjOwned, Busy
    <2>2. LivePieces'
      BY DEF LivePieces, Names, MrNames
    <2>3. HeldPieces'
      BY DEF HeldPieces, Busy, HeldNames, Names, MrNames, Kinds
    <2>4. PiecesOwned'
      BY DEF PiecesOwned, Busy
    <2> QED BY <2>1, <2>2, <2>3, <2>4
  <1>4. ASSUME NEW t \in Threads, AllocMr(t) PROVE MemInv'
    <2> USE <1>4 DEF AllocMr
    <2>1. PICK m \in Mrs \ Allocated :
            obj' = [obj EXCEPT ![t] = m] /\ heap' = heap \cup {<<m, "struct">>}
      OBVIOUS
    <2>2. /\ m \notin live
          /\ \A u \in Threads : Busy(u) => obj[u] # m
          /\ \A x \in PieceNames : <<m, x>> \notin heap
      BY FreshObject DEF Objs
    <2>3. MemType' /\ NoneLeft' /\ ObjKinds' /\ ObjOwned'
      BY <2>1, <2>2 DEF Objs, PieceNames, Steps, MemType, NoneLeft, ObjKinds, ObjOwned, Busy
    <2>4. LivePieces'
      BY <2>1, <2>2 DEF LivePieces, Names, MrNames
    <2>5. HeldPieces'
      BY <2>1, <2>2 DEF HeldPieces, MemType, Busy, HeldNames, Names, MrNames
    <2>6. PiecesOwned'
      BY <2>1, <2>2 DEF PiecesOwned, MemType, Busy
    <2> QED BY <2>3, <2>4, <2>5, <2>6
  <1>5. ASSUME NEW t \in Threads, AllocQp(t) PROVE MemInv'
    <2> USE <1>5 DEF AllocQp
    <2>1. PICK q \in Qps \ Allocated :
            obj' = [obj EXCEPT ![t] = q] /\ heap' = heap \cup {<<q, "struct">>}
      OBVIOUS
    <2>2. /\ q \notin live
          /\ \A u \in Threads : Busy(u) => obj[u] # q
          /\ \A x \in PieceNames : <<q, x>> \notin heap
      BY FreshObject DEF Objs
    <2>3. MemType' /\ NoneLeft' /\ ObjKinds' /\ ObjOwned'
      BY <2>1, <2>2 DEF Objs, PieceNames, Steps, MemType, NoneLeft, ObjKinds, ObjOwned, Busy
    <2>4. LivePieces'
      BY <2>1, <2>2 DEF LivePieces, Names, MrNames
    <2>5. HeldPieces'
      BY <2>1, <2>2 DEF HeldPieces, MemType, Busy, HeldNames, Names, MrNames
    <2>6. PiecesOwned'
      BY <2>1, <2>2 DEF PiecesOwned, MemType, Busy
    <2> QED BY <2>3, <2>4, <2>5, <2>6
  <1>6. ASSUME NEW t \in Threads, AllocFails(t) PROVE MemInv'
    <2> USE <1>6 DEF AllocFails, Fail
    <2>0. \A o : Names(o)' = Names(o)
      BY DEF Names, MrNames
    <2>1. MemType' /\ NoneLeft' /\ ObjKinds' /\ ObjOwned'
      BY DEF Steps, MemType, NoneLeft, ObjKinds, ObjOwned, Busy
    <2>2. LivePieces'
      BY <2>0 DEF LivePieces
    <2>3. HeldPieces'
      BY DEF HeldPieces, MemType, Busy, HeldNames, Names, MrNames
    <2>4. PiecesOwned'
      BY DEF PiecesOwned, Busy, Kinds
    <2> QED BY <2>1, <2>2, <2>3, <2>4
  <1>7. ASSUME NEW t \in Threads, PinFails(t) PROVE MemInv'
    <2> USE <1>7 DEF PinFails, Fail
    <2>0. \A o : Names(o)' = Names(o)
      BY DEF Names, MrNames
    <2>1. MemType' /\ NoneLeft' /\ ObjKinds' /\ ObjOwned'
      BY DEF Steps, MemType, NoneLeft, ObjKinds, ObjOwned, Busy
    <2>2. LivePieces'
      BY <2>0 DEF LivePieces, ObjOwned, Busy
    <2>3. HeldPieces'
      BY DEF HeldPieces, MemType, ObjOwned, Busy, HeldNames, Names, MrNames
    <2>4. PiecesOwned'
      BY DEF PiecesOwned, HeldPieces, Busy, HeldNames
    <2> QED BY <2>1, <2>2, <2>3, <2>4
  <1>8. ASSUME NEW t \in Threads, AllocPagesFails(t) PROVE MemInv'
    <2> USE <1>8 DEF AllocPagesFails, Fail
    <2>0. \A o : Names(o)' = Names(o)
      BY DEF Names, MrNames
    <2>1. MemType' /\ NoneLeft' /\ ObjKinds' /\ ObjOwned'
      BY DEF Steps, MemType, NoneLeft, ObjKinds, ObjOwned, Busy
    <2>2. LivePieces'
      BY <2>0 DEF LivePieces, ObjOwned, Busy
    <2>3. HeldPieces'
      BY DEF HeldPieces, MemType, ObjOwned, Busy, HeldNames, Names, MrNames
    <2>4. PiecesOwned'
      BY DEF PiecesOwned, HeldPieces, Busy, HeldNames
    <2> QED BY <2>1, <2>2, <2>3, <2>4
  <1>9. ASSUME NEW t \in Threads, FillPagesFails(t) PROVE MemInv'
    <2> USE <1>9 DEF FillPagesFails, Fail
    <2>0. \A o : Names(o)' = Names(o)
      BY DEF Names, MrNames
    <2>1. MemType' /\ NoneLeft' /\ ObjKinds' /\ ObjOwned'
      BY DEF Steps, MemType, NoneLeft, ObjKinds, ObjOwned, Busy
    <2>2. LivePieces'
      BY <2>0 DEF LivePieces, ObjOwned, Busy
    <2>3. HeldPieces'
      BY DEF HeldPieces, MemType, ObjOwned, Busy, HeldNames, Names, MrNames
    <2>4. PiecesOwned'
      BY DEF PiecesOwned, HeldPieces, ObjKinds, Busy, HeldNames, Names, MrNames
    <2> QED BY <2>1, <2>2, <2>3, <2>4
  <1>10. ASSUME NEW t \in Threads, AllocSqFails(t) PROVE MemInv'
    <2> USE <1>10 DEF AllocSqFails, Fail
    <2>0. \A o : Names(o)' = Names(o)
      BY DEF Names, MrNames
    <2>1. MemType' /\ NoneLeft' /\ ObjKinds' /\ ObjOwned'
      BY DEF Steps, MemType, NoneLeft, ObjKinds, ObjOwned, Busy
    <2>2. LivePieces'
      BY <2>0 DEF LivePieces, ObjOwned, Busy
    <2>3. HeldPieces'
      BY DEF HeldPieces, MemType, ObjOwned, Busy, HeldNames, Names, MrNames
    <2>4. PiecesOwned'
      BY DEF PiecesOwned, HeldPieces, Busy, HeldNames
    <2> QED BY <2>1, <2>2, <2>3, <2>4
  <1>11. ASSUME NEW t \in Threads, AllocRqFails(t) PROVE MemInv'
    <2> USE <1>11 DEF AllocRqFails, Fail
    <2>0. \A o : Names(o)' = Names(o)
      BY DEF Names, MrNames
    <2>1. MemType' /\ NoneLeft' /\ ObjKinds' /\ ObjOwned'
      BY DEF Steps, MemType, NoneLeft, ObjKinds, ObjOwned, Busy
    <2>2. LivePieces'
      BY <2>0 DEF LivePieces, ObjOwned, Busy
    <2>3. HeldPieces'
      BY DEF HeldPieces, MemType, ObjOwned, Busy, HeldNames, Names, MrNames
    <2>4. PiecesOwned'
      BY DEF PiecesOwned, HeldPieces, Busy, HeldNames
    <2> QED BY <2>1, <2>2, <2>3, <2>4
  <1>12. ASSUME NEW t \in Threads, Pin(t) PROVE MemInv'
    <2> USE <1>12 DEF Pin, Get
    <2>0. \A o : Names(o)' = Names(o)
      BY DEF Names, MrNames
    <2>1. MemType' /\ NoneLeft' /\ ObjKinds' /\ ObjOwned'
      BY DEF PieceNames, Steps, MemType, NoneLeft, ObjKinds, ObjOwned, Busy
    <2>2. LivePieces'
      BY <2>0 DEF LivePieces, ObjOwned, Busy
    <2>3. HeldPieces'
      BY DEF HeldPieces, MemType, ObjOwned, Busy, HeldNames, Names, MrNames
    <2>4. PiecesOwned'
      BY DEF PiecesOwned, Busy
    <2> QED BY <2>1, <2>2, <2>3, <2>4
  <1>13. ASSUME NEW t \in Threads, AllocPages(t) PROVE MemInv'
    <2> USE <1>13 DEF AllocPages, Get
    <2>0. \A o : Names(o)' = Names(o)
      BY DEF Names, MrNames
    <2>1. MemType' /\ NoneLeft' /\ ObjKinds' /\ ObjOwned'
      BY DEF PieceNames, Steps, MemType, NoneLeft, ObjKinds, ObjOwned, Busy
    <2>2. LivePieces'
      BY <2>0 DEF LivePieces, ObjOwned, Busy
    <2>3. HeldPieces'
      BY DEF HeldPieces, MemType, ObjOwned, ObjKinds, Busy, HeldNames, Names, MrNames
    <2>4. PiecesOwned'
      BY DEF PiecesOwned, Busy
    <2> QED BY <2>1, <2>2, <2>3, <2>4
  <1>14. ASSUME NEW t \in Threads, AllocSq(t) PROVE MemInv'
    <2> USE <1>14 DEF AllocSq, Get
    <2>0. \A o : Names(o)' = Names(o)
      BY DEF Names, MrNames
    <2>1. MemType' /\ NoneLeft' /\ ObjKinds' /\ ObjOwned'
      BY DEF PieceNames, Steps, MemType, NoneLeft, ObjKinds, ObjOwned, Busy
    <2>2. LivePieces'
      BY <2>0 DEF LivePieces, ObjOwned, Busy
    <2>3. HeldPieces'
      BY DEF HeldPieces, MemType, ObjOwned, Busy, HeldNames, Names, MrNames
    <2>4. PiecesOwned'
      BY DEF PiecesOwned, Busy
    <2> QED BY <2>1, <2>2, <2>3, <2>4
  <1>15. ASSUME NEW t \in Threads, AllocRq(t) PROVE MemInv'
    <2> USE <1>15 DEF AllocRq, Get
    <2>0. \A o : Names(o)' = Names(o)
      BY DEF Names, MrNames
    <2>1. MemType' /\ NoneLeft' /\ ObjKinds' /\ ObjOwned'
      BY DEF PieceNames, Steps, MemType, NoneLeft, ObjKinds, ObjOwned, Busy
    <2>2. LivePieces'
      BY <2>0 DEF LivePieces, ObjOwned, Busy
    <2>3. HeldPieces'
      BY DEF HeldPieces, MemType, ObjOwned, ObjKinds, Busy, HeldNames, Names, MrNames
    <2>4. PiecesOwned'
      BY DEF PiecesOwned, Busy
    <2> QED BY <2>1, <2>2, <2>3, <2>4
  <1>16. ASSUME NEW t \in Threads, FillPages(t) PROVE MemInv'
    <2> USE <1>16 DEF FillPages
    <2>0. \A o : Names(o)' = Names(o)
      BY DEF Names, MrNames
    <2>1. MemType' /\ NoneLeft' /\ ObjKinds' /\ ObjOwned'
      BY DEF Steps, MemType, NoneLeft, ObjKinds, ObjOwned, Busy
    <2>2. LivePieces'
      BY <2>0 DEF LivePieces
    <2>3. HeldPieces'
      BY DEF HeldPieces, Busy, HeldNames, Names, MrNames
    <2>4. PiecesOwned'
      BY DEF PiecesOwned, Busy
    <2> QED BY <2>1, <2>2, <2>3, <2>4
  <1>17. ASSUME NEW t \in Threads, SetKey(t) PROVE MemInv'
    <2> USE <1>17 DEF SetKey
    <2>0. \A o : Names(o)' = Names(o)
      BY DEF Names, MrNames
    <2>1. MemType' /\ NoneLeft' /\ ObjKinds' /\ ObjOwned'
      BY DEF Steps, MemType, NoneLeft, ObjKinds, ObjOwned, Busy
    <2>2. LivePieces'
      BY <2>0 DEF LivePieces
    <2>3. HeldPieces'
      BY DEF HeldPieces, Busy, HeldNames, Names, MrNames
    <2>4. PiecesOwned'
      BY DEF PiecesOwned, Busy
    <2> QED BY <2>1, <2>2, <2>3, <2>4
  <1>18. ASSUME NEW t \in Threads, Insert(t) PROVE MemInv'
    <2> USE <1>18 DEF Insert
    <2>0. \A o : Names(o)' = Names(o)
      BY DEF Names, MrNames
    <2>1. MemType' /\ NoneLeft' /\ ObjKinds' /\ ObjOwned'
      BY DEF Steps, MemType, NoneLeft, ObjKinds, ObjOwned, Busy
    <2>2. LivePieces'
      BY <2>0 DEF LivePieces
    <2>3. HeldPieces'
      BY DEF HeldPieces, Busy, HeldNames, Names, MrNames
    <2>4. PiecesOwned'
      BY DEF PiecesOwned, Busy
    <2> QED BY <2>1, <2>2, <2>3, <2>4
  <1>19. ASSUME NEW t \in Threads, Count(t) PROVE MemInv'
    <2> USE <1>19 DEF Count
    <2>0. \A o : Names(o)' = Names(o)
      BY DEF Names, MrNames
    <2>1. MemType' /\ NoneLeft' /\ ObjKinds' /\ ObjOwned'
      BY DEF Steps, MemType, NoneLeft, ObjKinds, ObjOwned, Busy
    <2>2. LivePieces'
      BY <2>0 DEF LivePieces, HeldPieces, HeldNames, Busy
    <2>3. HeldPieces'
      BY DEF HeldPieces, MemType, Busy, HeldNames, Names, MrNames
    <2>4. PiecesOwned'
      BY DEF PiecesOwned, Busy
    <2> QED BY <2>1, <2>2, <2>3, <2>4
  <1>20. ASSUME NEW m \in Mrs, DeregMr(m) PROVE MemInv'
    <2> USE <1>20 DEF DeregMr, Pieces
    <2>1. MemType' /\ NoneLeft' /\ ObjKinds' /\ ObjOwned'
      BY DEF MemType, NoneLeft, ObjKinds, ObjOwned, Busy
    <2>2. LivePieces'
      BY DEF LivePieces, Names, MrNames
    <2>3. HeldPieces'
      BY DEF HeldPieces, ObjOwned, Busy, HeldNames, Names, MrNames
    <2>4. PiecesOwned'
      BY DEF PiecesOwned, LivePieces, Busy
    <2> QED BY <2>1, <2>2, <2>3, <2>4
  <1>21. ASSUME NEW q \in Qps, DestroyQp(q) PROVE MemInv'
    <2> USE <1>21 DEF DestroyQp, Pieces
    <2>1. MemType' /\ NoneLeft' /\ ObjKinds' /\ ObjOwned'
      BY DEF MemType, NoneLeft, ObjKinds, ObjOwned, Busy
    <2>2. LivePieces'
      BY DEF LivePieces, Names, MrNames
    <2>3. HeldPieces'
      BY DEF HeldPieces, ObjOwned, Busy, HeldNames, Names, MrNames
    <2>4. PiecesOwned'
      BY DEF PiecesOwned, LivePieces, Busy
    <2> QED BY <2>1, <2>2, <2>3, <2>4
  <1>22. CASE UNCHANGED pdVars
    BY <1>22, MemFrame DEF pdVars, memVars
  <1> QED
    BY <1>1, <1>2, <1>3, <1>4, <1>5, <1>6, <1>7, <1>8, <1>9, <1>10, <1>11, <1>12, <1>13,
         <1>14, <1>15, <1>16, <1>17, <1>18, <1>19, <1>20, <1>21, <1>22 DEF PdNext, Call

\* An empty domain owns nothing.
LEMMA MemInit == PdInit => MemInv
  BY DEF PdInit, MemInv, MemType, Steps, NoneLeft, ObjKinds, ObjOwned, LivePieces,
       HeldPieces, PiecesOwned, Busy

\* The invariant says that nothing leaks.
LEMMA MemSafe == MemInv => NothingLeaks
  <1> SUFFICES ASSUME MemInv, \A t \in Threads : pc[t] = "idle"
               PROVE  heap = UNION {Pieces(o) : o \in live}
    BY DEF NothingLeaks
  <1> USE DEF MemInv, MemType
  <1>1. ASSUME NEW q \in heap PROVE q \in UNION {Pieces(o) : o \in live}
    <2>1. PICK o \in Objs, x \in PieceNames : q = <<o, x>>
      OBVIOUS
    <2>2. o \in live
      BY <2>1 DEF PiecesOwned, Busy
    <2>3. x \in Names(o)
      BY <2>1, <2>2 DEF LivePieces
    <2> QED BY <2>1, <2>2, <2>3 DEF Pieces
  <1>2. ASSUME NEW o \in live, NEW q \in Pieces(o) PROVE q \in heap
    <2>1. PICK x \in Names(o) : q = <<o, x>>
      BY DEF Pieces
    <2> QED BY <2>1, NamesOfPieces DEF LivePieces
  <1> QED BY <1>1, <1>2

-----------------------------------------------------------------------------
(* The keys of a domain.                                                   *)

KeyType ==
  /\ counter \in [Kinds -> Nat]
  /\ \A k \in Kinds : counter[k] \in Ini[k]..Max[k]
  /\ DOMAIN list = Kinds /\ list = [k \in Kinds |-> list[k]]
  /\ \A k \in Kinds : list[k] \in [Slots(k) -> Objs \cup {NULL}]
  /\ num \in [Objs -> Nat]

\* The kind of what a call is creating.
CallKind(t) == IF pc[t] \in Kinds THEN pc[t] ELSE KindOf(obj[t])

\* The room found at the start of a call is still there, the number it has
\* given its object is the next one, and where that leads, once it is entered.
CallKeys ==
  \A t \in Threads :
    /\ pc[t] # "idle" => counter[CallKind(t)] < Max[CallKind(t)]
    /\ pc[t] \in {"sq", "rq", "insert", "count"} => num[obj[t]] = counter[KindOf(obj[t])]
    /\ pc[t] = "count" => list[KindOf(obj[t])][num[obj[t]]] = obj[t]

\* The numbers of live objects have been passed and lead to them.
LiveKeys ==
  \A o \in live :
    /\ num[o] \in Ini[KindOf(o)]..(counter[KindOf(o)] - 1)
    /\ list[KindOf(o)][num[o]] = o

KeyInv == MemInv /\ KeyType /\ CallKeys /\ LiveKeys

\* Verbs on the domain are called by one thread at most.
OneThread == \A t, u \in Threads : t = u

\* A step that changes nothing of a domain keeps it.
LEMMA KeyFrame == KeyInv /\ UNCHANGED pdVars => KeyInv'
  <1> SUFFICES ASSUME KeyInv, UNCHANGED pdVars PROVE KeyInv'
    OBVIOUS
  <1>1. MemInv'
    BY MemFrame DEF KeyInv, pdVars, memVars
  <1>2. KeyType' /\ CallKeys' /\ LiveKeys'
    BY DEF KeyInv, KeyType, CallKeys, CallKind, LiveKeys, pdVars
  <1> QED BY <1>1, <1>2 DEF KeyInv

\* No step of a domain with one calling thread makes a number lead astray.
LEMMA KeyStep ==
    ASSUME OneThread
    PROVE  KeyInv /\ [PdNext]_pdVars => KeyInv'
  <1> SUFFICES ASSUME KeyInv, [PdNext]_pdVars PROVE KeyType' /\ CallKeys' /\ LiveKeys'
    BY MemStep DEF KeyInv
  <1> USE PdAssumption DEF KeyInv, Kinds, KindOf
  <1> DEFINE Goal == KeyType' /\ CallKeys' /\ LiveKeys'
  <1>1. CASE AllocPd
    <2> USE <1>1 DEF AllocPd
    <2>1. KeyType'
      BY DEF KeyType
    <2>2. CallKeys'
      BY DEF CallKeys, MemInv, NoneLeft
    <2>3. LiveKeys'
      BY DEF LiveKeys, MemInv, NoneLeft
    <2> QED BY <2>1, <2>2, <2>3
  <1>2. CASE DeallocPd
    <2> USE <1>2 DEF DeallocPd
    <2>1. KeyType'
      BY DEF KeyType
    <2>2. CallKeys'
      BY DEF CallKeys
    <2>3. LiveKeys'
      BY DEF LiveKeys
    <2> QED BY <2>1, <2>2, <2>3
  <1>3. ASSUME NEW t \in Threads, NEW k \in Kinds, CheckRoom(t, k) PROVE Goal
    <2> USE <1>3 DEF CheckRoom, Enter
    <2>1. KeyType'
      BY DEF KeyType
    <2>2. CallKeys'
      BY DEF CallKeys, CallKind
    <2>3. LiveKeys'
      BY DEF LiveKeys
    <2> QED BY <2>1, <2>2, <2>3
  <1>4. ASSUME NEW t \in Threads, AllocMr(t) PROVE Goal
    <2> USE <1>4 DEF AllocMr
    <2>0. PICK m \in Mrs \ Allocated :
            /\ obj' = [obj EXCEPT ![t] = m]
            /\ num' = num
      OBVIOUS
    <2>4. m \notin live
      BY FreshObject DEF Objs
    <2>1. KeyType'
      BY <2>0, <2>4 DEF KeyType
    <2>2. CallKeys'
      BY <2>0 DEF CallKeys, CallKind, MemInv, MemType
    <2>3. LiveKeys'
      BY <2>0, <2>4 DEF LiveKeys
    <2> QED BY <2>1, <2>2, <2>3
  <1>5. ASSUME NEW t \in Threads, AllocQp(t) PROVE Goal
    <2> USE <1>5 DEF AllocQp
    <2>0. PICK q \in Qps \ Allocated :
            /\ obj' = [obj EXCEPT ![t] = q]
            /\ num' = [num EXCEPT ![q] = counter["qp"]]
      OBVIOUS
    <2>4. q \notin live
      BY FreshObject DEF Objs
    <2>1. KeyType'
      BY <2>0, <2>4 DEF KeyType
    <2>2. CallKeys'
      BY <2>0 DEF CallKeys, CallKind, KeyType, MemInv, MemType, Objs
    <2>3. LiveKeys'
      BY <2>0, <2>4 DEF LiveKeys
    <2> QED BY <2>1, <2>2, <2>3
  <1>6. ASSUME NEW t \in Threads, AllocFails(t) PROVE Goal
    <2> USE <1>6 DEF AllocFails, Fail
    <2>1. KeyType'
      BY DEF KeyType
    <2>2. CallKeys'
      BY DEF CallKeys, CallKind
    <2>3. LiveKeys'
      BY DEF LiveKeys
    <2> QED BY <2>1, <2>2, <2>3
  <1>7. ASSUME NEW t \in Threads, PinFails(t) PROVE Goal
    <2> USE <1>7 DEF PinFails, Fail
    <2>1. KeyType'
      BY DEF KeyType
    <2>2. CallKeys'
      BY DEF CallKeys, CallKind, MemInv, MemType
    <2>3. LiveKeys'
      BY DEF LiveKeys
    <2> QED BY <2>1, <2>2, <2>3
  <1>8. ASSUME NEW t \in Threads, AllocPagesFails(t) PROVE Goal
    <2> USE <1>8 DEF AllocPagesFails, Fail
    <2>1. KeyType'
      BY DEF KeyType
    <2>2. CallKeys'
      BY DEF CallKeys, CallKind, MemInv, MemType
    <2>3. LiveKeys'
      BY DEF LiveKeys
    <2> QED BY <2>1, <2>2, <2>3
  <1>9. ASSUME NEW t \in Threads, FillPagesFails(t) PROVE Goal
    <2> USE <1>9 DEF FillPagesFails, Fail
    <2>1. KeyType'
      BY DEF KeyType
    <2>2. CallKeys'
      BY DEF CallKeys, CallKind, MemInv, MemType
    <2>3. LiveKeys'
      BY DEF LiveKeys
    <2> QED BY <2>1, <2>2, <2>3
  <1>10. ASSUME NEW t \in Threads, AllocSqFails(t) PROVE Goal
    <2> USE <1>10 DEF AllocSqFails, Fail
    <2>1. KeyType'
      BY DEF KeyType
    <2>2. CallKeys'
      BY DEF CallKeys, CallKind, MemInv, MemType
    <2>3. LiveKeys'
      BY DEF LiveKeys
    <2> QED BY <2>1, <2>2, <2>3
  <1>11. ASSUME NEW t \in Threads, AllocRqFails(t) PROVE Goal
    <2> USE <1>11 DEF AllocRqFails, Fail
    <2>1. KeyType'
      BY DEF KeyType
    <2>2. CallKeys'
      BY DEF CallKeys, CallKind, MemInv, MemType
    <2>3. LiveKeys'
      BY DEF LiveKeys
    <2> QED BY <2>1, <2>2, <2>3
  <1>12. ASSUME NEW t \in Threads, Pin(t) PROVE Goal
    <2> USE <1>12 DEF Pin, Get
    <2>1. KeyType'
      BY DEF KeyType
    <2>2. CallKeys'
      BY DEF CallKeys, CallKind
    <2>3. LiveKeys'
      BY DEF LiveKeys
    <2> QED BY <2>1, <2>2, <2>3
  <1>13. ASSUME NEW t \in Threads, AllocPages(t) PROVE Goal
    <2> USE <1>13 DEF AllocPages, Get
    <2>1. KeyType'
      BY DEF KeyType
    <2>2. CallKeys'
      BY DEF CallKeys, CallKind
    <2>3. LiveKeys'
      BY DEF LiveKeys
    <2> QED BY <2>1, <2>2, <2>3
  <1>14. ASSUME NEW t \in Threads, AllocSq(t) PROVE Goal
    <2> USE <1>14 DEF AllocSq, Get
    <2>1. KeyType'
      BY DEF KeyType
    <2>2. CallKeys'
      BY DEF CallKeys, CallKind
    <2>3. LiveKeys'
      BY DEF LiveKeys
    <2> QED BY <2>1, <2>2, <2>3
  <1>15. ASSUME NEW t \in Threads, AllocRq(t) PROVE Goal
    <2> USE <1>15 DEF AllocRq, Get
    <2>1. KeyType'
      BY DEF KeyType
    <2>2. CallKeys'
      BY DEF CallKeys, CallKind
    <2>3. LiveKeys'
      BY DEF LiveKeys
    <2> QED BY <2>1, <2>2, <2>3
  <1>16. ASSUME NEW t \in Threads, FillPages(t) PROVE Goal
    <2> USE <1>16 DEF FillPages
    <2>1. KeyType'
      BY DEF KeyType
    <2>2. CallKeys'
      BY DEF CallKeys, CallKind
    <2>3. LiveKeys'
      BY DEF LiveKeys
    <2> QED BY <2>1, <2>2, <2>3
  <1>17. ASSUME NEW t \in Threads, SetKey(t) PROVE Goal
    <2> USE <1>17 DEF SetKey
    <2>1. KeyType'
      BY DEF KeyType
    <2>2. CallKeys'
      BY DEF CallKeys, CallKind, KeyType, MemInv, ObjKinds, Objs
    <2>3. LiveKeys'
      BY DEF LiveKeys, MemInv, ObjOwned, Busy
    <2> QED BY <2>1, <2>2, <2>3
  <1>18. ASSUME NEW t \in Threads, Insert(t) PROVE Goal
    <2> USE <1>18 DEF Insert
    <2>1. KeyType'
      BY DEF KeyType, MemInv, MemType
    <2>2. CallKeys'
      <3> DEFINE k == KindOf(obj[t])
      <3>1. obj[t] \in Objs /\ k \in Kinds
        BY DEF MemInv, ObjKinds, Busy
      <3>2. counter[k] \in Slots(k) /\ num[obj[t]] = counter[k]
        <4>1. CallKind(t) = k /\ pc[t] = "insert"
          BY DEF CallKind
        <4>2. counter[k] < Max[k] /\ num[obj[t]] = counter[k]
          BY <4>1 DEF CallKeys
        <4>3. counter[k] \in Ini[k]..Max[k] /\ Ini[k] \in Nat /\ Max[k] \in Nat
          BY <3>1 DEF KeyType
        <4> QED BY <4>2, <4>3 DEF Slots
      <3>3. list'[k][counter[k]] = obj[t]
        BY <3>1, <3>2 DEF KeyType
      <3>4. \A u \in Threads : u = t /\ pc'[u] = "count"
        BY DEF OneThread, MemInv, MemType
      <3> QED BY <3>1, <3>2, <3>3, <3>4 DEF CallKeys, CallKind
    <2>3. LiveKeys'
      BY DEF LiveKeys
    <2> QED BY <2>1, <2>2, <2>3
  <1>19. ASSUME NEW t \in Threads, Count(t) PROVE Goal
    <2> USE <1>19 DEF Count
    <2>1. KeyType'
      BY DEF KeyType, CallKeys, CallKind
    <2>2. CallKeys'
      <3>1. \A u \in Threads : pc'[u] = "idle"
        BY DEF OneThread, MemInv, MemType
      <3> QED BY <3>1 DEF CallKeys
    <2>3. LiveKeys'
      BY DEF LiveKeys, KeyType, CallKeys
    <2> QED BY <2>1, <2>2, <2>3
  <1>20. ASSUME NEW m \in Mrs, DeregMr(m) PROVE Goal
    <2> USE <1>20 DEF DeregMr
    <2>1. KeyType'
      BY DEF KeyType
    <2>2. CallKeys'
      BY DEF CallKeys, CallKind
    <2>3. LiveKeys'
      BY DEF LiveKeys
    <2> QED BY <2>1, <2>2, <2>3
  <1>21. ASSUME NEW q \in Qps, DestroyQp(q) PROVE Goal
    <2> USE <1>21 DEF DestroyQp
    <2>1. KeyType'
      BY DEF KeyType
    <2>2. CallKeys'
      BY DEF CallKeys, CallKind
    <2>3. LiveKeys'
      BY DEF LiveKeys
    <2> QED BY <2>1, <2>2, <2>3
  <1>22. CASE UNCHANGED pdVars
    BY <1>22, KeyFrame
  <1> QED
    BY <1>1, <1>2, <1>3, <1>4, <1>5, <1>6, <1>7, <1>8, <1>9, <1>10, <1>11, <1>12, <1>13,
         <1>14, <1>15, <1>16, <1>17, <1>18, <1>19, <1>20, <1>21, <1>22 DEF PdNext, Call

\* A new domain has handed out no number.
LEMMA KeyInit == PdInit => KeyInv
  <1> SUFFICES ASSUME PdInit PROVE KeyType /\ CallKeys /\ LiveKeys
    BY MemInit DEF KeyInv
  <1>1. KeyType
    BY PdAssumption DEF PdInit, KeyType
  <1>2. CallKeys /\ LiveKeys
    BY DEF PdInit, CallKeys, LiveKeys
  <1> QED BY <1>1, <1>2

\* The invariant says that the keys are right.
LEMMA KeySafe == KeyInv => PdTypeOK /\ KeyNamesObject
  <1> SUFFICES ASSUME KeyInv PROVE PdTypeOK /\ KeyNamesObject
    OBVIOUS
  <1>1. PdTypeOK
    BY DEF KeyInv, KeyType, MemInv, MemType, PdTypeOK
  <1>2. KeyNamesObject
    <2> SUFFICES ASSUME NEW o \in live
                 PROVE  /\ num[o] \in Slots(KindOf(o))
                        /\ list[KindOf(o)][num[o]] = o
      BY DEF KeyNamesObject
    <2>1. KindOf(o) \in Kinds
      BY DEF KindOf, Kinds
    <2>2. num[o] \in Ini[KindOf(o)]..(counter[KindOf(o)] - 1) /\ list[KindOf(o)][num[o]] = o
      BY DEF KeyInv, LiveKeys
    <2>3. /\ counter[KindOf(o)] \in Ini[KindOf(o)]..Max[KindOf(o)]
          /\ Ini[KindOf(o)] \in Nat
          /\ Max[KindOf(o)] \in Nat
      BY <2>1, PdAssumption DEF KeyInv, KeyType
    <2> QED BY <2>2, <2>3 DEF Slots
  <1> QED BY <1>1, <1>2

-----------------------------------------------------------------------------
(* The modules of a node and the domain that rests on them.                *)

\* A module that is loaded has registered what it registers and is loaded
\* after those it uses.
ModulesInv ==
  /\ \A m \in loaded : Uses(m) \subseteq loaded
  /\ "dis_dev_drv" \in registered <=> "dis_driver" \in loaded
  /\ "dis_dev" \in registered <=> "dis_device" \in loaded
  /\ "dis_bus" \in loaded => {"dis_bus_type", "dis_bus_dev"} \subseteq registered
  /\ "dis_bus_type" \in registered => "dis_bus" \in loaded \/ at = "bus_dev"
  /\ "dis_bus_dev" \in registered => "dis_bus" \in loaded
  /\ at = "bus_dev" => "dis_bus" \notin loaded /\ "dis_bus_type" \in registered
  /\ "dis_sci_if" \in loaded => "scil" \in registered

\* The RDMA device is there only for a driver and a device that are, and is
\* registered but for the steps of the probe.
DisdevInv ==
  /\ disdev # "none" \/ at \in {"probe", "probe_register"}
       => {"dis_driver", "dis_device"} \subseteq loaded
  /\ at = "probe" => disdev = "none"
  /\ at = "probe_register" <=> disdev = "allocated"
  /\ at \in Modules => at \in {"dis_driver", "dis_device"} /\ disdev = "registered"

\* A domain has a device.
PdInv == pd => disdev = "registered"

NodeInv == DrvTypeOK /\ ModulesInv /\ DisdevInv /\ PdInv /\ MemInv

\* No insmod, rmmod, probe or remove breaks it.
LEMMA DriveStep == NodeInv /\ Drive => NodeInv'
  <1> SUFFICES ASSUME NodeInv, Drive PROVE DrvTypeOK' /\ ModulesInv' /\ DisdevInv' /\ PdInv'
    BY MemFrame DEF NodeInv, Drive, pdVars, memVars
  <1> USE DEF NodeInv
  <1> DEFINE Goal == DrvTypeOK' /\ ModulesInv' /\ DisdevInv' /\ PdInv'
  <1>0. UNCHANGED pd
    BY DEF Drive, pdVars
  <1> USE <1>0
  <1>1. CASE SciIfInit
    BY <1>1 DEF SciIfInit, DrvTypeOK, Registrable, Modules, ModulesInv, DisdevInv, PdInv,
         MayLoad, Succeeds
  <1>2. CASE SciIfInitFails
    BY <1>2 DEF SciIfInitFails, DrvTypeOK, Registrable, ModulesInv, DisdevInv, PdInv,
         MayLoad, Fails
  <1>3. CASE SciIfExit
    BY <1>3 DEF SciIfExit, DrvTypeOK, ModulesInv, DisdevInv, PdInv, MayUnload
  <1>4. CASE BusInit
    BY <1>4 DEF BusInit, DrvTypeOK, Registrable, Modules, ModulesInv, DisdevInv, PdInv,
         MayLoad, Goes
  <1>5. CASE BusInitDevice
    <2>1. disdev = "none"
      BY <1>5 DEF BusInitDevice, ModulesInv, Uses, DisdevInv
    <2>2. DrvTypeOK' /\ DisdevInv' /\ PdInv'
      BY <1>5, <2>1 DEF BusInitDevice, Succeeds, DrvTypeOK, Registrable, Modules,
           DisdevInv, PdInv
    <2>3. \A m \in loaded' : Uses(m) \subseteq loaded'
      BY <1>5 DEF BusInitDevice, Succeeds, ModulesInv, Uses
    <2>4. ModulesInv'
      BY <1>5, <2>3 DEF BusInitDevice, Succeeds, ModulesInv
    <2> QED BY <2>2, <2>4
  <1>6. CASE BusInitFails
    BY <1>6 DEF BusInitFails, DrvTypeOK, Modules, ModulesInv, DisdevInv, PdInv, Fails
  <1>7. CASE BusExit
    BY <1>7 DEF BusExit, DrvTypeOK, ModulesInv, DisdevInv, PdInv, MayUnload
  <1>8. ASSUME NEW m \in Modules, Register(m) PROVE Goal
    BY <1>8 DEF Register, DrvTypeOK, Registrable, Halves, Half, Modules, ModulesInv,
         DisdevInv, PdInv, MayLoad
  <1>9. ASSUME NEW m \in Modules, Unregister(m) PROVE Goal
    BY <1>9 DEF Unregister, DrvTypeOK, Half, ModulesInv, DisdevInv, PdInv, MayUnload
  <1>10. ASSUME NEW m \in Modules, UnregisterBound(m, pd) PROVE Goal
    BY <1>10 DEF UnregisterBound, DrvTypeOK, ModulesInv, DisdevInv, PdInv, MayUnload
  <1>11. CASE Probe
    BY <1>11 DEF Probe, DrvTypeOK, Modules, ModulesInv, DisdevInv, PdInv
  <1>12. CASE ProbeRegister
    BY <1>12 DEF ProbeRegister, DrvTypeOK, Modules, ModulesInv, DisdevInv, PdInv
  <1>13. CASE ProbeFails
    BY <1>13 DEF ProbeFails, DrvTypeOK, Modules, ModulesInv, DisdevInv, PdInv
  <1>14. CASE Remove(pd)
    BY <1>14 DEF Remove, Removed, DrvTypeOK, Half, Modules, ModulesInv, Uses, DisdevInv,
         PdInv
  <1> QED
    BY <1>1, <1>2, <1>3, <1>4, <1>5, <1>6, <1>7, <1>8, <1>9, <1>10, <1>11, <1>12, <1>13,
         <1>14 DEF Drive, DrvNext

\* A step of a node is one of its modules, of its domain, or none.
LEMMA NodeStep == NodeInv /\ [Next]_vars => NodeInv'
  <1> SUFFICES ASSUME NodeInv, [Next]_vars PROVE NodeInv'
    OBVIOUS
  <1>1. CASE Drive
    BY <1>1, DriveStep
  <1>2. ASSUME UNCHANGED drvVars, [PdNext]_pdVars, pd' => pd \/ Usable PROVE NodeInv'
    <2>1. MemInv'
      BY <1>2, MemStep DEF NodeInv
    <2>2. DrvTypeOK' /\ ModulesInv' /\ DisdevInv'
      BY <1>2 DEF NodeInv, DrvTypeOK, ModulesInv, DisdevInv, drvVars
    <2>3. PdInv'
      BY <1>2 DEF NodeInv, PdInv, Usable, drvVars
    <2> QED BY <2>1, <2>2, <2>3 DEF NodeInv
  <1>3. CASE OpenDevice
    BY <1>2, <1>3 DEF OpenDevice, PdNext
  <1>4. CASE UseDevice
    BY <1>2, <1>4 DEF UseDevice
  <1>5. CASE UNCHANGED vars
    BY <1>2, <1>5 DEF vars, pdVars
  <1> QED BY <1>1, <1>3, <1>4, <1>5 DEF Next

\* Every step of a node is one of its domain or leaves that alone.
LEMMA KeySteps ==
    ASSUME OneThread
    PROVE  KeyInv /\ [Next]_vars => KeyInv'
  <1>1. [Next]_vars => [PdNext]_pdVars
    BY DEF Next, vars, Drive, OpenDevice, UseDevice, PdNext
  <1> QED BY <1>1, KeyStep

\* A node starts with nothing loaded.
LEMMA NodeInit == Init => NodeInv
  BY MemInit DEF Init, DrvInit, PdInit, NodeInv, DrvTypeOK, ModulesInv, DisdevInv, PdInv,
       Modules

\* The invariant says what the properties of the node say.
LEMMA NodeSafe == NodeInv => NothingLeaks /\ OwnersLoaded /\ DeviceRests /\ UsersHaveDevice
  <1> SUFFICES ASSUME NodeInv PROVE OwnersLoaded /\ DeviceRests /\ UsersHaveDevice
    BY MemSafe DEF NodeInv
  <1>1. OwnersLoaded
    BY DEF NodeInv, ModulesInv, OwnersLoaded, Half
  <1>2. DeviceRests
    BY DEF NodeInv, DrvTypeOK, ModulesInv, DisdevInv, DeviceRests, Halves, Uses
  <1>3. ~pd => heap = {}
    <2> SUFFICES ASSUME ~pd, NEW q \in heap PROVE FALSE
      OBVIOUS
    <2>1. PICK o \in Objs, x \in PieceNames : q = <<o, x>>
      BY DEF NodeInv, MemInv, MemType
    <2> QED BY <2>1 DEF NodeInv, MemInv, NoneLeft, PiecesOwned, Busy
  <1>4. UsersHaveDevice
    BY <1>3 DEF NodeInv, PdInv, DisdevInv, UsersHaveDevice
  <1> QED BY <1>1, <1>2, <1>4

\* With any number of threads calling verbs, whichever allocation of
\* dis_reg_user_mr, dis_get_dma_mr or dis_create_qp fails, what is left
\* allocated is that of the live regions and queue pairs.
THEOREM NoLeak == Spec => []NothingLeaks
  BY NodeInit, NodeStep, NodeSafe, PTL DEF Spec

\* Between two commands what is registered belongs to a loaded module, however
\* the init functions of the four modules failed before.
THEOREM NothingDangles == Spec => []OwnersLoaded
  BY NodeInit, NodeStep, NodeSafe, PTL DEF Spec

\* The RDMA device rests on its driver, device, bus and library, in whatever
\* order they are loaded and removed.
THEOREM DeviceHasBase == Spec => []DeviceRests
  BY NodeInit, NodeStep, NodeSafe, PTL DEF Spec

\* dis_driver_remove leaves no domain, region or queue pair behind.
THEOREM DeviceOutlivesUsers == Spec => []UsersHaveDevice
  BY NodeInit, NodeStep, NodeSafe, PTL DEF Spec

\* With one thread the variables of node and domain keep their types: no
\* counter passes the length of its table.
THEOREM NodeTypeCorrect == ASSUME OneThread PROVE Spec => []TypeOK
  <1>1. Init => NodeInv /\ KeyInv
    BY NodeInit, KeyInit DEF Init
  <1>2. NodeInv /\ KeyInv /\ [Next]_vars => (NodeInv /\ KeyInv)'
    BY NodeStep, KeySteps
  <1>3. NodeInv /\ KeyInv => TypeOK
    BY KeySafe DEF TypeOK, NodeInv
  <1> QED BY <1>1, <1>2, <1>3, PTL DEF Spec

\* With one thread the key of a live region and the number of a live queue
\* pair lead to it, however many were freed before.
THEOREM KeysLeadHome == ASSUME OneThread PROVE Spec => []KeyNamesObject
  <1>1. Init => KeyInv
    BY KeyInit DEF Init
  <1>2. KeyInv /\ [Next]_vars => KeyInv'
    BY KeySteps
  <1>3. KeyInv => KeyNamesObject
    BY KeySafe
  <1> QED BY <1>1, <1>2, <1>3, PTL DEF Spec
==============================================================================
