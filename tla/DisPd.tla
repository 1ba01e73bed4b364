---------------------------------- MODULE DisPd ------------------------------
(***************************************************************************)
(* A protection domain: its memory regions and queue pairs, the numbers it *)
(* hands out for them (lkey, qp_num) and the memory they are made of.      *)
(* dis_alloc_pd, dis_dealloc_pd, dis_get_dma_mr, dis_reg_user_mr,          *)
(* dis_dereg_mr, and the allocations of dis_create_qp and dis_destroy_qp.  *)
(*                                                                         *)
(* A call goes through its allocations one at a time, each of which may    *)
(* fail and leads to the goto ladder at the end of the function.  Regions  *)
(* and queue pairs are registered alike, under the counter and in the      *)
(* table of their kind.                                                    *)
(***************************************************************************)
EXTENDS Integers, FiniteSets

CONSTANTS
  Threads, \* the threads that call verbs on the domain
  Mrs,     \* where kzalloc may put a struct dis_mr
  Qps,     \* where kzalloc may put a struct dis_qp
  NULL,    \* no object
  Ini,     \* DIS_MR_INI and DIS_QP_INI
  Max      \* DIS_MR_MAX and DIS_QP_MAX

Kinds == {"mr", "qp"}
Objs == Mrs \cup Qps
KindOf(o) == IF o \in Mrs THEN "mr" ELSE "qp"

ASSUME PdAssumption ==
  /\ Mrs \cap Qps = {}
  /\ NULL \notin Objs
  /\ Ini \in [Kinds -> Nat]
  /\ Max \in [Kinds -> Nat]
  /\ \A k \in Kinds : Ini[k] <= Max[k]

VARIABLES
  pd,      \* whether the domain exists
  counter, \* pd->mr_c and pd->qp_c
  list,    \* pd->mr_list and pd->qp_list
  num,     \* mr->ibmr.lkey or qp->l_qpn of each object
  is_dma,  \* mr->is_dma of the domain's regions
  live,    \* the objects the RDMA core has been given
  heap,    \* the pieces of memory allocated, each for its object
  pc,      \* where each thread is
  obj      \* the object its call is about

pdVars == <<pd, counter, list, num, is_dma, live, heap, pc, obj>>

Slots(k) == Ini[k]..(Max[k] - 1)

\* The pieces of an object.  ib_umem_get pins memory, the rest is kzalloc'ed.
MrNames == IF is_dma THEN {"struct"} ELSE {"struct", "umem", "pages"}
Names(o) == IF o \in Qps THEN {"struct", "sq", "rq"} ELSE MrNames
Pieces(o) == {<<o, name>> : name \in Names(o)}

Allocated == {p[1] : p \in heap}

PdInit ==
  /\ pd = FALSE
  /\ counter = Ini
  /\ list = [k \in Kinds |-> [n \in Slots(k) |-> NULL]]
  /\ num = [o \in Objs |-> 0]
  /\ is_dma = FALSE
  /\ live = {}
  /\ heap = {}
  /\ pc = [t \in Threads |-> "idle"]
  /\ obj = [t \in Threads |-> NULL]

------------------------------------------------------------------------------
(* The domain.  The RDMA core allocates its structure, zeroed, and calls   *)
(* dis_dealloc_pd, which does nothing, when nothing is left in it.  Users  *)
(* in the kernel get DMA regions, only user space registers memory.        *)

AllocPd ==
  /\ ~pd
  /\ pd' = TRUE
  /\ counter' = Ini
  /\ list' = [k \in Kinds |-> [n \in Slots(k) |-> NULL]]
  /\ is_dma' \in BOOLEAN
  /\ UNCHANGED <<num, live, heap, pc, obj>>

DeallocPd ==
  /\ pd
  /\ live = {}
  /\ \A t \in Threads : pc[t] = "idle"
  /\ pd' = FALSE
  /\ UNCHANGED <<counter, list, num, is_dma, live, heap, pc, obj>>

------------------------------------------------------------------------------
(* The steps of a call of thread t.                                        *)

Enter(t, k) ==
  /\ pd
  /\ pc[t] = "idle"
  /\ pc' = [pc EXCEPT ![t] = k]
  /\ UNCHANGED <<pd, counter, list, num, is_dma, live, heap, obj>>

\* The check at the start; when it fails the call returns, a stuttering step.
\* A slip first: the table is taken to have one more entry.
CheckRoomOneMore(t, k) == counter[k] <= Max[k] /\ Enter(t, k)
CheckRoom(t, k) == counter[k] < Max[k] /\ Enter(t, k)

\* Thread t gets one more piece of its object and goes on to pc p.
Get(t, piece, p) ==
  /\ heap' = heap \cup {<<obj[t], piece>>}
  /\ pc' = [pc EXCEPT ![t] = p]
  /\ UNCHANGED <<pd, counter, list, num, is_dma, live, obj>>

\* The call fails, having freed those pieces of its object.
Fail(t, pieces) ==
  /\ heap' = heap \ {<<obj[t], piece>> : piece \in pieces}
  /\ pc' = [pc EXCEPT ![t] = "idle"]
  /\ obj' = [obj EXCEPT ![t] = NULL]
  /\ UNCHANGED <<pd, counter, list, num, is_dma, live>>

\* kzalloc of the structure.
AllocMr(t) ==
  /\ pc[t] = "mr"
  /\ \E m \in Mrs \ Allocated :
       /\ obj' = [obj EXCEPT ![t] = m]
       /\ heap' = heap \cup {<<m, "struct">>}
  /\ pc' = [pc EXCEPT ![t] = IF is_dma THEN "key" ELSE "pin"]
  /\ UNCHANGED <<pd, counter, list, num, is_dma, live>>

AllocQp(t) ==
  /\ pc[t] = "qp"
  /\ \E q \in Qps \ Allocated :
       /\ obj' = [obj EXCEPT ![t] = q]
       /\ heap' = heap \cup {<<q, "struct">>}
       /\ num' = [num EXCEPT ![q] = counter["qp"]]
  /\ pc' = [pc EXCEPT ![t] = "sq"]
  /\ UNCHANGED <<pd, counter, list, is_dma, live>>

AllocFails(t) ==
  /\ pc[t] \in Kinds
  /\ Fail(t, {})

Pin(t) == pc[t] = "pin" /\ Get(t, "umem", "pages")
PinFails(t) == pc[t] = "pin" /\ Fail(t, {"struct"})

AllocPages(t) == pc[t] = "pages" /\ Get(t, "pages", "fill")

\* Also when ib_umem_page_count is zero.  A slip first: the pages stay pinned.
AllocPagesFailsPinned(t) == pc[t] = "pages" /\ Fail(t, {"struct"})
AllocPagesFails(t) == pc[t] = "pages" /\ Fail(t, {"umem", "struct"})

\* The loop that stores the address of each page.
FillPages(t) ==
  /\ pc[t] = "fill"
  /\ pc' = [pc EXCEPT ![t] = "key"]
  /\ UNCHANGED <<pd, counter, list, num, is_dma, live, heap, obj>>
FillPagesFails(t) == pc[t] = "fill" /\ Fail(t, {"pages", "umem", "struct"})

AllocSq(t) == pc[t] = "sq" /\ Get(t, "sq", "rq")
AllocSqFails(t) == pc[t] = "sq" /\ Fail(t, {"struct"})

AllocRq(t) == pc[t] = "rq" /\ Get(t, "rq", "insert")
AllocRqFails(t) == pc[t] = "rq" /\ Fail(t, {"sq", "struct"})

SetKey(t) ==
  /\ pc[t] = "key"
  /\ num' = [num EXCEPT ![obj[t]] = counter["mr"]]
  /\ pc' = [pc EXCEPT ![t] = "insert"]
  /\ UNCHANGED <<pd, counter, list, is_dma, live, heap, obj>>

Insert(t) ==
  LET k == KindOf(obj[t]) IN
  /\ pc[t] = "insert"
  /\ list' = [list EXCEPT ![k][counter[k]] = obj[t]]
  /\ pc' = [pc EXCEPT ![t] = "count"]
  /\ UNCHANGED <<pd, counter, num, is_dma, live, heap, obj>>

\* The counter goes up and the call returns the object.
Count(t) ==
  /\ pc[t] = "count"
  /\ counter' = [counter EXCEPT ![KindOf(obj[t])] = @ + 1]
  /\ live' = live \cup {obj[t]}
  /\ pc' = [pc EXCEPT ![t] = "idle"]
  /\ obj' = [obj EXCEPT ![t] = NULL]
  /\ UNCHANGED <<pd, list, num, is_dma, heap>>

------------------------------------------------------------------------------
(* The end of an object, when the RDMA core finds it unused.  The tables   *)
(* and counters stay as they are.                                          *)

\* A slip: the region's place is to be used again.
DeregMrCountsDown(m) ==
  /\ m \in live \cap Mrs
  /\ heap' = heap \ Pieces(m)
  /\ live' = live \ {m}
  /\ counter' = [counter EXCEPT !["mr"] = @ - 1]
  /\ UNCHANGED <<pd, list, num, is_dma, pc, obj>>

DeregMr(m) ==
  /\ m \in live \cap Mrs
  /\ heap' = heap \ Pieces(m)
  /\ live' = live \ {m}
  /\ UNCHANGED <<pd, counter, list, num, is_dma, pc, obj>>

DestroyQp(q) ==
  /\ q \in live \cap Qps
  /\ heap' = heap \ Pieces(q)
  /\ live' = live \ {q}
  /\ UNCHANGED <<pd, counter, list, num, is_dma, pc, obj>>

Call(t) ==
  \/ AllocMr(t) \/ AllocQp(t) \/ AllocFails(t)
  \/ Pin(t) \/ PinFails(t)
  \/ AllocPages(t) \/ AllocPagesFails(t)
  \/ FillPages(t) \/ FillPagesFails(t)
  \/ AllocSq(t) \/ AllocSqFails(t)
  \/ AllocRq(t) \/ AllocRqFails(t)
  \/ SetKey(t) \/ Insert(t) \/ Count(t)

PdNext ==
  \/ AllocPd \/ DeallocPd
  \/ \E t \in Threads : Call(t) \/ \E k \in Kinds : CheckRoom(t, k)
  \/ \E m \in Mrs : DeregMr(m)
  \/ \E q \in Qps : DestroyQp(q)

PdSpec == PdInit /\ [][PdNext]_pdVars

------------------------------------------------------------------------------
(* Properties.                                                             *)

PieceNames == {"struct", "umem", "pages", "sq", "rq"}
Steps == {"idle", "mr", "qp", "pin", "pages", "fill", "sq", "rq", "key", "insert", "count"}

\* Every variable has its type: the counters stay within the tables' lengths.
PdTypeOK ==
  /\ pd \in BOOLEAN
  /\ counter \in [Kinds -> Nat]
  /\ \A k \in Kinds : counter[k] \in Ini[k]..Max[k]
  /\ \A k \in Kinds : list[k] \in [Slots(k) -> Objs \cup {NULL}]
  /\ num \in [Objs -> Nat]
  /\ is_dma \in BOOLEAN
  /\ live \subseteq Objs
  /\ heap \subseteq Objs \X PieceNames
  /\ pc \in [Threads -> Steps]
  /\ obj \in [Threads -> Objs \cup {NULL}]

\* The number of a live region or queue pair leads to it and to no other, as
\* the lookup pd->mr_list[ibsge->lkey] of a posted request takes for granted.
KeyNamesObject ==
  \A o \in live : LET k == KindOf(o) IN
    /\ num[o] \in Slots(k)
    /\ list[k][num[o]] = o

\* When no call is under way, the memory allocated is that of the live regions
\* and queue pairs: each of the failure paths of dis_reg_user_mr and
\* dis_create_qp gives back what was taken before, and nothing else.
NothingLeaks ==
  (\A t \in Threads : pc[t] = "idle") => heap = UNION {Pieces(o) : o \in live}
==============================================================================
