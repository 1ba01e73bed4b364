--------------------------------- MODULE DisSge ------------------------------
(***************************************************************************)
(* How a posted work request becomes a list of iovecs for the message      *)
(* queue library: dis_qp_post_one_sqe and dis_qp_post_one_rqe between the  *)
(* check for room and the store to head.  The first loop looks up the      *)
(* memory region of each segment and counts the pages it spans, then a     *)
(* page map is chosen, then the second loop cuts the segments at page      *)
(* bounds into that map.                                                   *)
(*                                                                         *)
(* Memory is bytes at addresses.  The pinned pages of a user region are    *)
(* numbered through; byte b of page p is at p * PageSize + b.  What is not *)
(* modelled is that the numbers of a request are of 32 and 64 bits.        *)
(***************************************************************************)
EXTENDS Integers, SequencesExt

CONSTANTS
  PageSize,  \* PAGE_SIZE
  SgePerWqe, \* DIS_SGE_PER_WQE
  MaxIovlen, \* DIS_MAX_IOVLEN
  Regions,   \* the memory region of each lkey, or NoMr
  NoMr,      \* no region
  DmaKinds,  \* whether the domain's regions are DMA regions
  MaxSges    \* bound: segments in a request

ASSUME SgeAssumption ==
  /\ PageSize \in Nat \ {0}
  /\ SgePerWqe \in Nat \ {0}
  /\ MaxIovlen \in Nat
  /\ SgePerWqe <= MaxIovlen
  /\ \A k \in DOMAIN Regions : Regions[k] = NoMr \/ Regions[k] \in [va : Nat, length : Nat]
  /\ DmaKinds \subseteq BOOLEAN
  /\ MaxSges \in Nat

VARIABLES
  wr,        \* the request: its segments (wr->sg_list)
  is_dma,    \* mr->is_dma of every region it names
  pc,        \* where the call is, or how it ended
  i,         \* the segment the loop is at
  sge_map,   \* the segments the first loop has worked out
  iovlen,    \* wqe->sci_msg.iovlen
  byte_len,  \* wqe->byte_len
  iov,       \* wqe->sci_msg.iov: the static or the dynamic page map
  map,       \* the contents of the two page maps
  sge_page   \* the entry the second loop writes next

input == <<wr, is_dma>>
vars == <<input, pc, i, sge_map, iovlen, byte_len, iov, map, sge_page>>

Keys == DOMAIN Regions

\* The segments of an application: within their region, if there is one, and
\* with lkeys that lie in the domain's table.  This is an assumption: the driver
\* indexes mr_list and the pages of the region with what it is given.
Segments ==
  UNION {IF Regions[k] = NoMr
         THEN [lkey : {k}, addr : {0}, length : {1}]
         ELSE UNION {[lkey : {k}, addr : {a}, length : 0..Regions[k].va + Regions[k].length - a] :
                       a \in Regions[k].va..Regions[k].va + Regions[k].length} :
         k \in Keys}

\* What is in a page map before it is filled in: anything.
Stale == [lkey |-> NoMr, at |-> 0, len |-> PageSize]

\* min(wr->num_sge, DIS_SGE_PER_WQE).
NumSge == IF Len(wr) < SgePerWqe THEN Len(wr) ELSE SgePerWqe

------------------------------------------------------------------------------
\* A domain has either user regions or the kernel's DMA region: only kernel
\* users get a DMA region, and only user space registers memory.
Init ==
  /\ wr \in BoundedSeq(Segments, MaxSges)
  /\ is_dma \in DmaKinds
  /\ pc = "count"
  /\ i = 1
  /\ sge_map = <<>>
  /\ iovlen = 0
  /\ byte_len = 0
  /\ iov = "static"
  /\ map = [static |-> [n \in 1..SgePerWqe |-> Stale], dynamic |-> <<>>]
  /\ sge_page = 1

------------------------------------------------------------------------------
(* The first loop.                                                          *)

\* base_offset: where the segment begins in the pages of its region.
BaseOffset(sge) ==
  (sge.addr - Regions[sge.lkey].va) + (Regions[sge.lkey].va % PageSize)

\* Slip: the page that is only partly covered is forgotten.
PageCountFloor(len, offset) == (len + offset) \div PageSize

\* page_count.  It counts the page after a segment that ends on a page bound.
PageCount(len, offset) == (len + offset) \div PageSize + 1

NoRegion ==
  /\ pc = "count"
  /\ i <= NumSge
  /\ Regions[wr[i].lkey] = NoMr
  /\ pc' = "no_mr"
  /\ UNCHANGED <<input, i, sge_map, iovlen, byte_len, iov, map, sge_page>>

\* Memory can be mapped one-to-one for DMA MRs.
CountDma ==
  /\ pc = "count"
  /\ i <= NumSge
  /\ Regions[wr[i].lkey] # NoMr
  /\ is_dma
  /\ sge_map' = Append(sge_map, [lkey |-> wr[i].lkey, at |-> 0, sge_len |-> 0, offset |-> 0])
  /\ map' = [map EXCEPT !["static"][i] =
               [lkey |-> wr[i].lkey, at |-> wr[i].addr, len |-> wr[i].length]]
  /\ byte_len' = byte_len + wr[i].length
  /\ iovlen' = iovlen + 1
  /\ i' = i + 1
  /\ UNCHANGED <<input, pc, iov, sge_page>>

CountUser ==
  /\ pc = "count"
  /\ i <= NumSge
  /\ Regions[wr[i].lkey] # NoMr
  /\ ~is_dma
  /\ LET page == BaseOffset(wr[i]) \div PageSize
         offset == BaseOffset(wr[i]) - page * PageSize
     IN /\ sge_map' = Append(sge_map, [lkey |-> wr[i].lkey, at |-> page * PageSize,
                                       sge_len |-> wr[i].length, offset |-> offset])
        /\ iovlen' = iovlen + PageCount(wr[i].length, offset)
  /\ i' = i + 1
  /\ UNCHANGED <<input, pc, byte_len, iov, map, sge_page>>

------------------------------------------------------------------------------
(* The choice of the page map.                                              *)

TooLong ==
  /\ pc = "count"
  /\ i > NumSge
  /\ iovlen > MaxIovlen
  /\ pc' = "too_long"
  /\ UNCHANGED <<input, i, sge_map, iovlen, byte_len, iov, map, sge_page>>

ChooseStatic ==
  /\ pc = "count"
  /\ i > NumSge
  /\ iovlen <= SgePerWqe
  /\ iov' = "static"
  /\ i' = 1
  /\ pc' = "map"
  /\ UNCHANGED <<input, sge_map, iovlen, byte_len, map, sge_page>>

\* kmalloc of iovlen entries.
ChooseDynamic ==
  /\ pc = "count"
  /\ i > NumSge
  /\ iovlen > SgePerWqe
  /\ iovlen <= MaxIovlen
  /\ map' = [map EXCEPT !.dynamic = [n \in 1..iovlen |-> Stale]]
  /\ iov' = "dynamic"
  /\ i' = 1
  /\ pc' = "map"
  /\ UNCHANGED <<input, sge_map, iovlen, byte_len, sge_page>>

NoMemory ==
  /\ pc = "count"
  /\ i > NumSge
  /\ iovlen > SgePerWqe
  /\ iovlen <= MaxIovlen
  /\ pc' = "no_memory"
  /\ UNCHANGED <<input, i, sge_map, iovlen, byte_len, iov, map, sge_page>>

------------------------------------------------------------------------------
(* The second loop.                                                         *)

\* One entry: the rest of the page or the rest of the segment.
MapPage(chunk, offset) ==
  /\ pc = "map"
  /\ i <= NumSge
  /\ sge_map[i].sge_len > 0
  /\ map' = [map EXCEPT ![iov][sge_page] =
               [lkey |-> sge_map[i].lkey, at |-> sge_map[i].at + sge_map[i].offset, len |-> chunk]]
  /\ byte_len' = byte_len + chunk
  /\ sge_map' = [sge_map EXCEPT ![i] =
                   [lkey |-> @.lkey, at |-> @.at + PageSize,
                    sge_len |-> @.sge_len - chunk, offset |-> offset]]
  /\ sge_page' = sge_page + 1
  /\ UNCHANGED <<input, pc, i, iovlen, iov>>

\* Slip: a piece may be a page long wherever it begins.
RestOfPageWhole == PageSize

RestOfPage == PageSize - sge_map[i].offset
SgeChunk == IF sge_map[i].sge_len < RestOfPage THEN sge_map[i].sge_len ELSE RestOfPage

\* Slips: the offset is kept for the next page; the last page is mapped whole.
MapChunkKeepsOffset == MapPage(SgeChunk, sge_map[i].offset)
MapChunkWhole == MapPage(RestOfPage, 0)

MapChunk == MapPage(SgeChunk, 0)

\* The segment is mapped, or needed no mapping (a DMA region).
MapNext ==
  /\ pc = "map"
  /\ i <= NumSge
  /\ sge_map[i].sge_len <= 0
  /\ i' = i + 1
  /\ UNCHANGED <<input, pc, sge_map, iovlen, byte_len, iov, map, sge_page>>

\* head is stored: the entry is the worker's.
MapDone ==
  /\ pc = "map"
  /\ i > NumSge
  /\ pc' = "posted"
  /\ UNCHANGED <<input, i, sge_map, iovlen, byte_len, iov, map, sge_page>>

------------------------------------------------------------------------------
Next ==
  \/ NoRegion \/ CountDma \/ CountUser
  \/ TooLong \/ ChooseStatic \/ ChooseDynamic \/ NoMemory
  \/ MapChunk \/ MapNext \/ MapDone

Spec == Init /\ [][Next]_vars

------------------------------------------------------------------------------
(* Properties.                                                              *)

Iovecs == [lkey : Keys \cup {NoMr}, at : Nat, len : Nat]
SgeMaps == [lkey : Keys, at : Nat, sge_len : Nat, offset : 0..PageSize - 1]

\* Every variable stays within its type; no length or offset goes below zero.
TypeOK ==
  /\ pc \in {"count", "map", "posted", "no_mr", "too_long", "no_memory"}
  /\ i \in 1..MaxSges + 1
  /\ sge_map \in Seq(SgeMaps)
  /\ iovlen \in Nat
  /\ byte_len \in Nat
  /\ iov \in {"static", "dynamic"}
  /\ map \in [{"static", "dynamic"} -> Seq(Iovecs)]
  /\ sge_page \in Nat

\* The second loop writes within the chosen page map: page_count is never
\* less than the pieces the segments are cut into, wherever they begin.
WithinMap ==
  pc = "map" /\ i <= NumSge /\ sge_map[i].sge_len > 0 => sge_page \in DOMAIN map[iov]

\* Where a segment begins, among the pages of its region or in memory.
Start(sge) == IF is_dma THEN sge.addr ELSE BaseOffset(sge)

\* The bytes an iovec covers, and those a segment of the request names.
BytesOf(e) == [n \in 1..e.len |-> <<e.lkey, e.at + n - 1>>]
BytesOfSge(sge) == [n \in 1..sge.length |-> <<sge.lkey, Start(sge) + n - 1>>]

\* The library is handed the bytes of the request's first DIS_SGE_PER_WQE
\* segments, all of them and in order: byte_len bytes along the iovecs.
Covers ==
  pc = "posted" =>
    LET given == FlattenSeq([n \in 1..iovlen |-> BytesOf(map[iov][n])])
        asked == FlattenSeq([n \in 1..NumSge |-> BytesOfSge(wr[n])])
    IN /\ byte_len <= Len(given)
       /\ SubSeq(given, 1, byte_len) = asked

\* No iovec of a user region reaches over a page bound: the pages before and
\* after it in the region lie elsewhere in memory.
WithinPages ==
  pc = "posted" /\ ~is_dma =>
    \A n \in 1..iovlen : (map[iov][n].at % PageSize) + map[iov][n].len <= PageSize
==============================================================================
