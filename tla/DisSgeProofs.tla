----------------------------- MODULE DisSgeProofs ----------------------------
(***************************************************************************)
(* Proofs about the scatter-gather mapping of a posted work request, for   *)
(* every page size, every set of regions and every request: the second     *)
(* loop of dis_qp_post_one_sqe and dis_qp_post_one_rqe stays within the    *)
(* page map that the first one measured, no iovec reaches over a page      *)
(* bound, and the iovecs are the segments, cut up.                         *)
(***************************************************************************)
EXTENDS DisSge, TLAPS

------------------------------------------------------------------------------
(* Division into pages.                                                     *)

\* The page of a byte and its place there.
LEMMA DivFacts ==
    ASSUME NEW P \in Nat \ {0}, NEW a \in Nat
    PROVE  /\ a \div P \in Nat
           /\ (a \div P) * P <= a
           /\ a - (a \div P) * P \in 0..P - 1
  <1>1. a \div P \in Int /\ a = P * (a \div P) + (a % P) /\ a % P \in 0..P - 1
    OBVIOUS
  <1>2. a \div P \in Nat
    OBVIOUS
  <1>3. P * (a \div P) = (a \div P) * P
    BY <1>1
  <1> QED BY <1>1, <1>2, <1>3

\* There is only one.
LEMMA DivUnique ==
    ASSUME NEW P \in Nat \ {0}, NEW a \in Int, NEW q \in Int, NEW r \in 0..P - 1, a = q * P + r
    PROVE  a \div P = q /\ a % P = r
  OBVIOUS

\* The byte a page further on lies in the next page.
LEMMA DivStep ==
    ASSUME NEW P \in Nat \ {0}, NEW a \in Nat, a >= P
    PROVE  (a - P) \div P = a \div P - 1
  <1>1. a - (a \div P) * P \in 0..P - 1 /\ a \div P \in Nat
    BY DivFacts
  <1> DEFINE q == (a \div P) - 1
             r == a - (a \div P) * P
  <1>2. q \in Int /\ r \in 0..P - 1 /\ a - P \in Int
    BY <1>1
  <1>3. a - P = q * P + r
    BY <1>1
  <1> HIDE DEF q, r
  <1>4. (a - P) \div P = q
    BY <1>2, <1>3, DivUnique
  <1> QED BY <1>4 DEF q

\* Places counted in pages are places.
LEMMA TimesNat == ASSUME NEW p \in Nat, NEW q \in Nat PROVE p * q \in Nat
  OBVIOUS

\* Cutting off the rest of the first page leaves one page less to map.
LEMMA PageCountDrops ==
    ASSUME NEW P \in Nat \ {0}, P = PageSize,
           NEW offset \in 0..P - 1, NEW len \in Nat
    PROVE  /\ PageCount(len, offset) \in Nat \ {0}
           /\ len >= P - offset =>
                PageCount(len - (P - offset), 0) = PageCount(len, offset) - 1
  <1>1. PageCount(len, offset) \in Nat \ {0}
    BY DivFacts DEF PageCount
  <1>2. ASSUME len >= P - offset
        PROVE  PageCount(len - (P - offset), 0) = PageCount(len, offset) - 1
    <2> DEFINE a == len + offset
    <2>1. a \in Nat /\ a >= P /\ (len - (P - offset)) + 0 = a - P
      BY <1>2
    <2> HIDE DEF a
    <2>2. (a - P) \div P = a \div P - 1 /\ a \div P \in Nat
      BY <2>1, DivStep, DivFacts
    <2> QED BY <2>1, <2>2 DEF PageCount, a
  <1> QED BY <1>1, <1>2

------------------------------------------------------------------------------
(* What a request is cut into.                                              *)

\* The entries from first to last of the page map in use run on from one to
\* the next, from the start of the segment to the place end.
Run(sge, first, last, end) ==
  IF last < first THEN end = Start(sge)
  ELSE /\ map[iov][first].at = Start(sge)
       /\ \A m \in first..last - 1 : map[iov][m + 1].at = map[iov][m].at + map[iov][m].len
       /\ map[iov][last].at + map[iov][last].len = end
       /\ \A m \in first..last : map[iov][m].lkey = sge.lkey

\* The entries up to cut[n] are those of the first n segments, cut up one after
\* the other, and total[n] is how many bytes these have.
IsCut(cut, total, n) ==
  /\ cut[0] = 0
  /\ total[0] = 0
  /\ \A k \in 1..n :
       /\ cut[k - 1] <= cut[k]
       /\ Run(wr[k], cut[k - 1] + 1, cut[k], Start(wr[k]) + wr[k].length)
       /\ total[k] = total[k - 1] + wr[k].length

\* Every segment is cut into iovecs without a gap, an overlap or a byte too
\* many, the pieces of each follow those of the one before, and byte_len is the
\* sum of the lengths.  This is Covers without the
\* sequences of bytes, which only TLC can compute.
CutsSegments ==
  pc = "posted" =>
    \E cut \in [0..NumSge -> 0..iovlen], total \in [0..NumSge -> 0..byte_len] :
      IsCut(cut, total, NumSge) /\ total[NumSge] = byte_len

------------------------------------------------------------------------------
(* The invariant.                                                           *)

\* The call has not failed.
Going == {"count", "map", "posted"}

\* The request is one an application can make.
InputInv ==
  /\ is_dma \in BOOLEAN
  /\ wr \in Seq(Segments)
  /\ Len(wr) <= MaxSges

\* A segment the second loop has not come to is as the first one left it.
Whole(n) ==
  IF is_dma THEN sge_map[n].sge_len = 0
  ELSE /\ sge_map[n].at + sge_map[n].offset = BaseOffset(wr[n])
       /\ sge_map[n].sge_len = wr[n].length

\* The loops go over the first segments of the request, one after the other,
\* all of which lie in a region.
LoopInv ==
  /\ i <= NumSge + 1
  /\ pc = "count" => Len(sge_map) = i - 1
  /\ pc \in {"map", "posted"} => Len(sge_map) = NumSge
  /\ pc = "posted" => i = NumSge + 1
  /\ Len(sge_map) <= NumSge
  /\ \A n \in 1..Len(sge_map) :
       /\ sge_map[n].lkey = wr[n].lkey
       /\ Regions[wr[n].lkey] # NoMr
       /\ is_dma => sge_map[n].sge_len = 0
       /\ ~is_dma => \E q \in Nat : sge_map[n].at = q * PageSize
       /\ pc = "count" => Whole(n)
       /\ pc = "map" /\ n > i => Whole(n)

\* How many more entries a segment may need.
Left(n) ==
  IF sge_map[n].sge_len > 0 THEN PageCount(sge_map[n].sge_len, sge_map[n].offset) ELSE 0

\* There is room for the segments not yet mapped: those up to the n-th use no
\* entry after room[n].
HasRoom(room) ==
  \A n \in 1..Len(sge_map) :
    /\ room[n] <= iovlen
    /\ pc = "count" \/ (pc = "map" /\ n > i) => room[n - 1] + Left(n) <= room[n]
    /\ pc = "map" /\ n = i => sge_page - 1 + Left(n) <= room[n]

\* The page map is long enough.
RoomInv ==
  /\ pc = "count" => sge_page = 1 /\ iov = "static"
  /\ sge_page >= 1
  /\ pc \in Going => sge_page - 1 <= iovlen
  /\ is_dma => sge_page = 1
  /\ Len(map.static) = SgePerWqe
  /\ pc \in {"map", "posted"} => iovlen <= Len(map[iov])
  /\ pc \in Going =>
       \E room \in [0..NumSge -> Nat] : room[0] = 0 /\ HasRoom(room)

\* No entry reaches over a page bound.
InPage(e) == (e.at % PageSize) + e.len <= PageSize
PageInv ==
  ~is_dma => /\ \A n \in 1..Len(map.static) : InPage(map.static[n])
             /\ \A n \in 1..Len(map.dynamic) : InPage(map.dynamic[n])

\* How many segments are mapped.
Mapped == IF is_dma THEN Len(sge_map) ELSE IF pc = "count" THEN 0 ELSE i - 1

\* The last entry that is filled in.
LastEntry == IF is_dma THEN Len(sge_map) ELSE sge_page - 1

\* How far the segment at hand is mapped.
Reached ==
  IF sge_map[i].sge_len > 0 THEN sge_map[i].at + sge_map[i].offset ELSE Start(wr[i]) + wr[i].length

\* The segments mapped are cut up as cut and total say, and so is the part of
\* the one at hand.
CutSoFar(cut, total) ==
  /\ IsCut(cut, total, Mapped)
  /\ \A k \in 0..Mapped : cut[k] <= LastEntry /\ total[k] <= byte_len
  /\ IF ~is_dma /\ pc = "map" /\ i <= NumSge
     THEN /\ Run(wr[i], cut[Mapped] + 1, LastEntry, Reached)
          /\ sge_map[i].sge_len > 0 =>
               Reached + sge_map[i].sge_len = Start(wr[i]) + wr[i].length
          /\ total[Mapped] + wr[i].length = byte_len + sge_map[i].sge_len
     ELSE cut[Mapped] = LastEntry /\ total[Mapped] = byte_len

CutInv ==
  /\ is_dma /\ pc \in Going => iovlen = Len(sge_map)
  /\ pc \in Going =>
       \E cut \in [0..NumSge -> Nat], total \in [0..NumSge -> Nat] : CutSoFar(cut, total)

SgeInv == InputInv /\ TypeOK /\ LoopInv /\ RoomInv /\ PageInv /\ CutInv

------------------------------------------------------------------------------
(* The request.                                                             *)

\* A segment of an application that lies in a region begins there.
LEMMA SegmentFacts ==
    ASSUME NEW sge \in Segments
    PROVE  /\ sge.lkey \in Keys
           /\ sge.addr \in Nat
           /\ sge.length \in Nat
           /\ Regions[sge.lkey] # NoMr => BaseOffset(sge) \in Nat /\ Start(sge) \in Nat
  <1>1. PICK k \in Keys :
          sge \in IF Regions[k] = NoMr
                  THEN [lkey : {k}, addr : {0}, length : {1}]
                  ELSE UNION {[lkey : {k}, addr : {a},
                               length : 0..Regions[k].va + Regions[k].length - a] :
                                 a \in Regions[k].va..Regions[k].va + Regions[k].length}
    BY DEF Segments
  <1>2. CASE Regions[k] = NoMr
    BY <1>1, <1>2
  <1>3. CASE Regions[k] # NoMr
    <2>1. PICK a \in Regions[k].va..Regions[k].va + Regions[k].length :
            sge \in [lkey : {k}, addr : {a}, length : 0..Regions[k].va + Regions[k].length - a]
      BY <1>1, <1>3
    <2>2. Regions[k].va \in Nat /\ Regions[k].length \in Nat
      BY <1>3, SgeAssumption DEF Keys
    <2>3. /\ sge.lkey = k
          /\ sge.addr = a
          /\ a \in Nat
          /\ a >= Regions[k].va
          /\ sge.length \in Nat
      BY <2>1, <2>2
    <2>4. Regions[k].va % PageSize \in Nat
      BY <2>2, SgeAssumption
    <2>5. BaseOffset(sge) \in Nat
      BY <2>2, <2>3, <2>4 DEF BaseOffset
    <2> QED BY <2>3, <2>5 DEF Start
  <1> QED BY <1>2, <1>3

\* The segments the loops go over.
LEMMA RequestFacts ==
    ASSUME InputInv
    PROVE  /\ NumSge \in Nat
           /\ NumSge <= Len(wr)
           /\ NumSge <= SgePerWqe
           /\ NumSge <= MaxSges
           /\ \A n \in 1..NumSge : wr[n] \in Segments
  <1>1. Len(wr) \in Nat /\ \A n \in 1..Len(wr) : wr[n] \in Segments
    BY DEF InputInv
  <1> QED BY <1>1, SgeAssumption DEF InputInv, NumSge

\* What the first loop works out for a segment of a user region.
LEMMA CountFacts ==
    ASSUME NEW n \in 1..NumSge, InputInv, Regions[wr[n].lkey] # NoMr,
           NEW page, page = BaseOffset(wr[n]) \div PageSize,
           NEW offset, offset = BaseOffset(wr[n]) - page * PageSize
    PROVE  /\ page \in Nat
           /\ page * PageSize \in Nat
           /\ offset \in 0..PageSize - 1
           /\ page * PageSize + offset = BaseOffset(wr[n])
           /\ wr[n].length \in Nat
           /\ wr[n].lkey \in Keys
           /\ PageCount(wr[n].length, offset) \in Nat \ {0}
  <1>1. BaseOffset(wr[n]) \in Nat /\ wr[n].length \in Nat /\ wr[n].lkey \in Keys
    BY RequestFacts, SegmentFacts
  <1>2. page \in Nat /\ offset \in 0..PageSize - 1
    BY <1>1, SgeAssumption, DivFacts
  <1>3. page * PageSize \in Nat /\ page * PageSize + offset = BaseOffset(wr[n])
    <2>1. page * PageSize \in Nat
      BY <1>2, SgeAssumption, TimesNat
    <2> QED BY <1>1, <2>1
  <1> QED BY <1>1, <1>2, <1>3, SgeAssumption, PageCountDrops

\* A piece of a segment and what is left of it.
LEMMA ChunkFacts ==
    ASSUME InputInv, TypeOK, LoopInv, MapChunk
    PROVE  /\ i \in 1..Len(sge_map)
           /\ sge_map[i] \in SgeMaps
           /\ SgeChunk \in Nat \ {0}
           /\ SgeChunk <= PageSize - sge_map[i].offset
           /\ SgeChunk <= sge_map[i].sge_len
           /\ SgeChunk < sge_map[i].sge_len => SgeChunk = PageSize - sge_map[i].offset
           /\ Len(sge_map') = Len(sge_map)
           /\ \A n \in 1..Len(sge_map) : n # i => sge_map'[n] = sge_map[n]
           /\ sge_map'[i] = [lkey |-> sge_map[i].lkey, at |-> sge_map[i].at + PageSize,
                             sge_len |-> sge_map[i].sge_len - SgeChunk, offset |-> 0]
           /\ ~is_dma
  <1>1. pc = "map" /\ i \in 1..NumSge /\ Len(sge_map) = NumSge
    BY RequestFacts DEF MapChunk, MapPage, LoopInv, TypeOK
  <1>2. sge_map \in Seq(SgeMaps)
    BY DEF TypeOK
  <1>3. sge_map[i] \in SgeMaps /\ PageSize \in Nat \ {0}
    BY <1>1, <1>2, SgeAssumption
  <1>4. sge_map[i].sge_len > 0
    BY DEF MapChunk, MapPage
  <1>5. /\ SgeChunk \in Nat \ {0}
        /\ SgeChunk <= PageSize - sge_map[i].offset
        /\ SgeChunk <= sge_map[i].sge_len
        /\ SgeChunk < sge_map[i].sge_len => SgeChunk = PageSize - sge_map[i].offset
    BY <1>3, <1>4 DEF SgeChunk, RestOfPage, SgeMaps
  <1> DEFINE rest == [lkey |-> sge_map[i].lkey, at |-> sge_map[i].at + PageSize,
                      sge_len |-> sge_map[i].sge_len - SgeChunk, offset |-> 0]
  <1>6. sge_map' = [sge_map EXCEPT ![i] = rest]
    BY DEF MapChunk, MapPage
  <1> HIDE DEF rest
  <1>7. /\ Len(sge_map') = Len(sge_map)
        /\ \A n \in 1..Len(sge_map) : n # i => sge_map'[n] = sge_map[n]
        /\ sge_map'[i] = rest
    BY <1>1, <1>2, <1>6
  <1>8. ~is_dma
    BY <1>1, <1>4 DEF LoopInv
  <1> QED BY <1>1, <1>3, <1>5, <1>7, <1>8 DEF rest

\* What is left of a segment is a segment.
LEMMA ChunkTypes ==
    ASSUME InputInv, TypeOK, LoopInv, MapChunk
    PROVE  /\ sge_map[i].at + sge_map[i].offset \in Nat
           /\ sge_map' \in Seq(SgeMaps)
  <1>1. sge_map[i] \in SgeMaps /\ i \in 1..Len(sge_map) /\ sge_map \in Seq(SgeMaps)
    BY ChunkFacts DEF TypeOK
  <1>2. PageSize \in Nat \ {0}
    BY SgeAssumption
  <1>3. PICK entry \in SgeMaps : entry = sge_map[i]
    BY <1>1
  <1>4. /\ entry.lkey \in Keys
        /\ entry.at \in Nat
        /\ entry.sge_len \in Nat
        /\ entry.offset \in 0..PageSize - 1
    BY DEF SgeMaps
  <1>5. PICK chunk \in Nat : chunk = SgeChunk
    BY ChunkFacts
  <1>6. chunk <= entry.sge_len
    BY <1>3, <1>5, ChunkFacts
  <1>7. entry.sge_len - chunk \in Nat
    BY <1>4, <1>6
  <1>8. entry.at + PageSize \in Nat /\ entry.at + entry.offset \in Nat /\ 0 \in 0..PageSize - 1
    BY <1>2, <1>4
  <1>9. PICK rest : rest = [lkey |-> entry.lkey, at |-> entry.at + PageSize,
                            sge_len |-> entry.sge_len - chunk, offset |-> 0]
    OBVIOUS
  <1>10. rest \in SgeMaps
    BY <1>4, <1>7, <1>8, <1>9 DEF SgeMaps
  <1>11. sge_map' = [sge_map EXCEPT ![i] = rest]
    BY <1>3, <1>5, <1>9 DEF MapChunk, MapPage
  <1>12. sge_map' \in Seq(SgeMaps)
    BY <1>1, <1>10, <1>11
  <1> QED BY <1>3, <1>8, <1>12

------------------------------------------------------------------------------
(* The page maps.                                                           *)

\* The next entry the second loop writes is in the page map.
LEMMA NextEntry ==
    ASSUME InputInv, TypeOK, LoopInv, RoomInv, pc = "map", i <= NumSge, sge_map[i].sge_len > 0
    PROVE  /\ sge_page \in 1..Len(map[iov])
           /\ sge_page <= iovlen
  <1>1. i \in 1..Len(sge_map) /\ sge_map[i] \in SgeMaps
    <2>1. i \in 1..NumSge /\ Len(sge_map) = NumSge
      BY RequestFacts DEF LoopInv, TypeOK
    <2> QED BY <2>1 DEF TypeOK
  <1>2. Left(i) \in Nat \ {0}
    BY <1>1, PageCountDrops, SgeAssumption DEF Left, SgeMaps
  <1>3. PICK room \in [0..NumSge -> Nat] : HasRoom(room)
    BY DEF RoomInv, Going
  <1>4. sge_page - 1 + Left(i) <= room[i] /\ room[i] <= iovlen /\ i \in 0..NumSge
    BY <1>1, <1>3, RequestFacts DEF HasRoom, TypeOK
  <1>5. sge_page \in Nat /\ iovlen \in Nat /\ room[i] \in Nat /\ sge_page >= 1
    BY <1>3, <1>4 DEF TypeOK, RoomInv
  <1>6. iovlen <= Len(map[iov]) /\ Len(map[iov]) \in Nat
    BY DEF RoomInv, TypeOK
  <1> QED BY <1>2, <1>4, <1>5, <1>6

\* What a piece of a segment does to the page maps.
LEMMA ChunkWrites ==
    ASSUME InputInv, TypeOK, LoopInv, RoomInv, MapChunk
    PROVE  /\ map' \in [{"static", "dynamic"} -> Seq(Iovecs)]
           /\ \A m \in {"static", "dynamic"} :
                /\ Len(map'[m]) = Len(map[m])
                /\ \A n \in 1..Len(map[m]) : m # iov \/ n # sge_page => map'[m][n] = map[m][n]
           /\ map'[iov][sge_page] =
                [lkey |-> sge_map[i].lkey, at |-> sge_map[i].at + sge_map[i].offset,
                 len |-> SgeChunk]
           /\ sge_page \in 1..Len(map[iov])
           /\ sge_page <= iovlen
           /\ iov \in {"static", "dynamic"}
           /\ UNCHANGED iov
  <1> DEFINE e == [lkey |-> sge_map[i].lkey, at |-> sge_map[i].at + sge_map[i].offset,
                   len |-> SgeChunk]
  <1>1. map' = [map EXCEPT ![iov][sge_page] = e] /\ UNCHANGED iov
    BY DEF MapChunk, MapPage
  <1>2. sge_page \in 1..Len(map[iov]) /\ sge_page <= iovlen
    BY NextEntry DEF MapChunk, MapPage
  <1>3. e \in Iovecs
    BY ChunkFacts, SgeAssumption DEF Iovecs, SgeMaps
  <1>4. map \in [{"static", "dynamic"} -> Seq(Iovecs)] /\ iov \in {"static", "dynamic"}
    BY DEF TypeOK
  <1> HIDE DEF e
  <1>5. /\ map' \in [{"static", "dynamic"} -> Seq(Iovecs)]
        /\ map'[iov] = [map[iov] EXCEPT ![sge_page] = e]
        /\ \A m \in {"static", "dynamic"} : m # iov => map'[m] = map[m]
    BY <1>1, <1>2, <1>3, <1>4
  <1>6. /\ Len(map'[iov]) = Len(map[iov])
        /\ map'[iov][sge_page] = e
        /\ \A n \in 1..Len(map[iov]) : n # sge_page => map'[iov][n] = map[iov][n]
    BY <1>2, <1>4, <1>5
  <1> QED BY <1>1, <1>2, <1>4, <1>5, <1>6 DEF e

\* What a segment of a DMA region does to them.
LEMMA DmaWrites ==
    ASSUME InputInv, TypeOK, LoopInv, RoomInv, CountDma
    PROVE  /\ map' \in [{"static", "dynamic"} -> Seq(Iovecs)]
           /\ map'["dynamic"] = map["dynamic"]
           /\ Len(map'["static"]) = Len(map["static"])
           /\ i \in 1..Len(map["static"])
           /\ \A n \in 1..Len(map["static"]) : n # i => map'["static"][n] = map["static"][n]
           /\ map'["static"][i] = [lkey |-> wr[i].lkey, at |-> wr[i].addr, len |-> wr[i].length]
  <1> DEFINE e == [lkey |-> wr[i].lkey, at |-> wr[i].addr, len |-> wr[i].length]
  <1>1. map' = [map EXCEPT !["static"][i] = e]
    BY DEF CountDma
  <1>2. i \in 1..NumSge /\ i \in 1..Len(map["static"])
    <2>1. i \in 1..NumSge
      BY RequestFacts DEF CountDma, TypeOK
    <2>2. Len(map["static"]) = SgePerWqe
      BY DEF RoomInv
    <2> QED BY <2>1, <2>2, RequestFacts, SgeAssumption
  <1>3. e \in Iovecs
    BY <1>2, RequestFacts, SegmentFacts DEF Iovecs
  <1>4. map \in [{"static", "dynamic"} -> Seq(Iovecs)]
    BY DEF TypeOK
  <1> HIDE DEF e
  <1>5. /\ map' \in [{"static", "dynamic"} -> Seq(Iovecs)]
        /\ map'["static"] = [map["static"] EXCEPT ![i] = e]
        /\ map'["dynamic"] = map["dynamic"]
    BY <1>1, <1>2, <1>3, <1>4
  <1> QED BY <1>2, <1>4, <1>5 DEF e

\* What kmalloc does to them.
LEMMA DynamicWrites ==
    ASSUME TypeOK, ChooseDynamic
    PROVE  /\ map' \in [{"static", "dynamic"} -> Seq(Iovecs)]
           /\ map'["static"] = map["static"]
           /\ Len(map'["dynamic"]) = iovlen
           /\ \A n \in 1..iovlen : map'["dynamic"][n] = Stale
  <1> DEFINE d == [n \in 1..iovlen |-> Stale]
  <1>1. map' = [map EXCEPT !.dynamic = d] /\ iovlen \in Nat
    BY DEF ChooseDynamic, TypeOK
  <1>2. Stale \in Iovecs
    BY SgeAssumption DEF Stale, Iovecs
  <1>3. d \in Seq(Iovecs) /\ Len(d) = iovlen /\ \A n \in 1..iovlen : d[n] = Stale
    BY <1>1, <1>2
  <1>4. map \in [{"static", "dynamic"} -> Seq(Iovecs)]
    BY DEF TypeOK
  <1> HIDE DEF d
  <1> QED BY <1>1, <1>3, <1>4

------------------------------------------------------------------------------
(* Types and loops.                                                         *)

\* No step of a call breaks the types.
LEMMA TypeStep ==
    ASSUME InputInv, TypeOK, LoopInv, RoomInv, [Next]_vars
    PROVE  TypeOK'
  <1> USE DEF TypeOK, input
  <1>t. PageSize \in Nat \ {0}
    BY SgeAssumption
  <1>1. CASE NoRegion
    BY <1>1 DEF NoRegion
  <1>2. CASE CountDma
    <2>0. i \in 1..NumSge /\ i + 1 \in 1..MaxSges + 1
      BY <1>2, RequestFacts, SgeAssumption DEF CountDma
    <2>1. wr[i].lkey \in Keys /\ wr[i].length \in Nat
      BY <2>0, RequestFacts, SegmentFacts
    <2>2. [lkey |-> wr[i].lkey, at |-> 0, sge_len |-> 0, offset |-> 0] \in SgeMaps
      BY <1>t, <2>1 DEF SgeMaps
    <2>3. sge_map' \in Seq(SgeMaps)
      BY <1>2, <2>2 DEF CountDma
    <2> QED BY <1>2, <2>0, <2>1, <2>3, DmaWrites DEF CountDma
  <1>3. CASE CountUser
    <2> DEFINE page == BaseOffset(wr[i]) \div PageSize
               offset == BaseOffset(wr[i]) - page * PageSize
               entry == [lkey |-> wr[i].lkey, at |-> page * PageSize,
                         sge_len |-> wr[i].length, offset |-> offset]
    <2>1. i \in 1..NumSge /\ i + 1 \in 1..MaxSges + 1 /\ Regions[wr[i].lkey] # NoMr
      BY <1>3, RequestFacts, SgeAssumption DEF CountUser
    <2>2. entry \in SgeMaps /\ PageCount(wr[i].length, offset) \in Nat
      BY <2>1, CountFacts DEF SgeMaps
    <2>3. /\ sge_map' = Append(sge_map, entry)
          /\ iovlen' = iovlen + PageCount(wr[i].length, offset)
          /\ i' = i + 1
          /\ UNCHANGED <<pc, byte_len, iov, map, sge_page>>
      BY <1>3 DEF CountUser
    <2> HIDE DEF entry, offset
    <2> QED BY <2>1, <2>2, <2>3
  <1>4. CASE TooLong \/ ChooseStatic \/ NoMemory
    BY <1>4, SgeAssumption DEF TooLong, ChooseStatic, NoMemory
  <1>5. CASE ChooseDynamic
    BY <1>5, DynamicWrites, SgeAssumption DEF ChooseDynamic
  <1>6. CASE MapChunk
    <2>3. sge_map' \in Seq(SgeMaps)
      BY <1>6, ChunkTypes
    <2>4. byte_len' \in Nat /\ sge_page' \in Nat /\ UNCHANGED <<pc, i, iovlen, iov>>
      BY <1>6, ChunkFacts DEF MapChunk, MapPage
    <2> QED BY <1>6, <2>3, <2>4, ChunkWrites
  <1>7. CASE MapNext
    BY <1>7, RequestFacts, SgeAssumption DEF MapNext
  <1>8. CASE MapDone
    BY <1>8 DEF MapDone
  <1>9. CASE UNCHANGED vars
    BY <1>9 DEF vars
  <1> QED BY <1>1, <1>2, <1>3, <1>4, <1>5, <1>6, <1>7, <1>8, <1>9 DEF Next

\* Neither the request nor the kind of its regions changes.
LEMMA InputStep == ASSUME [Next]_vars PROVE UNCHANGED input
  BY DEF Next, vars, NoRegion, CountDma, CountUser, TooLong, ChooseStatic, ChooseDynamic, NoMemory,
         MapChunk, MapPage, MapNext, MapDone

\* What the next segment adds to those worked out.
LEMMA CountAppends ==
    ASSUME InputInv, TypeOK, LoopInv, CountDma \/ CountUser
    PROVE  /\ Len(sge_map) = i - 1
           /\ i \in 1..NumSge
           /\ Len(sge_map') = i
           /\ \A n \in 1..i - 1 : sge_map'[n] = sge_map[n]
           /\ sge_map'[i].lkey = wr[i].lkey
           /\ pc = "count" /\ pc' = "count" /\ i' = i + 1
           /\ Regions[wr[i].lkey] # NoMr
           /\ is_dma => sge_map'[i].sge_len = 0
           /\ ~is_dma =>
                /\ \E q \in Nat : sge_map'[i].at = q * PageSize
                /\ sge_map'[i].at + sge_map'[i].offset = BaseOffset(wr[i])
                /\ sge_map'[i].sge_len = wr[i].length
                /\ sge_map'[i].sge_len \in Nat
                /\ iovlen' = iovlen + PageCount(wr[i].length, sge_map'[i].offset)
                /\ PageCount(wr[i].length, sge_map'[i].offset) \in Nat \ {0}
  <1>1. /\ i \in 1..NumSge
        /\ Len(sge_map) = i - 1
        /\ pc = "count" /\ pc' = "count" /\ i' = i + 1
        /\ Regions[wr[i].lkey] # NoMr
    BY DEF CountDma, CountUser, LoopInv, TypeOK
  <1>2. sge_map \in Seq(SgeMaps)
    BY DEF TypeOK
  <1>3. ASSUME NEW e, sge_map' = Append(sge_map, e)
        PROVE  /\ Len(sge_map') = i
               /\ \A n \in 1..i - 1 : sge_map'[n] = sge_map[n]
               /\ sge_map'[i] = e
    BY <1>1, <1>2, <1>3
  <1>4. CASE CountDma
    BY <1>1, <1>3, <1>4 DEF CountDma
  <1>5. CASE CountUser
    <2> DEFINE page == BaseOffset(wr[i]) \div PageSize
               offset == BaseOffset(wr[i]) - page * PageSize
               entry == [lkey |-> wr[i].lkey, at |-> page * PageSize,
                         sge_len |-> wr[i].length, offset |-> offset]
    <2>1. /\ sge_map' = Append(sge_map, entry)
          /\ iovlen' = iovlen + PageCount(wr[i].length, offset)
          /\ ~is_dma
      BY <1>5 DEF CountUser
    <2>2. /\ page \in Nat
          /\ page * PageSize + offset = BaseOffset(wr[i])
          /\ wr[i].length \in Nat
          /\ PageCount(wr[i].length, offset) \in Nat \ {0}
      BY <1>1, CountFacts
    <2> HIDE DEF page, offset
    <2> QED BY <1>1, <1>3, <2>1, <2>2
  <1> QED BY <1>4, <1>5

\* No step breaks what the loops keep to.
LEMMA LoopStep ==
    ASSUME InputInv, TypeOK, LoopInv, [Next]_vars
    PROVE  LoopInv'
  <1>u. UNCHANGED input
    BY InputStep
  <1>n. NumSge' = NumSge /\ NumSge \in Nat
    BY <1>u, RequestFacts DEF input, NumSge
  <1>b. \A n : BaseOffset(wr[n])' = BaseOffset(wr[n])
    BY <1>u DEF input, BaseOffset
  <1>i. i \in Nat \ {0} /\ Len(sge_map) \in Nat
    BY SgeAssumption DEF TypeOK
  <1>0. CASE NoRegion \/ TooLong \/ NoMemory
    BY <1>0, <1>n, <1>b, <1>i, <1>u DEF NoRegion, TooLong, NoMemory, input, LoopInv, Whole
  <1>1. CASE MapDone \/ UNCHANGED vars
    <2>1. UNCHANGED <<i, sge_map>> /\ (pc' = pc \/ (pc = "map" /\ pc' = "posted" /\ i > NumSge))
      BY <1>1 DEF MapDone, vars
    <2>2. \A n : Whole(n)' = Whole(n)
      BY <1>b, <1>u, <2>1 DEF input, Whole
    <2> QED BY <1>n, <1>i, <1>u, <2>1, <2>2 DEF input, LoopInv
  <1>2. CASE CountDma \/ CountUser
    <2>1. ASSUME NEW n \in 1..Len(sge_map')
          PROVE  /\ sge_map'[n].lkey = wr'[n].lkey
                 /\ Regions[wr'[n].lkey] # NoMr
                 /\ is_dma' => sge_map'[n].sge_len = 0
                 /\ ~is_dma' => \E q \in Nat : sge_map'[n].at = q * PageSize
                 /\ Whole(n)'
      <3>1. CASE n = i
        BY <1>2, <1>b, <1>u, <3>1, CountAppends DEF input, Whole
      <3>2. CASE n # i
        <4>1. n \in 1..i - 1 /\ n \in 1..Len(sge_map) /\ sge_map'[n] = sge_map[n] /\ pc = "count"
          BY <1>2, <1>i, <2>1, <3>2, CountAppends
        <4>2. Whole(n)'
          BY <1>b, <1>u, <4>1 DEF input, LoopInv, Whole
        <4> QED BY <1>u, <4>1, <4>2 DEF input, LoopInv
      <3> QED BY <3>1, <3>2
    <2> QED BY <1>2, <1>n, <1>i, <2>1, CountAppends DEF LoopInv
  <1>3. CASE ChooseStatic \/ ChooseDynamic
    BY <1>3, <1>n, <1>b, <1>i, <1>u DEF ChooseStatic, ChooseDynamic, input, LoopInv, Whole
  <1>4. CASE MapChunk
    <2>1. UNCHANGED <<pc, i>> /\ pc = "map" /\ i <= NumSge
      BY <1>4 DEF MapChunk, MapPage
    <2>2. \E q \in Nat : sge_map'[i].at = q * PageSize
      <3>1. PICK q \in Nat : sge_map[i].at = q * PageSize
        BY <1>4, ChunkFacts DEF LoopInv
      <3>2. sge_map'[i].at = q * PageSize + PageSize
        BY <1>4, <3>1, ChunkFacts
      <3>3. q * PageSize + PageSize = (q + 1) * PageSize
        BY <3>1, SgeAssumption
      <3> QED BY <3>1, <3>2, <3>3
    <2>3. sge_map'[i].lkey = sge_map[i].lkey
      BY <1>4, ChunkFacts
    <2> QED
      BY <1>4, <1>n, <1>b, <1>i, <1>u, <2>1, <2>2, <2>3, ChunkFacts DEF input, LoopInv, Whole
  <1>5. CASE MapNext
    BY <1>5, <1>n, <1>b, <1>i, <1>u DEF MapNext, input, LoopInv, Whole
  <1> QED BY <1>0, <1>1, <1>2, <1>3, <1>4, <1>5 DEF Next

------------------------------------------------------------------------------
(* Page bounds.                                                             *)

\* No entry that is written reaches over a page bound.
LEMMA PageStep ==
    ASSUME InputInv, TypeOK, LoopInv, RoomInv, PageInv, [Next]_vars
    PROVE  PageInv'
  <1>u. UNCHANGED input
    BY InputStep
  <1> SUFFICES ASSUME ~is_dma
               PROVE  /\ \A n \in 1..Len(map'["static"]) : InPage(map'["static"][n])
                      /\ \A n \in 1..Len(map'["dynamic"]) : InPage(map'["dynamic"][n])
    BY <1>u DEF input, PageInv, InPage
  <1>p. /\ \A n \in 1..Len(map["static"]) : InPage(map["static"][n])
        /\ \A n \in 1..Len(map["dynamic"]) : InPage(map["dynamic"][n])
    BY DEF PageInv
  <1>1. CASE UNCHANGED map
    BY <1>1, <1>p
  <1>2. CASE ChooseDynamic
    <2>1. InPage(Stale)
      BY SgeAssumption DEF InPage, Stale
    <2> QED BY <1>2, <1>p, <2>1, DynamicWrites
  <1>3. CASE MapChunk
    <2> DEFINE e == [lkey |-> sge_map[i].lkey, at |-> sge_map[i].at + sge_map[i].offset,
                     len |-> SgeChunk]
    <2>1. InPage(e)
      <3>1. PICK q \in Nat : sge_map[i].at = q * PageSize
        BY <1>3, ChunkFacts DEF LoopInv
      <3>2. sge_map[i].offset \in 0..PageSize - 1 /\ PageSize \in Nat \ {0} /\ q * PageSize \in Nat
        BY <1>3, <3>1, ChunkFacts, SgeAssumption, TimesNat DEF SgeMaps
      <3> DEFINE a == sge_map[i].at + sge_map[i].offset
                 r == sge_map[i].offset
      <3>3. a % PageSize = r
        <4>1. a \in Int /\ a = q * PageSize + r /\ r \in 0..PageSize - 1 /\ q \in Int
          BY <3>1, <3>2
        <4> HIDE DEF a, r
        <4> QED BY <3>2, <4>1, DivUnique
      <3>4. SgeChunk \in Nat /\ SgeChunk <= PageSize - sge_map[i].offset
        BY <1>3, ChunkFacts
      <3> QED BY <3>2, <3>3, <3>4 DEF InPage
    <2>2. map'[iov][sge_page] = e
      BY <1>3, ChunkWrites
    <2> HIDE DEF e
    <2>3. ASSUME NEW m \in {"static", "dynamic"}, NEW n \in 1..Len(map'[m])
          PROVE  InPage(map'[m][n])
      <3>1. n \in 1..Len(map[m])
        BY <1>3, ChunkWrites
      <3>2. CASE m = iov /\ n = sge_page
        BY <2>1, <2>2, <3>2
      <3>3. CASE m # iov \/ n # sge_page
        <4>1. map'[m][n] = map[m][n]
          BY <1>3, <3>1, <3>3, ChunkWrites
        <4> QED BY <1>p, <3>1, <4>1
      <3> QED BY <3>2, <3>3
    <2> QED BY <2>3
  <1> QED
    BY <1>1, <1>2, <1>3
    DEF Next, vars, NoRegion, CountDma, CountUser, TooLong, ChooseStatic, NoMemory, MapNext, MapDone

------------------------------------------------------------------------------
(* The length of the page map.                                              *)

\* A segment needs so many entries.
LEMMA LeftNat ==
    ASSUME TypeOK
    PROVE  \A n \in 1..Len(sge_map) : sge_map[n] \in SgeMaps /\ Left(n) \in Nat
  <1> SUFFICES ASSUME NEW n \in 1..Len(sge_map) PROVE sge_map[n] \in SgeMaps /\ Left(n) \in Nat
    OBVIOUS
  <1>1. sge_map[n] \in SgeMaps
    BY DEF TypeOK
  <1> QED BY <1>1, PageCountDrops, SgeAssumption DEF Left, SgeMaps

\* A piece takes an entry, and the segment needs one less afterwards.
LEMMA LeftDrops ==
    ASSUME InputInv, TypeOK, LoopInv, MapChunk
    PROVE  Left(i)' \in Nat /\ Left(i)' <= Left(i) - 1
  <1> DEFINE P == PageSize
             offset == sge_map[i].offset
             len == sge_map[i].sge_len
  <1>1. P \in Nat \ {0} /\ offset \in 0..P - 1 /\ len \in Nat
    BY ChunkFacts, SgeAssumption DEF SgeMaps
  <1>2. len > 0 /\ i' = i
    BY DEF MapChunk, MapPage
  <1>3. Left(i) = PageCount(len, offset)
    BY <1>2 DEF Left
  <1>4. sge_map'[i].sge_len = len - SgeChunk /\ sge_map'[i].offset = 0
    BY ChunkFacts
  <1>5. Left(i)' = IF len - SgeChunk > 0 THEN PageCount(len - SgeChunk, 0) ELSE 0
    BY <1>2, <1>4 DEF Left, PageCount
  <1>6. PageCount(len, offset) \in Nat \ {0}
    BY <1>1, PageCountDrops
  <1>7. CASE len - SgeChunk > 0
    <2>1. SgeChunk = P - offset /\ len >= P - offset
      BY <1>1, <1>7, ChunkFacts
    <2>2. PageCount(len - (P - offset), 0) = PageCount(len, offset) - 1
      BY <1>1, <2>1, PageCountDrops
    <2> QED BY <1>3, <1>5, <1>6, <1>7, <2>1, <2>2
  <1>8. CASE ~(len - SgeChunk > 0)
    BY <1>3, <1>5, <1>6, <1>8
  <1> QED BY <1>7, <1>8

\* Counting a segment sets its entries aside.
LEMMA CountSetsAside ==
    ASSUME InputInv, TypeOK, LoopInv, RoomInv, CountDma \/ CountUser
    PROVE  \E room \in [0..NumSge -> Nat] : room[0] = 0 /\ HasRoom(room)'
  <1>1. PICK room \in [0..NumSge -> Nat] : room[0] = 0 /\ HasRoom(room)
    BY CountAppends DEF RoomInv, Going
  <1>k. PICK k \in 1..NumSge : k = i
    BY CountAppends
  <1>2. /\ Len(sge_map) = k - 1
        /\ Len(sge_map') = k
        /\ \A n \in 1..k - 1 : sge_map'[n] = sge_map[n]
        /\ pc = "count"
        /\ pc' = "count"
        /\ NumSge \in Nat
        /\ iovlen \in Nat
    BY <1>k, CountAppends, RequestFacts DEF TypeOK
  <1>3. iovlen' \in Nat /\ Left(k)' \in Nat /\ iovlen' >= iovlen + Left(k)'
    <2>1. CASE CountDma
      <3>1. iovlen' = iovlen + 1 /\ is_dma
        BY <2>1 DEF CountDma
      <3>2. sge_map'[k].sge_len = 0
        BY <1>k, <3>1, CountAppends
      <3>3. Left(k)' = 0
        BY <3>2 DEF Left
      <3> QED BY <1>2, <3>1, <3>3
    <2>2. CASE CountUser
      <3>1. ~is_dma
        BY <2>2 DEF CountUser
      <3>2. /\ sge_map'[k].sge_len = wr[k].length
            /\ iovlen' = iovlen + PageCount(wr[k].length, sge_map'[k].offset)
            /\ PageCount(wr[k].length, sge_map'[k].offset) \in Nat
        BY <1>k, <3>1, CountAppends
      <3> QED BY <1>2, <3>2 DEF Left, PageCount
    <2> QED BY <2>1, <2>2
  <1>r. PICK room2 \in [0..NumSge -> Nat] : room2 = [room EXCEPT ![k] = iovlen']
    BY <1>1, <1>k, <1>3
  <1>4. /\ room2[k] = iovlen'
        /\ \A n \in 0..k - 1 : room2[n] = room[n] /\ room[n] \in Nat
        /\ \A n \in 1..k - 1 : n - 1 \in 0..k - 1
    BY <1>1, <1>2, <1>k, <1>r
  <1>5. \A n \in 0..k - 1 : room[n] <= iovlen
    BY <1>1, <1>2 DEF HasRoom
  <1>6. ASSUME NEW n \in 1..k PROVE room2[n] <= iovlen' /\ room2[n - 1] + Left(n)' <= room2[n]
    <2>1. CASE n = k
      BY <1>k, <1>2, <1>3, <1>4, <1>5, <2>1
    <2>2. CASE n # k
      <3>1. n \in 1..k - 1 /\ n \in 0..k - 1 /\ n - 1 \in 0..k - 1
        BY <1>2, <2>2
      <3>2. room[n - 1] + Left(n) <= room[n] /\ room[n] <= iovlen
        BY <1>1, <1>2, <3>1 DEF HasRoom
      <3>3. Left(n)' = Left(n)
        BY <1>2, <3>1 DEF Left, PageCount
      <3> QED BY <1>2, <1>3, <1>4, <3>1, <3>2, <3>3
    <2> QED BY <2>1, <2>2
  <1>7. HasRoom(room2)'
    BY <1>2, <1>6 DEF HasRoom
  <1>8. room2[0] = 0
    BY <1>1, <1>k, <1>2, <1>4
  <1> QED BY <1>7, <1>8, <1>r

\* No step runs out of entries.
LEMMA RoomStep ==
    ASSUME InputInv, TypeOK, TypeOK', LoopInv, LoopInv', RoomInv, [Next]_vars
    PROVE  RoomInv'
  <1>n. UNCHANGED input /\ NumSge' = NumSge /\ NumSge \in Nat
    BY InputStep, RequestFacts DEF input, NumSge
  <1>t. i \in Nat \ {0} /\ Len(sge_map) \in Nat /\ iovlen \in Nat /\ sge_page \in Nat
    BY SgeAssumption DEF TypeOK
  <1>1. CASE NoRegion \/ TooLong \/ NoMemory
    BY <1>1, <1>n DEF NoRegion, TooLong, NoMemory, RoomInv, Going, input
  <1>2. CASE CountDma \/ CountUser
    <2>1. \E room \in [0..NumSge' -> Nat] : room[0] = 0 /\ HasRoom(room)'
      BY <1>2, <1>n, CountSetsAside
    <2>2. /\ pc = "count" /\ pc' = "count" /\ UNCHANGED <<iov, sge_page>>
          /\ Len(map'["static"]) = Len(map["static"])
      BY <1>2, DmaWrites DEF CountDma, CountUser
    <2>3. iovlen' \in Nat /\ sge_page = 1
      BY <2>2 DEF TypeOK, RoomInv
    <2> QED BY <1>n, <2>1, <2>2, <2>3 DEF RoomInv, input
  <1>3. CASE ChooseStatic \/ ChooseDynamic
    <2>1. /\ pc = "count" /\ pc' = "map" /\ i' = 1 /\ UNCHANGED <<sge_page, iovlen, sge_map>>
          /\ sge_page = 1
      BY <1>3 DEF ChooseStatic, ChooseDynamic, RoomInv
    <2>2. PICK room \in [0..NumSge -> Nat] : room[0] = 0 /\ HasRoom(room)
      BY <2>1 DEF RoomInv, Going
    <2>3. HasRoom(room)'
      <3>1. \A n : Left(n)' = Left(n)
        BY <2>1 DEF Left, PageCount
      <3> QED BY <1>t, <2>1, <2>2, <3>1 DEF HasRoom
    <2>4. iovlen' <= Len(map'[iov']) /\ Len(map'["static"]) = SgePerWqe
      <3>1. CASE ChooseStatic
        BY <2>1, <3>1 DEF ChooseStatic, RoomInv
      <3>2. CASE ChooseDynamic
        <4>1. iov' = "dynamic"
          BY <3>2 DEF ChooseDynamic
        <4> QED BY <1>t, <2>1, <3>2, <4>1, DynamicWrites DEF RoomInv
      <3> QED BY <1>3, <3>1, <3>2
    <2> QED BY <1>n, <1>t, <2>1, <2>2, <2>3, <2>4 DEF RoomInv, input
  <1>4. CASE MapChunk
    <2>1. /\ UNCHANGED <<pc, i, iovlen>>
          /\ pc = "map"
          /\ sge_page' = sge_page + 1
          /\ sge_page <= iovlen
          /\ ~is_dma
      BY <1>4, ChunkWrites, ChunkFacts DEF MapChunk, MapPage
    <2>2. PICK room \in [0..NumSge -> Nat] : room[0] = 0 /\ HasRoom(room)
      BY <2>1 DEF RoomInv, Going
    <2>3. ASSUME NEW n \in 1..Len(sge_map)
          PROVE  /\ room[n] <= iovlen
                 /\ n > i => room[n - 1] + Left(n)' <= room[n]
                 /\ n = i => sge_page' - 1 + Left(n)' <= room[n]
      <3>1. CASE n = i
        <4>1. sge_page - 1 + Left(i) <= room[i] /\ room[i] <= iovlen
          BY <2>1, <2>2, <3>1 DEF HasRoom
        <4>2. Left(i) \in Nat /\ Left(n)' \in Nat /\ Left(n)' <= Left(i) - 1
          BY <1>4, <2>1, <3>1, LeftDrops, LeftNat
        <4>3. room[i] \in Nat
          BY <1>n, <2>2, <3>1 DEF LoopInv
        <4> QED BY <1>t, <2>1, <3>1, <4>1, <4>2, <4>3
      <3>2. CASE n # i
        <4>1. Left(n)' = Left(n)
          BY <1>4, <2>3, <3>2, ChunkFacts DEF Left, PageCount
        <4> QED BY <2>1, <2>2, <3>2, <4>1 DEF HasRoom
      <3> QED BY <3>1, <3>2
    <2>4. HasRoom(room)'
      BY <1>4, <2>1, <2>3, ChunkFacts DEF HasRoom
    <2>5. iovlen' <= Len(map'[iov']) /\ Len(map'["static"]) = Len(map["static"])
      BY <1>4, <2>1, ChunkWrites DEF RoomInv
    <2> QED BY <1>n, <1>t, <2>1, <2>2, <2>4, <2>5 DEF RoomInv, input
  <1>5. CASE MapNext
    <2>1. /\ UNCHANGED <<pc, sge_map, iovlen, iov, map, sge_page>>
          /\ pc = "map"
          /\ i' = i + 1
          /\ i \in 1..Len(sge_map)
      BY <1>5, <1>t DEF MapNext, LoopInv
    <2>2. PICK room \in [0..NumSge -> Nat] : room[0] = 0 /\ HasRoom(room)
      BY <2>1 DEF RoomInv, Going
    <2>3. \A n : Left(n)' = Left(n)
      BY <2>1 DEF Left, PageCount
    <2>4. sge_page - 1 <= room[i] /\ room[i] \in Nat
      <3>1. sge_page - 1 + Left(i) <= room[i] /\ Left(i) \in Nat
        BY <2>1, <2>2, LeftNat DEF HasRoom
      <3>2. room[i] \in Nat
        BY <1>n, <2>1, <2>2 DEF LoopInv
      <3> QED BY <1>t, <3>1, <3>2
    <2>5. HasRoom(room)'
      <3>1. ASSUME NEW n \in 1..Len(sge_map), n = i + 1
            PROVE  sge_page - 1 + Left(n) <= room[n]
        <4>1. room[n - 1] + Left(n) <= room[n] /\ n - 1 = i
          BY <1>t, <2>1, <2>2, <3>1 DEF HasRoom
        <4>2. Left(n) \in Nat /\ room[n] \in Nat
          BY <1>n, <2>2, <3>1, LeftNat DEF LoopInv
        <4> QED BY <1>t, <2>4, <4>1, <4>2
      <3> QED BY <1>t, <2>1, <2>2, <2>3, <3>1 DEF HasRoom
    <2> QED BY <1>n, <2>1, <2>2, <2>5 DEF RoomInv, input
  <1>6. CASE MapDone \/ UNCHANGED vars
    <2>1. /\ UNCHANGED <<i, sge_map, iovlen, iov, map, sge_page>>
          /\ (pc' = pc \/ (pc = "map" /\ pc' = "posted"))
      BY <1>6 DEF MapDone, vars
    <2>2. \A n : Left(n)' = Left(n)
      BY <2>1 DEF Left, PageCount
    <2>3. ASSUME NEW room, HasRoom(room) PROVE HasRoom(room)'
      BY <2>1, <2>2, <2>3 DEF HasRoom
    <2> QED BY <1>n, <2>1, <2>3 DEF RoomInv, Going, input
  <1> QED BY <1>1, <1>2, <1>3, <1>4, <1>5, <1>6 DEF Next

------------------------------------------------------------------------------
(* The pieces.                                                              *)

\* Segments already cut up stay so while their entries do.
LEMMA CutStays ==
    ASSUME UNCHANGED input, NEW n \in Nat, NEW last \in Int, NEW cut, NEW total,
           \A k \in 0..n : cut[k] \in Nat /\ cut[k] <= last,
           \A m \in 1..last : map'[iov'][m] = map[iov][m],
           IsCut(cut, total, n)
    PROVE  IsCut(cut, total, n)'
  <1>1. ASSUME NEW k \in 1..n
        PROVE  Run(wr[k], cut[k - 1] + 1, cut[k], Start(wr[k]) + wr[k].length)'
    <2>1. Run(wr[k], cut[k - 1] + 1, cut[k], Start(wr[k]) + wr[k].length)
      BY DEF IsCut
    <2>2. k - 1 \in 0..n /\ k \in 0..n
      OBVIOUS
    <2>3. PICK first \in Nat : first = cut[k - 1] + 1 /\ first >= 1
      BY <2>2
    <2>4. cut[k] \in Nat /\ cut[k] <= last
      BY <2>2
    <2>5. \A m \in first..cut[k] : map'[iov'][m] = map[iov][m]
      BY <2>3, <2>4
    <2>6. \A m \in first..cut[k] - 1 : m \in first..cut[k] /\ m + 1 \in first..cut[k]
      BY <2>3, <2>4
    <2>7. cut[k] < first \/ (first \in first..cut[k] /\ cut[k] \in first..cut[k])
      BY <2>3, <2>4
    <2>8. wr'[k] = wr[k] /\ Start(wr[k])' = Start(wr[k])
      BY DEF input, Start, BaseOffset
    <2> QED BY <2>1, <2>3, <2>5, <2>6, <2>7, <2>8 DEF Run
  <1> QED BY <1>1 DEF input, IsCut, Start, BaseOffset

\* One more segment is cut up.
LEMMA CutGrows ==
    ASSUME NEW n \in Nat, NEW cut, NEW total, NEW cut2, NEW total2,
           IsCut(cut, total, n)',
           \A k \in 0..n : cut2[k] = cut[k] /\ total2[k] = total[k],
           cut2[n] <= cut2[n + 1],
           Run(wr[n + 1], cut2[n] + 1, cut2[n + 1], Start(wr[n + 1]) + wr[n + 1].length)',
           total2[n + 1] = total2[n] + wr'[n + 1].length
    PROVE  IsCut(cut2, total2, n + 1)'
  <1>1. ASSUME NEW k \in 1..n + 1
        PROVE  /\ cut2[k - 1] <= cut2[k]
               /\ Run(wr[k], cut2[k - 1] + 1, cut2[k], Start(wr[k]) + wr[k].length)'
               /\ total2[k] = total2[k - 1] + wr'[k].length
    <2>1. CASE k = n + 1
      <3>1. k - 1 = n
        BY <2>1
      <3> QED BY <2>1, <3>1
    <2>2. CASE k # n + 1
      <3>1. k \in 1..n /\ k \in 0..n /\ k - 1 \in 0..n
        BY <2>2
      <3> QED BY <3>1 DEF IsCut
    <2> QED BY <2>1, <2>2
  <1>2. 0 \in 0..n
    OBVIOUS
  <1> QED BY <1>1, <1>2 DEF IsCut

\* Before its first piece, a segment is mapped up to where it begins.
LEMMA SegmentBegins ==
    ASSUME ~is_dma', NEW k \in Nat, i' = k, Whole(k)', NEW c \in Nat, c = LastEntry',
           BaseOffset(wr[k])' \in Nat, wr'[k].length \in Nat
    PROVE  /\ Run(wr[i], c + 1, LastEntry, Reached)'
           /\ sge_map'[k].sge_len > 0 =>
                Reached' + sge_map'[k].sge_len = Start(wr[i])' + wr'[k].length
           /\ sge_map'[k].sge_len = wr'[k].length
  <1>1. /\ sge_map'[k].at + sge_map'[k].offset = BaseOffset(wr[k])'
        /\ sge_map'[k].sge_len = wr'[k].length
    BY DEF Whole
  <1>2. Start(wr[i])' = BaseOffset(wr[k])'
    BY DEF Start, BaseOffset
  <1>3. Reached' = Start(wr[i])'
    BY <1>1, <1>2 DEF Reached, Start, BaseOffset
  <1>4. \A x \in Nat : x < x + 1
    OBVIOUS
  <1> QED BY <1>1, <1>2, <1>3, <1>4 DEF Run, Start, BaseOffset

\* One more piece, where the last one ended.
LEMMA RunGrows ==
    ASSUME UNCHANGED is_dma, NEW sge, NEW first \in Nat, NEW last \in Nat, first <= last + 1,
           NEW end \in Int, NEW e,
           Run(sge, first, last, end),
           \A m \in first..last : map'[iov'][m] = map[iov][m],
           map'[iov'][last + 1] = e, e.at = end, e.lkey = sge.lkey
    PROVE  Run(sge, first, last + 1, end + e.len)'
  <1>0. Start(sge)' = Start(sge) /\ ~(last + 1 < first)
    BY DEF Start, BaseOffset
  <1>1. CASE last < first
    <2>1. first = last + 1
      BY <1>1
    <2>2. end = Start(sge)
      BY <1>1 DEF Run
    <2>3. \A m \in first..last + 1 : m = last + 1
      BY <2>1
    <2>4. \A m \in first..(last + 1) - 1 : FALSE
      BY <2>1
    <2> QED BY <1>0, <2>1, <2>2, <2>3, <2>4 DEF Run
  <1>2. CASE first <= last
    <2>1. /\ map[iov][first].at = Start(sge)
          /\ \A m \in first..last - 1 : map[iov][m + 1].at = map[iov][m].at + map[iov][m].len
          /\ map[iov][last].at + map[iov][last].len = end
          /\ \A m \in first..last : map[iov][m].lkey = sge.lkey
      BY <1>2 DEF Run
    <2>2. first \in first..last /\ last \in first..last
      BY <1>2
    <2>3. ASSUME NEW m \in first..(last + 1) - 1
          PROVE  map'[iov'][m + 1].at = map'[iov'][m].at + map'[iov'][m].len
      <3>1. CASE m = last
        BY <2>1, <2>2, <3>1
      <3>2. CASE m # last
        <4>1. m \in first..last - 1 /\ m \in first..last /\ m + 1 \in first..last
          BY <2>3, <3>2
        <4> QED BY <2>1, <4>1
      <3> QED BY <3>1, <3>2
    <2>4. \A m \in first..last + 1 : m = last + 1 \/ m \in first..last
      OBVIOUS
    <2>5. map'[iov'][first].at = Start(sge)'
      BY <1>0, <2>1, <2>2
    <2>6. \A m \in first..last + 1 : map'[iov'][m].lkey = sge.lkey
      BY <2>1, <2>4
    <2>7. map'[iov'][last + 1].at + map'[iov'][last + 1].len = end + e.len
      OBVIOUS
    <2> QED BY <1>0, <2>3, <2>5, <2>6, <2>7 DEF Run
  <1> QED BY <1>1, <1>2

\* What the cases below compare.
LEMMA SgeFacts ==
    ASSUME InputInv, TypeOK, LoopInv
    PROVE  /\ NumSge \in Nat
           /\ i \in 1..NumSge + 1
           /\ Len(sge_map) \in 0..NumSge
           /\ iovlen \in Nat /\ sge_page \in Nat /\ byte_len \in Nat
           /\ \A n \in 1..NumSge : wr[n].length \in Nat /\ wr[n].addr \in Nat
           /\ \A n \in 1..Len(sge_map) :
                /\ n \in 1..NumSge
                /\ Regions[wr[n].lkey] # NoMr
                /\ BaseOffset(wr[n]) \in Nat
                /\ Start(wr[n]) \in Nat
                /\ sge_map[n] \in SgeMaps
  <1>1. NumSge \in Nat /\ \A n \in 1..NumSge : wr[n] \in Segments
    BY RequestFacts
  <1>2. i \in 1..NumSge + 1 /\ Len(sge_map) \in 0..NumSge
    BY <1>1, SgeAssumption DEF LoopInv, TypeOK
  <1>3. \A n \in 1..Len(sge_map) : n \in 1..NumSge /\ Regions[wr[n].lkey] # NoMr
    BY <1>1, <1>2 DEF LoopInv
  <1>4. \A n \in 1..NumSge :
          /\ wr[n].length \in Nat /\ wr[n].addr \in Nat
          /\ Regions[wr[n].lkey] # NoMr => BaseOffset(wr[n]) \in Nat /\ Start(wr[n]) \in Nat
    BY <1>1, SegmentFacts
  <1>5. iovlen \in Nat /\ sge_page \in Nat /\ byte_len \in Nat
    BY DEF TypeOK
  <1> QED BY <1>1, <1>2, <1>3, <1>4, <1>5, LeftNat

\* The end of the k-th segment, next to those before it.
LEMMA EndFacts ==
    ASSUME NEW N \in Nat, NEW k \in 1..N, NEW last \in Nat,
           NEW ends \in [0..N -> Nat], \A j \in 0..k - 1 : ends[j] <= last,
           NEW ends2, ends2 = [ends EXCEPT ![k] = last]
    PROVE  /\ ends2 \in [0..N -> Nat]
           /\ ends2[k] = last
           /\ ends2[k - 1] = ends[k - 1]
           /\ ends2[k - 1] <= ends2[k]
           /\ \A j \in 0..k - 1 : ends2[j] = ends[j]
           /\ \A j \in 0..k : ends2[j] <= last
  <1>1. k \in 0..N /\ k - 1 \in 0..k - 1 /\ \A j \in 0..k - 1 : j \in 0..N /\ j # k
    OBVIOUS
  <1>2. ends2 \in [0..N -> Nat] /\ ends2[k] = last /\ \A j \in 0..k - 1 : ends2[j] = ends[j]
    BY <1>1
  <1>3. \A j \in 0..k : j = k \/ j \in 0..k - 1
    OBVIOUS
  <1>4. \A j \in 0..k : ends2[j] <= last
    BY <1>2, <1>3
  <1> QED BY <1>1, <1>2, <1>4

\* When the k-th segment is cut up, so are the first k.
LEMMA SegmentEnds ==
    ASSUME NEW k \in Nat \ {0}, NEW cut, NEW total, NEW cut2, NEW total2,
           IsCut(cut, total, k - 1)',
           \A j \in 0..k - 1 : cut2[j] = cut[j],
           \A j \in 0..k - 1 : total2[j] = total[j],
           cut2[k - 1] <= cut2[k],
           Run(wr[k], cut2[k - 1] + 1, cut2[k], Start(wr[k]) + wr[k].length)',
           total2[k] = total2[k - 1] + wr'[k].length
    PROVE  IsCut(cut2, total2, k)'
  <1>1. PICK n \in Nat : n = k - 1
    OBVIOUS
  <1>2. n + 1 = k
    BY <1>1
  <1>3. IsCut(cut, total, n)'
    BY <1>1
  <1>4. cut2[n] <= cut2[n + 1] /\ total2[n + 1] = total2[n] + wr'[n + 1].length
    BY <1>1, <1>2
  <1>5. Run(wr[n + 1], cut2[n] + 1, cut2[n + 1], Start(wr[n + 1]) + wr[n + 1].length)'
    BY <1>1, <1>2
  <1>6. \A j \in 0..n : cut2[j] = cut[j] /\ total2[j] = total[j]
    BY <1>1
  <1>7. IsCut(cut2, total2, n + 1)'
    BY <1>3, <1>4, <1>5, <1>6, CutGrows
  <1> QED BY <1>2, <1>7

\* A segment of a DMA region is an entry of its own.
LEMMA DmaCuts ==
    ASSUME InputInv, TypeOK, LoopInv, RoomInv, CutInv, CountDma
    PROVE  \E cut \in [0..NumSge -> Nat], total \in [0..NumSge -> Nat] : CutSoFar(cut, total)'
  <1>u. UNCHANGED input
    BY DEF CountDma
  <1>k. PICK k \in 1..NumSge : k = i
    BY CountAppends
  <1>0. wr[k].length \in Nat /\ wr[k].addr \in Nat /\ byte_len \in Nat /\ NumSge \in Nat
    BY <1>k, SgeFacts
  <1>1. /\ k \in Nat /\ k >= 1 /\ k - 1 \in Nat
        /\ Len(sge_map) = k - 1 /\ Len(sge_map') = k
        /\ pc = "count" /\ pc' = "count"
        /\ is_dma /\ is_dma' /\ iov = "static" /\ iov' = "static"
        /\ byte_len' = byte_len + wr[k].length /\ byte_len' \in Nat
        /\ wr' = wr
    BY <1>0, <1>k, <1>u, CountAppends DEF CountDma, RoomInv, input
  <1>2. PICK cut \in [0..NumSge -> Nat], total \in [0..NumSge -> Nat] : CutSoFar(cut, total)
    BY <1>1 DEF CutInv, Going
  <1>3. Mapped = k - 1 /\ LastEntry = k - 1 /\ Mapped' = k /\ LastEntry' = k
    BY <1>1 DEF Mapped, LastEntry
  <1>4. /\ IsCut(cut, total, k - 1)
        /\ \A j \in 0..k - 1 : cut[j] <= k - 1 /\ total[j] <= byte_len
        /\ cut[k - 1] = k - 1 /\ total[k - 1] = byte_len
    BY <1>1, <1>2, <1>3 DEF CutSoFar
  <1>5. \A j \in 0..k - 1 : j \in 0..NumSge
    BY <1>0, <1>1
  <1>6. \A j \in 0..k - 1 : cut[j] \in Nat /\ total[j] \in Nat
    BY <1>2, <1>5
  <1>7. DOMAIN map["static"] = 1..Len(map["static"])
    BY DEF TypeOK
  <1>8. IsCut(cut, total, k - 1)'
    <2>1. \A m \in 1..k - 1 : m \in 1..Len(map["static"]) /\ m # k
      <3>1. k \in 1..Len(map["static"]) /\ Len(map["static"]) \in Nat
        BY <1>k, DmaWrites DEF TypeOK
      <3> QED BY <1>1, <3>1
    <2>2. \A m \in 1..k - 1 : map'[iov'][m] = map[iov][m]
      BY <1>k, <1>1, <2>1, DmaWrites
    <2>3. k - 1 \in Int
      BY <1>1
    <2> QED BY <1>1, <1>u, <1>4, <1>6, <2>2, <2>3, CutStays
  <1>9. Run(wr[k], k, k, Start(wr[k]) + wr[k].length)'
    <2> DEFINE e == map'[iov'][k]
    <2>1. map'["static"][k] =
            [lkey |-> wr[k].lkey, at |-> wr[k].addr, len |-> wr[k].length]
      BY <1>k, DmaWrites
    <2>2. e.lkey = wr[k].lkey /\ e.at = wr[k].addr /\ e.len = wr[k].length
      BY <1>1, <2>1
    <2>3. Start(wr[k])' = wr[k].addr
      BY <1>1 DEF Start
    <2>4. (\A m \in k..k : m = k) /\ (\A m \in k..k - 1 : FALSE) /\ ~(k < k)
      BY <1>1
    <2>5. wr'[k].lkey = wr[k].lkey /\ wr'[k].length = wr[k].length
      BY <1>1
    <2> QED BY <2>2, <2>3, <2>4, <2>5 DEF Run
  <1>10. PICK N \in Nat, b \in Nat : N = NumSge /\ b = byte_len'
    BY <1>0, <1>1
  <1>c. PICK cut2 : cut2 = [cut EXCEPT ![k] = k]
    OBVIOUS
  <1>d. PICK total2 : total2 = [total EXCEPT ![k] = b]
    OBVIOUS
  <1>11. /\ cut2 \in [0..N -> Nat] /\ total2 \in [0..N -> Nat]
         /\ IsCut(cut2, total2, k)'
         /\ cut2[k] = k /\ total2[k] = b
         /\ \A j \in 0..k : cut2[j] <= k /\ total2[j] <= b
    <2>1. ASSUME NEW j \in 0..k - 1 PROVE cut[j] <= k /\ total[j] <= b
      <3>1. cut[j] \in Nat /\ total[j] \in Nat /\ cut[j] <= k - 1 /\ total[j] <= byte_len
        BY <1>4, <1>6
      <3>2. k \in Nat /\ b = byte_len + wr[k].length
        BY <1>1, <1>10
      <3>3. cut[j] <= k
        BY <3>1, <3>2
      <3>4. ASSUME NEW x \in Nat, NEW y \in Nat, NEW z \in Nat, x <= y
            PROVE  x <= y + z
        BY <3>4
      <3>5. total[j] <= byte_len + wr[k].length
        BY <1>0, <3>1, <3>4
      <3> QED BY <3>2, <3>3, <3>5
    <2>2. cut[k - 1] + 1 = k /\ b = total[k - 1] + wr'[k].length
      BY <1>1, <1>4, <1>10
    <2>3. Run(wr[k], cut[k - 1] + 1, k, Start(wr[k]) + wr[k].length)'
      BY <1>9, <2>2
    <2>4. k \in Nat /\ k \in 1..N /\ cut \in [0..N -> Nat] /\ total \in [0..N -> Nat]
      BY <1>1, <1>10
    <2>5. /\ cut2 \in [0..N -> Nat] /\ cut2[k] = k /\ cut2[k - 1] = cut[k - 1]
          /\ cut2[k - 1] <= cut2[k]
          /\ \A j \in 0..k - 1 : cut2[j] = cut[j]
          /\ \A j \in 0..k : cut2[j] <= k
      BY <1>c, <2>1, <2>4, EndFacts
    <2>6. /\ total2 \in [0..N -> Nat] /\ total2[k] = b /\ total2[k - 1] = total[k - 1]
          /\ \A j \in 0..k - 1 : total2[j] = total[j]
          /\ \A j \in 0..k : total2[j] <= b
      BY <1>d, <2>1, <2>4, EndFacts
    <2>7. Run(wr[k], cut2[k - 1] + 1, cut2[k], Start(wr[k]) + wr[k].length)'
      BY <2>3, <2>5
    <2>8. total2[k] = total2[k - 1] + wr'[k].length /\ k \in Nat \ {0}
      BY <1>1, <2>2, <2>6
    <2>9. IsCut(cut2, total2, k)'
      BY <1>8, <2>5, <2>6, <2>7, <2>8, SegmentEnds
    <2> QED BY <2>5, <2>6, <2>9
  <1>12. CutSoFar(cut2, total2)'
    BY <1>1, <1>3, <1>10, <1>11 DEF CutSoFar
  <1> QED BY <1>10, <1>11, <1>12

\* A page map is chosen before anything of a user region is cut up, and after
\* everything of a DMA region is.
LEMMA ChoiceCuts ==
    ASSUME InputInv, TypeOK, LoopInv, LoopInv', RoomInv, CutInv, ChooseStatic \/ ChooseDynamic
    PROVE  \E cut \in [0..NumSge -> Nat], total \in [0..NumSge -> Nat] : CutSoFar(cut, total)'
  <1>u. UNCHANGED input
    BY DEF ChooseStatic, ChooseDynamic
  <1>1. /\ pc = "count" /\ pc' = "map" /\ i' = 1
        /\ UNCHANGED <<sge_map, sge_page, byte_len, iovlen>>
        /\ sge_page = 1 /\ iov = "static"
        /\ is_dma' = is_dma /\ wr' = wr
    BY <1>u DEF ChooseStatic, ChooseDynamic, RoomInv, input
  <1>2. PICK cut \in [0..NumSge -> Nat], total \in [0..NumSge -> Nat] : CutSoFar(cut, total)
    BY <1>1 DEF CutInv, Going
  <1>n. NumSge' = NumSge /\ NumSge \in Nat /\ Len(sge_map') = NumSge
    BY <1>1, SgeFacts DEF LoopInv, NumSge
  <1>3. CASE is_dma
    <2>1. iov' = "static" /\ map' = map
      <3>1. iovlen = Len(sge_map)
        BY <1>1, <1>3 DEF CutInv, Going
      <3>2. iovlen <= SgePerWqe
        BY <1>1, <1>n, <3>1, RequestFacts
      <3>3. iovlen \in Nat /\ SgePerWqe \in Nat
        BY SgeFacts, SgeAssumption
      <3> QED BY <3>2, <3>3 DEF ChooseStatic, ChooseDynamic
    <2>2. UNCHANGED <<map, iov, is_dma, wr, sge_map, byte_len>>
      BY <1>1, <2>1
    <2>3. Mapped' = Mapped /\ LastEntry' = LastEntry
      BY <1>3, <2>2 DEF Mapped, LastEntry
    <2>4. IsCut(cut, total, Mapped)'
      <3>1. \A sge, first, last, end : Run(sge, first, last, end)' = Run(sge, first, last, end)
        BY <2>2 DEF Run, Start, BaseOffset
      <3>2. \A sge : Start(sge)' = Start(sge)
        BY <2>2 DEF Start, BaseOffset
      <3> QED BY <1>2, <2>2, <2>3, <3>1, <3>2 DEF CutSoFar, IsCut
    <2>5. CutSoFar(cut, total)'
      BY <1>2, <1>3, <2>2, <2>3, <2>4 DEF CutSoFar
    <2> QED BY <2>5
  <1>4. CASE ~is_dma
    <2>1. Mapped = 0 /\ LastEntry = 0 /\ Mapped' = 0 /\ LastEntry' = 0
      BY <1>1, <1>4 DEF Mapped, LastEntry
    <2>2. cut[0] = 0 /\ total[0] = 0 /\ byte_len = 0
      BY <1>1, <1>2, <2>1 DEF CutSoFar, IsCut
    <2>3. IsCut(cut, total, 0)'
      BY <2>2 DEF IsCut
    <2>4. \A j \in 0..0 : cut[j] <= 0 /\ total[j] <= byte_len'
      BY <1>1, <2>2
    <2>5. CASE 1 <= NumSge
      <3>1. Whole(1)' /\ 1 \in 1..Len(sge_map)
        <4>1. 1 \in 1..Len(sge_map)
          BY <1>1, <1>n, <2>5
        <4>2. Whole(1)
          BY <1>1, <4>1 DEF LoopInv
        <4> QED BY <1>1, <4>1, <4>2 DEF Whole, BaseOffset
      <3>2. BaseOffset(wr[1])' \in Nat /\ wr'[1].length \in Nat
        <4>1. BaseOffset(wr[1]) \in Nat /\ wr[1].length \in Nat
          BY <3>1, SgeFacts
        <4> QED BY <1>1, <4>1 DEF BaseOffset
      <3>3. /\ Run(wr[i], 0 + 1, LastEntry, Reached)'
            /\ sge_map'[1].sge_len > 0 =>
                 Reached' + sge_map'[1].sge_len = Start(wr[i])' + wr'[1].length
            /\ sge_map'[1].sge_len = wr'[1].length
        BY <1>1, <1>4, <2>1, <3>1, <3>2, SegmentBegins
      <3> QED BY <1>1, <1>2, <2>1, <2>2, <2>3, <2>4, <3>3 DEF CutSoFar
    <2>6. CASE ~(1 <= NumSge)
      BY <1>1, <1>2, <1>n, <2>1, <2>2, <2>3, <2>4, <2>6 DEF CutSoFar
    <2> QED BY <2>5, <2>6
  <1> QED BY <1>3, <1>4

\* A piece of a segment goes on where the last one ended.
LEMMA ChunkCuts ==
    ASSUME InputInv, TypeOK, LoopInv, RoomInv, CutInv, MapChunk
    PROVE  \E cut \in [0..NumSge -> Nat], total \in [0..NumSge -> Nat] : CutSoFar(cut, total)'
  <1>u. UNCHANGED input
    BY DEF MapChunk, MapPage
  <1>k. PICK k \in 1..NumSge : k = i
    BY SgeFacts DEF MapChunk, MapPage
  <1>p. PICK p \in Nat : p = sge_page - 1
    BY SgeFacts DEF RoomInv
  <1>0. /\ byte_len \in Nat /\ NumSge \in Nat /\ sge_page \in Nat
        /\ sge_map[k] \in SgeMaps /\ Start(wr[k]) \in Nat /\ wr[k].length \in Nat
    BY <1>k, SgeFacts, ChunkFacts
  <1>1. /\ k \in Nat \ {0} /\ k - 1 \in Nat /\ k <= NumSge
        /\ pc = "map" /\ pc' = "map" /\ i' = k
        /\ ~is_dma /\ ~is_dma'
        /\ sge_map[k].sge_len > 0
        /\ sge_page = p + 1 /\ sge_page' = p + 2
        /\ byte_len' = byte_len + SgeChunk
        /\ wr' = wr /\ is_dma' = is_dma
        /\ NumSge' = NumSge
    BY <1>0, <1>k, <1>p, <1>u, ChunkFacts DEF MapChunk, MapPage, input, NumSge
  <1>2. PICK cut \in [0..NumSge -> Nat], total \in [0..NumSge -> Nat] : CutSoFar(cut, total)
    BY <1>1 DEF CutInv, Going
  <1>3. Mapped = k - 1 /\ LastEntry = p /\ Mapped' = k - 1 /\ LastEntry' = p + 1
    BY <1>1, <1>k, <1>p DEF Mapped, LastEntry
  <1>4. /\ IsCut(cut, total, k - 1)
        /\ \A j \in 0..k - 1 : cut[j] <= p /\ total[j] <= byte_len
        /\ Run(wr[k], cut[k - 1] + 1, p, Reached)
        /\ Reached + sge_map[k].sge_len = Start(wr[k]) + wr[k].length
        /\ total[k - 1] + wr[k].length = byte_len + sge_map[k].sge_len
    BY <1>1, <1>2, <1>3, <1>k DEF CutSoFar
  <1>5. \A j \in 0..k - 1 : j \in 0..NumSge
    BY <1>0, <1>1
  <1>6. \A j \in 0..k - 1 : cut[j] \in Nat /\ total[j] \in Nat
    BY <1>2, <1>5
  <1>7. k - 1 \in 0..k - 1
    BY <1>1
  \* The piece.
  <1>8. /\ SgeChunk \in Nat
        /\ sge_map'[k].sge_len = sge_map[k].sge_len - SgeChunk
        /\ sge_map'[k].at = sge_map[k].at + PageSize
        /\ sge_map'[k].offset = 0
        /\ SgeChunk <= sge_map[k].sge_len
        /\ SgeChunk < sge_map[k].sge_len => SgeChunk = PageSize - sge_map[k].offset
    BY <1>k, ChunkFacts
  <1>9. PICK r \in Nat : r = Reached /\ r = sge_map[k].at + sge_map[k].offset
    <2>1. sge_map[k].at + sge_map[k].offset \in Nat
      BY <1>k, ChunkTypes
    <2>2. Reached = sge_map[k].at + sge_map[k].offset
      BY <1>1, <1>k DEF Reached
    <2> QED BY <2>1, <2>2
  <1>10. Reached' = r + SgeChunk
    <2>1. Start(wr[k])' = Start(wr[k])
      BY <1>1 DEF Start, BaseOffset
    <2>2. Reached' = IF sge_map'[k].sge_len > 0 THEN sge_map'[k].at + sge_map'[k].offset
                     ELSE Start(wr[k]) + wr[k].length
      BY <1>1, <2>1 DEF Reached, Start, BaseOffset
    <2>3. CASE SgeChunk < sge_map[k].sge_len
      <3>0. /\ sge_map[k].sge_len \in Nat
            /\ sge_map[k].at \in Nat
            /\ sge_map[k].offset \in 0..PageSize - 1
            /\ PageSize \in Nat
        BY <1>0, SgeAssumption DEF SgeMaps
      <3>1. sge_map'[k].sge_len > 0 /\ SgeChunk = PageSize - sge_map[k].offset
        BY <1>8, <2>3, <3>0
      <3>2. Reached' = sge_map[k].at + PageSize
        BY <1>8, <2>2, <3>0, <3>1
      <3>3. PICK at \in Nat, offset \in Int, P \in Nat :
              at = sge_map[k].at /\ offset = sge_map[k].offset /\ P = PageSize
        BY <3>0
      <3>4. r = at + offset /\ SgeChunk = P - offset /\ Reached' = at + P
        BY <1>9, <3>1, <3>2, <3>3
      <3> QED BY <3>4
    <2>4. CASE ~(SgeChunk < sge_map[k].sge_len)
      <3>1. SgeChunk = sge_map[k].sge_len /\ ~(sge_map'[k].sge_len > 0)
        BY <1>0, <1>8, <2>4 DEF SgeMaps
      <3> QED BY <1>4, <1>9, <2>2, <3>1
    <2> QED BY <2>3, <2>4
  \* The page maps.
  <1>11. \A m \in 1..p : m \in 1..Len(map[iov]) /\ m # sge_page
    <2>1. sge_page \in 1..Len(map[iov]) /\ Len(map[iov]) \in Nat
      BY ChunkWrites DEF TypeOK
    <2> QED BY <1>1, <2>1
  <1>12. \A m \in 1..p : map'[iov'][m] = map[iov][m]
    BY <1>11, ChunkWrites
  <1>13. PICK e : e = map'[iov'][p + 1]
    OBVIOUS
  <1>14. e.at = r /\ e.len = SgeChunk /\ e.lkey = wr[k].lkey
    <2>1. e = [lkey |-> sge_map[k].lkey, at |-> sge_map[k].at + sge_map[k].offset,
               len |-> SgeChunk]
      BY <1>1, <1>13, <1>k, ChunkWrites
    <2>2. sge_map[k].lkey = wr[k].lkey
      BY <1>k, ChunkFacts DEF LoopInv
    <2> QED BY <1>9, <2>1, <2>2
  <1>15. Run(wr[k], cut[k - 1] + 1, p + 1, Reached)'
    <2>1. PICK w : w = wr[k]
      OBVIOUS
    <2>2. PICK first \in Nat : first = cut[k - 1] + 1 /\ first >= 1 /\ first <= p + 1
      BY <1>4, <1>6, <1>7
    <2>3. \A m \in first..p : map'[iov'][m] = map[iov][m]
      BY <1>12, <2>2
    <2>4. Run(w, first, p, r)
      BY <1>4, <1>9, <2>1, <2>2
    <2>5. Run(w, first, p + 1, r + e.len)'
      <3>1. UNCHANGED is_dma /\ p \in Nat /\ r \in Int /\ first \in Nat /\ first <= p + 1
        BY <1>1, <2>2
      <3>2. map'[iov'][p + 1] = e /\ e.at = r /\ e.lkey = w.lkey
        BY <1>13, <1>14, <2>1
      <3> QED BY <2>3, <2>4, <3>1, <3>2, RunGrows
    <2>6. w = wr[k]' /\ r + e.len = Reached'
      BY <1>1, <1>10, <1>14, <2>1
    <2> QED BY <2>2, <2>5, <2>6
  \* What there is after it.
  <1>16. IsCut(cut, total, k - 1)'
    <2>1. p \in Int
      OBVIOUS
    <2> QED BY <1>1, <1>4, <1>6, <1>12, <1>u, <2>1, CutStays
  <1>17. \A j \in 0..k - 1 : cut[j] <= p + 1 /\ total[j] <= byte_len'
    <2>1. ASSUME NEW j \in 0..k - 1 PROVE cut[j] <= p + 1 /\ total[j] <= byte_len'
      <3>1. cut[j] \in Nat /\ total[j] \in Nat /\ cut[j] <= p /\ total[j] <= byte_len
        BY <1>4, <1>6
      <3>2. byte_len' = byte_len + SgeChunk /\ SgeChunk \in Nat /\ byte_len \in Nat
        BY <1>0, <1>1, <1>8
      <3>3. cut[j] <= p + 1
        BY <3>1
      <3> QED BY <3>1, <3>2, <3>3
    <2> QED BY <2>1
  <1>18. Reached' + sge_map'[k].sge_len = Start(wr[k])' + wr'[k].length
    <2>1. Start(wr[k])' = Start(wr[k])
      BY <1>1 DEF Start, BaseOffset
    <2>2. Reached' = r + SgeChunk /\ wr'[k] = wr[k]
      BY <1>1, <1>10
    <2>3. sge_map[k].sge_len \in Nat /\ r + sge_map[k].sge_len = Start(wr[k]) + wr[k].length
      BY <1>0, <1>4, <1>9 DEF SgeMaps
    <2>4. Reached' + sge_map'[k].sge_len = r + sge_map[k].sge_len
      BY <1>8, <2>2, <2>3
    <2> QED BY <2>1, <2>2, <2>3, <2>4
  <1>19. total[k - 1] + wr'[k].length = byte_len' + sge_map'[k].sge_len
    <2>1. total[k - 1] \in Nat
      BY <1>6, <1>7
    <2> QED BY <1>0, <1>1, <1>4, <1>8, <2>1 DEF SgeMaps
  <1>20. CutSoFar(cut, total)'
    BY <1>1, <1>3, <1>15, <1>16, <1>17, <1>18, <1>19 DEF CutSoFar
  <1> QED BY <1>20

\* A segment that is mapped is cut up, and the next one begins.
LEMMA NextCuts ==
    ASSUME InputInv, TypeOK, LoopInv, RoomInv, CutInv, MapNext
    PROVE  \E cut \in [0..NumSge -> Nat], total \in [0..NumSge -> Nat] : CutSoFar(cut, total)'
  <1>1. /\ UNCHANGED <<input, pc, sge_map, iovlen, byte_len, iov, map, sge_page>>
        /\ wr' = wr /\ is_dma' = is_dma
        /\ pc = "map" /\ i' = i + 1
        /\ i \in 1..NumSge /\ Len(sge_map) = NumSge
        /\ NumSge \in Nat /\ NumSge' = NumSge
        /\ byte_len \in Nat
    BY SgeFacts DEF MapNext, LoopInv, input, NumSge
  <1>2. PICK cut \in [0..NumSge -> Nat], total \in [0..NumSge -> Nat] : CutSoFar(cut, total)
    BY <1>1 DEF CutInv, Going
  <1>3. \A sge, first, last, end : Run(sge, first, last, end)' = Run(sge, first, last, end)
    BY <1>1 DEF Run, Start, BaseOffset
  <1>4. \A sge : Start(sge)' = Start(sge)
    BY <1>1 DEF Start, BaseOffset
  <1>5. CASE is_dma
    <2>1. Mapped' = Mapped /\ LastEntry' = LastEntry
      BY <1>1, <1>5 DEF Mapped, LastEntry
    <2>2. IsCut(cut, total, Mapped)'
      BY <1>1, <1>2, <1>3, <1>4, <2>1 DEF CutSoFar, IsCut
    <2>3. CutSoFar(cut, total)'
      BY <1>1, <1>2, <1>5, <2>1, <2>2 DEF CutSoFar
    <2> QED BY <2>3
  <1>6. CASE ~is_dma
    <2>k. PICK k \in 1..NumSge : k = i
      BY <1>1
    <2>N. PICK N \in Nat : N = NumSge
      BY <1>1
    <2>p. PICK p \in Nat : p = sge_page - 1
      BY SgeFacts DEF RoomInv
    <2>b. PICK b \in Nat : b = byte_len
      BY <1>1
    <2>1. k \in Nat \ {0} /\ k \in 1..N /\ k \in 1..Len(sge_map) /\ i' = k + 1
      BY <1>1, <2>k, <2>N
    <2>2. Mapped = k - 1 /\ LastEntry = p /\ Mapped' = k /\ LastEntry' = p
      BY <1>1, <1>6, <2>1, <2>k, <2>p DEF Mapped, LastEntry
    <2>3. /\ sge_map[k] \in SgeMaps
          /\ Start(wr[k]) \in Nat
          /\ wr[k].length \in Nat
      BY <2>1, SgeFacts
    <2>4. sge_map[k].sge_len = 0 /\ Reached = Start(wr[k]) + wr[k].length
      BY <2>3, <2>k DEF MapNext, SgeMaps, Reached
    <2>5. /\ IsCut(cut, total, k - 1)
          /\ \A j \in 0..k - 1 : cut[j] <= p /\ total[j] <= b
          /\ Run(wr[k], cut[k - 1] + 1, p, Start(wr[k]) + wr[k].length)
          /\ total[k - 1] + wr[k].length = byte_len + sge_map[k].sge_len
      BY <1>1, <1>2, <1>6, <2>2, <2>4, <2>b, <2>k DEF CutSoFar
    <2>6. cut \in [0..N -> Nat] /\ total \in [0..N -> Nat]
      BY <1>2, <2>N
    <2>7. k - 1 \in 0..k - 1 /\ k - 1 \in 0..N
      BY <2>1
    <2>8. b = total[k - 1] + wr[k].length
      BY <2>3, <2>4, <2>5, <2>6, <2>7, <2>b
    <2>9. IsCut(cut, total, k - 1)'
      BY <1>1, <1>3, <1>4, <2>5 DEF IsCut
    <2>c. PICK cut2 : cut2 = [cut EXCEPT ![k] = p]
      OBVIOUS
    <2>t. PICK total2 : total2 = [total EXCEPT ![k] = b]
      OBVIOUS
    <2>10. /\ cut2 \in [0..N -> Nat] /\ cut2[k] = p /\ cut2[k - 1] = cut[k - 1]
           /\ cut2[k - 1] <= cut2[k]
           /\ \A j \in 0..k - 1 : cut2[j] = cut[j]
           /\ \A j \in 0..k : cut2[j] <= p
      <3>1. \A j \in 0..k - 1 : cut[j] <= p
        BY <2>5
      <3> QED BY <2>1, <2>6, <2>c, <3>1, EndFacts
    <2>11. /\ total2 \in [0..N -> Nat] /\ total2[k] = b /\ total2[k - 1] = total[k - 1]
           /\ \A j \in 0..k - 1 : total2[j] = total[j]
           /\ \A j \in 0..k : total2[j] <= b
      <3>1. \A j \in 0..k - 1 : total[j] <= b
        BY <2>5
      <3> QED BY <2>1, <2>6, <2>t, <3>1, EndFacts
    <2>12. Run(wr[k], cut2[k - 1] + 1, cut2[k], Start(wr[k]) + wr[k].length)'
      <3>1. Run(wr[k], cut[k - 1] + 1, p, Start(wr[k]) + wr[k].length)'
        BY <1>1, <1>3, <1>4, <2>5
      <3> QED BY <2>10, <3>1
    <2>13. total2[k] = total2[k - 1] + wr'[k].length
      BY <1>1, <2>8, <2>11
    <2>14. IsCut(cut2, total2, k)'
      BY <2>1, <2>9, <2>10, <2>11, <2>12, <2>13, SegmentEnds
    <2>15. CASE k + 1 <= NumSge
      <3> DEFINE n == k + 1
      <3>1. n \in Nat /\ n \in 1..Len(sge_map) /\ n > i
        BY <1>1, <2>1, <2>15, <2>k
      <3> HIDE DEF n
      <3>2. Whole(n)' /\ BaseOffset(wr[n])' \in Nat /\ wr'[n].length \in Nat
        <4>1. Whole(n) /\ BaseOffset(wr[n]) \in Nat /\ wr[n].length \in Nat
          BY <1>1, <3>1, SgeFacts DEF LoopInv
        <4> QED BY <1>1, <4>1 DEF Whole, BaseOffset
      <3>3. i' = n
        BY <2>1 DEF n
      <3>4. /\ Run(wr[i], p + 1, LastEntry, Reached)'
            /\ sge_map'[n].sge_len > 0 =>
                 Reached' + sge_map'[n].sge_len = Start(wr[i])' + wr'[n].length
            /\ sge_map'[n].sge_len = wr'[n].length
        BY <1>1, <1>6, <2>2, <3>1, <3>2, <3>3, SegmentBegins
      <3>5. CutSoFar(cut2, total2)'
        BY <1>1, <2>2, <2>10, <2>11, <2>14, <2>b, <3>3, <3>4 DEF CutSoFar
      <3> QED BY <2>10, <2>11, <2>N, <3>5
    <2>16. CASE ~(k + 1 <= NumSge)
      <3>1. ~(i' <= NumSge')
        BY <1>1, <2>1, <2>16
      <3>2. CutSoFar(cut2, total2)'
        BY <1>1, <2>2, <2>10, <2>11, <2>14, <2>b, <3>1 DEF CutSoFar
      <3> QED BY <2>10, <2>11, <2>N, <3>2
    <2> QED BY <2>15, <2>16
  <1> QED BY <1>5, <1>6

\* No step breaks what is cut up.
LEMMA CutStep ==
    ASSUME InputInv, TypeOK, LoopInv, LoopInv', RoomInv, CutInv, [Next]_vars
    PROVE  CutInv'
  <1>u. UNCHANGED input /\ is_dma' = is_dma /\ wr' = wr /\ NumSge' = NumSge
    BY InputStep DEF input, NumSge
  <1> SUFFICES /\ is_dma /\ pc' \in Going => iovlen' = Len(sge_map')
               /\ pc' \in Going =>
                    \E cut \in [0..NumSge -> Nat], total \in [0..NumSge -> Nat] :
                      CutSoFar(cut, total)'
    BY <1>u DEF CutInv, Going
  <1>1. CASE NoRegion \/ TooLong \/ NoMemory
    BY <1>1 DEF NoRegion, TooLong, NoMemory, Going
  <1>2. CASE CountDma
    <2>1. /\ Len(sge_map) = i - 1 /\ Len(sge_map') = i /\ pc = "count" /\ is_dma
          /\ iovlen' = iovlen + 1
      BY <1>2, CountAppends DEF CountDma
    <2>2. iovlen' = Len(sge_map')
      BY <2>1, SgeFacts DEF CutInv, Going
    <2> QED BY <1>2, <2>2, DmaCuts
  <1>3. CASE CountUser
    <2>1. /\ ~is_dma /\ pc = "count" /\ pc' = "count"
          /\ UNCHANGED <<byte_len, iov, map, sge_page>> /\ sge_page = 1
      BY <1>3 DEF CountUser, RoomInv
    <2>2. PICK cut \in [0..NumSge -> Nat], total \in [0..NumSge -> Nat] : CutSoFar(cut, total)
      BY <2>1 DEF CutInv, Going
    <2>3. Mapped = 0 /\ LastEntry = 0 /\ Mapped' = 0 /\ LastEntry' = 0
      BY <1>u, <2>1 DEF Mapped, LastEntry
    <2>4. cut[0] = 0 /\ total[0] = 0 /\ byte_len = 0
      BY <2>1, <2>2, <2>3 DEF CutSoFar, IsCut
    <2>5. IsCut(cut, total, 0)'
      BY <2>4 DEF IsCut
    <2>6. CutSoFar(cut, total)'
      BY <1>u, <2>1, <2>3, <2>4, <2>5 DEF CutSoFar
    <2> QED BY <2>1, <2>6
  <1>4. CASE ChooseStatic \/ ChooseDynamic
    <2>1. /\ pc = "count" /\ UNCHANGED <<iovlen, sge_map>>
      BY <1>4 DEF ChooseStatic, ChooseDynamic
    <2> QED BY <1>4, <2>1, ChoiceCuts DEF CutInv, Going
  <1>5. CASE MapChunk
    <2>1. ~is_dma
      BY <1>5, ChunkFacts
    <2> QED BY <1>5, <2>1, ChunkCuts
  <1>6. CASE MapNext
    <2>1. pc = "map" /\ UNCHANGED <<iovlen, sge_map>>
      BY <1>6 DEF MapNext
    <2> QED BY <1>6, <2>1, NextCuts DEF CutInv, Going
  <1>7. CASE MapDone \/ UNCHANGED vars
    <2>1. /\ UNCHANGED <<i, sge_map, iovlen, byte_len, iov, map, sge_page>>
          /\ (pc' = pc \/ (pc = "map" /\ pc' = "posted" /\ ~(i <= NumSge)))
      <3>1. CASE MapDone
        BY <3>1, SgeFacts DEF MapDone
      <3>2. CASE UNCHANGED vars
        BY <3>2 DEF vars
      <3> QED BY <1>7, <3>1, <3>2
    <2>2. \A sge, first, last, end : Run(sge, first, last, end)' = Run(sge, first, last, end)
      BY <1>u, <2>1 DEF Run, Start, BaseOffset
    <2>3. \A sge : Start(sge)' = Start(sge)
      BY <1>u, <2>1 DEF Start, BaseOffset
    <2>4. ASSUME NEW cut, NEW total, CutSoFar(cut, total)
          PROVE  CutSoFar(cut, total)'
      <3>1. Mapped' = Mapped /\ LastEntry' = LastEntry
        BY <1>u, <2>1 DEF Mapped, LastEntry
      <3>2. IsCut(cut, total, Mapped)'
        BY <1>u, <2>2, <2>3, <2>4, <3>1 DEF CutSoFar, IsCut
      <3>3. (i <= NumSge /\ pc = "map" /\ ~is_dma)' =>
              /\ i <= NumSge /\ pc = "map" /\ ~is_dma
              /\ Reached' = Reached
              /\ Start(wr[i])' = Start(wr[i])
              /\ Run(wr[i], cut[Mapped] + 1, LastEntry, Reached)' =
                   Run(wr[i], cut[Mapped] + 1, LastEntry, Reached)
        BY <1>u, <2>1, <2>2, <2>3, <3>1 DEF Reached, Start, BaseOffset
      <3>4. ~(i <= NumSge /\ pc = "map" /\ ~is_dma)' =>
              ~(i <= NumSge /\ pc = "map" /\ ~is_dma)
        BY <1>u, <2>1
      <3> QED BY <1>u, <2>1, <2>4, <3>1, <3>2, <3>3, <3>4 DEF CutSoFar
    <2> QED BY <2>1, <2>4 DEF CutInv, Going
  <1> QED BY <1>1, <1>2, <1>3, <1>4, <1>5, <1>6, <1>7 DEF Next

------------------------------------------------------------------------------
(* The invariant holds.                                                     *)

\* A call begins with nothing counted and nothing mapped.
LEMMA SgeInit == Init => SgeInv
  <1> SUFFICES ASSUME Init PROVE SgeInv
    OBVIOUS
  <1>s. PICK s : s = [n \in 1..SgePerWqe |-> Stale]
    OBVIOUS
  <1>m. map = [static |-> s, dynamic |-> <<>>]
    BY <1>s DEF Init
  <1>p. PageSize \in Nat \ {0} /\ SgePerWqe \in Nat \ {0} /\ MaxSges \in Nat
    BY SgeAssumption
  <1>l. Len(s) = SgePerWqe /\ \A n \in 1..SgePerWqe : s[n] = Stale
    BY <1>p, <1>s
  <1>1. InputInv
    <2>1. PICK m \in 0..MaxSges : wr \in [1..m -> Segments]
      BY DEF BoundedSeq, SeqOf, Init
    <2>2. m \in Nat
      BY SgeAssumption
    <2> QED BY <2>1, <2>2, SgeAssumption DEF InputInv, Init
  <1>2. NumSge \in Nat
    BY <1>1, RequestFacts
  <1>3. TypeOK
    <2>1. Stale \in Iovecs
      BY <1>p DEF Stale, Iovecs
    <2>2. s \in Seq(Iovecs)
      BY <1>p, <1>s, <2>1
    <2>3. <<>> \in Seq(Iovecs) /\ <<>> \in Seq(SgeMaps)
      OBVIOUS
    <2>4. map \in [{"static", "dynamic"} -> Seq(Iovecs)]
      <3>1. ASSUME NEW T, NEW x \in T, NEW y \in T
            PROVE  [static |-> x, dynamic |-> y] \in [{"static", "dynamic"} -> T]
        OBVIOUS
      <3> QED BY <1>m, <2>2, <2>3, <3>1
    <2> QED BY <1>p, <2>3, <2>4 DEF TypeOK, Init
  <1>4. /\ sge_map = <<>> /\ Len(sge_map) = 0 /\ pc = "count" /\ i = 1
        /\ iovlen = 0 /\ byte_len = 0 /\ iov = "static" /\ sge_page = 1
    BY DEF Init
  <1>5. LoopInv
    BY <1>2, <1>4 DEF LoopInv
  <1>6. RoomInv
    <2>1. PICK room \in [0..NumSge -> Nat] : room = [n \in 0..NumSge |-> 0]
      BY <1>2
    <2>2. room[0] = 0
      BY <1>2, <2>1
    <2>3. HasRoom(room)
      BY <1>4 DEF HasRoom
    <2>4. Len(map["static"]) = SgePerWqe
      BY <1>l, <1>m
    <2>5. \E r \in [0..NumSge -> Nat] : r[0] = 0 /\ HasRoom(r)
      BY <2>2, <2>3
    <2>6. pc \notin {"map", "posted"} /\ sge_page - 1 <= iovlen /\ sge_page >= 1
      BY <1>4
    <2> QED BY <1>4, <2>4, <2>5, <2>6 DEF RoomInv
  <1>7. PageInv
    <2>1. InPage(Stale)
      BY SgeAssumption DEF InPage, Stale
    <2>2. Len(map["static"]) = SgePerWqe /\ map["dynamic"] = <<>> /\ map["static"] = s
      BY <1>l, <1>m
    <2>3. \A n \in 1..Len(map["static"]) : InPage(map["static"][n])
      BY <1>l, <2>1, <2>2
    <2>4. \A n \in 1..Len(map["dynamic"]) : FALSE
      BY <2>2
    <2> QED BY <2>3, <2>4 DEF PageInv
  <1>8. CutInv
    <2>1. PICK zero \in [0..NumSge -> Nat] : zero = [n \in 0..NumSge |-> 0]
      BY <1>2
    <2>2. zero[0] = 0
      BY <1>2, <2>1
    <2>3. Mapped = 0 /\ LastEntry = 0
      BY <1>4 DEF Mapped, LastEntry
    <2>4. IsCut(zero, zero, 0)
      BY <2>2 DEF IsCut
    <2>5. CutSoFar(zero, zero)
      BY <1>4, <2>2, <2>3, <2>4 DEF CutSoFar
    <2> QED BY <1>4, <2>5 DEF CutInv
  <1> QED BY <1>1, <1>3, <1>5, <1>6, <1>7, <1>8 DEF SgeInv

\* No step of a call breaks it.
LEMMA SgeStep == SgeInv /\ [Next]_vars => SgeInv'
  <1> SUFFICES ASSUME SgeInv, [Next]_vars PROVE SgeInv'
    OBVIOUS
  <1> USE DEF SgeInv
  <1>1. InputInv'
    BY InputStep DEF InputInv, input
  <1>2. TypeOK'
    BY TypeStep
  <1>3. LoopInv'
    BY LoopStep
  <1>4. RoomInv'
    BY <1>2, <1>3, RoomStep
  <1>5. PageInv'
    BY PageStep
  <1>6. CutInv'
    BY <1>3, CutStep
  <1> QED BY <1>1, <1>2, <1>3, <1>4, <1>5, <1>6

LEMMA SgeAlways == Spec => []SgeInv
  BY SgeInit, SgeStep, PTL DEF Spec

------------------------------------------------------------------------------
(* What it shows.                                                           *)

\* A request in the making is made of segments, offsets within a page, and
\* iovecs whose lengths never go below zero.
THEOREM SgeTypes == Spec => []TypeOK
  <1>1. SgeInv => TypeOK
    BY DEF SgeInv
  <1> QED BY <1>1, SgeAlways, PTL

\* The second loop of dis_qp_post_one_sqe and dis_qp_post_one_rqe never writes
\* after the end of the page map that was chosen by the pages the first loop
\* counted.
THEOREM PagesFit == Spec => []WithinMap
  <1>1. SgeInv => WithinMap
    <2> SUFFICES ASSUME SgeInv, pc = "map", i <= NumSge, sge_map[i].sge_len > 0
                 PROVE  sge_page \in DOMAIN map[iov]
      BY DEF WithinMap
    <2>1. sge_page \in 1..Len(map[iov])
      BY NextEntry DEF SgeInv
    <2>2. map[iov] \in Seq(Iovecs)
      BY DEF SgeInv, TypeOK
    <2> QED BY <2>1, <2>2
  <1> QED BY <1>1, SgeAlways, PTL

\* No iovec of a posted request that names user regions reaches over the end of
\* the page it is in.
THEOREM PiecesStayInPages == Spec => []WithinPages
  <1>1. SgeInv => WithinPages
    <2> SUFFICES ASSUME SgeInv, pc = "posted", ~is_dma, NEW n \in 1..iovlen
                 PROVE  (map[iov][n].at % PageSize) + map[iov][n].len <= PageSize
      BY DEF WithinPages
    <2>1. iovlen <= Len(map[iov]) /\ iovlen \in Nat /\ Len(map[iov]) \in Nat
      BY DEF SgeInv, RoomInv, TypeOK
    <2>2. InPage(map[iov][n])
      BY <2>1 DEF SgeInv, PageInv, TypeOK
    <2> QED BY <2>2 DEF InPage
  <1> QED BY <1>1, SgeAlways, PTL

\* The iovecs of a posted request are its segments cut up, one after the other,
\* and byte_len is the sum of their lengths.
THEOREM PiecesMakeUpRequest == Spec => []CutsSegments
  <1>1. SgeInv => CutsSegments
    <2> SUFFICES ASSUME SgeInv, pc = "posted" PROVE CutsSegments
      BY DEF CutsSegments
    <2> USE DEF SgeInv
    <2>1. PICK cut \in [0..NumSge -> Nat], total \in [0..NumSge -> Nat] : CutSoFar(cut, total)
      BY DEF CutInv, Going
    <2>2. i = NumSge + 1 /\ Len(sge_map) = NumSge /\ NumSge \in Nat
      BY SgeFacts DEF LoopInv
    <2>3. Mapped = NumSge
      BY <2>2 DEF Mapped
    <2>4. LastEntry <= iovlen /\ LastEntry \in Int
      BY <2>2, SgeFacts DEF RoomInv, CutInv, Going, LastEntry
    <2>5. /\ IsCut(cut, total, NumSge)
          /\ total[NumSge] = byte_len
          /\ \A k \in 0..NumSge : cut[k] <= LastEntry /\ total[k] <= byte_len
      BY <2>1, <2>2, <2>3 DEF CutSoFar
    <2>6. cut \in [0..NumSge -> 0..iovlen] /\ total \in [0..NumSge -> 0..byte_len]
      <3>1. ASSUME NEW k \in 0..NumSge PROVE cut[k] \in 0..iovlen /\ total[k] \in 0..byte_len
        BY <2>1, <2>4, <2>5, SgeFacts
      <3> QED BY <2>1, <3>1
    <2> QED BY <2>5, <2>6 DEF CutsSegments
  <1> QED BY <1>1, SgeAlways, PTL
==============================================================================
