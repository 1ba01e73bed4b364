--------------------------- MODULE CircBufLemmas -----------------------------
(***************************************************************************)
(* Facts about the ring arithmetic of CircBuf, for every ring size and     *)
(* every pair of indices.  The proofs about the rings cite them by name.   *)
(***************************************************************************)
EXTENDS CircBuf, TLAPS

\* Masking an index that is off by less than one turn of the ring.
LEMMA ModCases ==
    ASSUME NEW N \in Nat \ {0}, NEW a \in Int, -N <= a, a < N + N
    PROVE  a % N = IF a < 0 THEN a + N ELSE IF a < N THEN a ELSE a - N
  OBVIOUS

\* Advancing an index stays in the ring and wraps at its end.
LEMMA CircNextCases ==
    ASSUME NEW N \in Nat \ {0}, NEW i \in 0..N-1
    PROVE  /\ CircNext(i, N) = IF i = N - 1 THEN 0 ELSE i + 1
           /\ CircNext(i, N) \in 0..N-1
  <1>1. /\ i + 1 \in Int
        /\ -N <= i + 1
        /\ i + 1 < N + N
    OBVIOUS
  <1>2. (i + 1) % N = IF i + 1 < 0 THEN (i + 1) + N ELSE IF i + 1 < N THEN i + 1 ELSE (i + 1) - N
    BY <1>1, ModCases
  <1> QED BY <1>2 DEF CircNext

\* CIRC_CNT is the distance from tail to head around the ring.
LEMMA CircCntCases ==
    ASSUME NEW N \in Nat \ {0}, NEW h \in 0..N-1, NEW t \in 0..N-1
    PROVE  /\ CircCnt(h, t, N) = IF h < t THEN h - t + N ELSE h - t
           /\ CircCnt(h, t, N) \in 0..N-1
  <1>1. /\ h - t \in Int
        /\ -N <= h - t
        /\ h - t < N + N
    OBVIOUS
  <1>2. (h - t) % N = IF h - t < 0 THEN (h - t) + N ELSE IF h - t < N THEN h - t ELSE (h - t) - N
    BY <1>1, ModCases
  <1> QED BY <1>2 DEF CircCnt

\* The free entries and the used ones add up to one less than the ring.
LEMMA CircSpaceCases ==
    ASSUME NEW N \in Nat \ {0}, NEW h \in 0..N-1, NEW t \in 0..N-1
    PROVE  CircSpace(h, t, N) = N - 1 - CircCnt(h, t, N)
  <1> DEFINE d == t - (h + 1)
  <1>1. /\ d \in Int
        /\ -N <= d
        /\ d < N + N
    OBVIOUS
  <1>2. d % N = IF d < 0 THEN d + N ELSE IF d < N THEN d ELSE d - N
    BY <1>1, ModCases
  <1>3. CircCnt(h, t, N) = IF h < t THEN h - t + N ELSE h - t
    BY CircCntCases
  <1> QED BY <1>2, <1>3 DEF CircSpace, CircCnt

\* The slot of the i-th oldest entry.
LEMMA CircSlotCases ==
    ASSUME NEW N \in Nat \ {0}, NEW t \in 0..N-1, NEW i \in 1..N
    PROVE  /\ (t + i - 1) % N = IF t + i - 1 < N THEN t + i - 1 ELSE t + i - 1 - N
           /\ (t + i - 1) % N \in 0..N-1
  <1>1. /\ t + i - 1 \in Int
        /\ -N <= t + i - 1
        /\ t + i - 1 < N + N
        /\ ~(t + i - 1 < 0)
    OBVIOUS
  <1>2. (t + i - 1) % N = IF t + i - 1 < 0 THEN (t + i - 1) + N
                          ELSE IF t + i - 1 < N THEN t + i - 1 ELSE (t + i - 1) - N
    BY <1>1, ModCases
  <1> QED BY <1>1, <1>2

\* Storing the next head adds an entry, if there is space for it.
LEMMA CircCntGrows ==
    ASSUME NEW N \in Nat \ {0}, NEW h \in 0..N-1, NEW t \in 0..N-1, CircSpace(h, t, N) >= 1
    PROVE  CircCnt(CircNext(h, N), t, N) = CircCnt(h, t, N) + 1
  <1>1. CircNext(h, N) \in 0..N-1 /\ CircNext(h, N) = IF h = N - 1 THEN 0 ELSE h + 1
    BY CircNextCases
  <1>2. CircCnt(CircNext(h, N), t, N) =
          IF CircNext(h, N) < t THEN CircNext(h, N) - t + N ELSE CircNext(h, N) - t
    BY <1>1, CircCntCases
  <1>3. CircCnt(h, t, N) = IF h < t THEN h - t + N ELSE h - t
    BY CircCntCases
  <1>4. CircCnt(h, t, N) < N - 1
    BY <1>3, CircSpaceCases
  <1> QED BY <1>1, <1>2, <1>3, <1>4

\* Storing the next tail removes one, if there is one.
LEMMA CircCntShrinks ==
    ASSUME NEW N \in Nat \ {0}, NEW h \in 0..N-1, NEW t \in 0..N-1, CircCnt(h, t, N) >= 1
    PROVE  CircCnt(h, CircNext(t, N), N) = CircCnt(h, t, N) - 1
  <1>1. CircNext(t, N) \in 0..N-1 /\ CircNext(t, N) = IF t = N - 1 THEN 0 ELSE t + 1
    BY CircNextCases
  <1>2. CircCnt(h, CircNext(t, N), N) =
          IF h < CircNext(t, N) THEN h - CircNext(t, N) + N ELSE h - CircNext(t, N)
    BY <1>1, CircCntCases
  <1>3. CircCnt(h, t, N) = IF h < t THEN h - t + N ELSE h - t
    BY CircCntCases
  <1> QED BY <1>1, <1>2, <1>3

\* The slot at head is none of the entries': it is the one after them.
LEMMA CircHeadSlot ==
    ASSUME NEW N \in Nat \ {0}, NEW h \in 0..N-1, NEW t \in 0..N-1,
           NEW i \in 1..CircCnt(h, t, N) + 1
    PROVE  (t + i - 1) % N = h <=> i = CircCnt(h, t, N) + 1
  <1>1. /\ CircCnt(h, t, N) = IF h < t THEN h - t + N ELSE h - t
        /\ CircCnt(h, t, N) \in 0..N-1
    BY CircCntCases
  <1>2. i \in 1..N
    BY <1>1
  <1>3. (t + i - 1) % N = IF t + i - 1 < N THEN t + i - 1 ELSE t + i - 1 - N
    BY <1>2, CircSlotCases
  <1> QED BY <1>1, <1>3

\* Different entries have different slots.
LEMMA CircSlotDiffers ==
    ASSUME NEW N \in Nat \ {0}, NEW t \in 0..N-1, NEW i \in 1..N, NEW j \in 1..N,
           (t + i - 1) % N = (t + j - 1) % N
    PROVE  i = j
  <1>1. (t + i - 1) % N = IF t + i - 1 < N THEN t + i - 1 ELSE t + i - 1 - N
    BY CircSlotCases
  <1>2. (t + j - 1) % N = IF t + j - 1 < N THEN t + j - 1 ELSE t + j - 1 - N
    BY CircSlotCases
  <1> QED BY <1>1, <1>2

\* After tail has advanced, the i-th entry is the one that was number i + 1.
LEMMA CircSlotShifts ==
    ASSUME NEW N \in Nat \ {0}, NEW t \in 0..N-1, NEW i \in 1..N-1
    PROVE  (CircNext(t, N) + i - 1) % N = (t + (i + 1) - 1) % N
  <1>1. CircNext(t, N) \in 0..N-1 /\ CircNext(t, N) = IF t = N - 1 THEN 0 ELSE t + 1
    BY CircNextCases
  <1>2. (CircNext(t, N) + i - 1) % N =
          IF CircNext(t, N) + i - 1 < N THEN CircNext(t, N) + i - 1 ELSE CircNext(t, N) + i - 1 - N
    BY <1>1, CircSlotCases
  <1>3. i + 1 \in 1..N
    OBVIOUS
  <1>4. (t + (i + 1) - 1) % N =
          IF t + (i + 1) - 1 < N THEN t + (i + 1) - 1 ELSE t + (i + 1) - 1 - N
    BY <1>3, CircSlotCases
  <1> QED BY <1>1, <1>2, <1>4
==============================================================================
