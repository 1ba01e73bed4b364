------------------------------- MODULE CircBuf -------------------------------
(***************************************************************************)
(* The index arithmetic of the driver's circular buffers.  Both the work   *)
(* queues (dis_wq.wqe_circ) and the completion queues (dis_cq.cqe_circ)    *)
(* are a struct circ_buf handled with the CIRC_* macros of the kernel's    *)
(* linux/circ_buf.h, which is not in the repository.                       *)
(*                                                                         *)
(* The macros mask with (size - 1).  Every size the driver uses comes from *)
(* roundup_pow_of_two, so masking is the remainder modulo size.            *)
(***************************************************************************)
EXTENDS Integers, Sequences

\* CIRC_CNT: the number of entries between tail and head.
CircCnt(head, tail, size) == (head - tail) % size

\* CIRC_SPACE: the number of free entries.  One slot always stays free, so
\* that a full ring can be told from an empty one.
CircSpace(head, tail, size) == CircCnt(tail, head + 1, size)

\* The index after i: (i + 1) & (size - 1) in the stores to head and tail.
CircNext(i, size) == (i + 1) % size

\* The ring sizes whose indices fit the int fields head and tail of circ_buf.
PowersOfTwo == {2^k : k \in 0..30}

\* roundup_pow_of_two(n), for 1 <= n <= 2^30.
RoundupPowOfTwo(n) ==
    CHOOSE p \in PowersOfTwo : p >= n /\ \A q \in PowersOfTwo : q >= n => p <= q

\* The entries of a ring from tail up to head, oldest first.
CircContents(buf, head, tail, size) ==
    [i \in 1..CircCnt(head, tail, size) |-> buf[(tail + i - 1) % size]]
==============================================================================
