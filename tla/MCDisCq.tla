-------------------------------- MODULE MCDisCq ------------------------------
(***************************************************************************)
(* Instances of DisCq for TLC: two work queues (the send and the receive   *)
(* queue of one queue pair, say) that share a completion queue.            *)
(***************************************************************************)
EXTENDS DisCq

\* dis_create_cq and dis_create_qp size a ring for n entries with
\* roundup_pow_of_two(n + 1), which leaves room for all of them.
ASSUME RingFits ==
  \A n \in 1..64 : CircSpace(0, 0, RoundupPowOfTwo(n + 1)) >= n

\* The ring of an application that asks for two completions.
RingForTwo == RoundupPowOfTwo(2 + 1)
==============================================================================
