-------------------------------- MODULE MCDisWq ------------------------------
(***************************************************************************)
(* Instances of DisWq for TLC: one send or receive queue, one posting      *)
(* thread, rings of two or four entries.                                   *)
(***************************************************************************)
EXTENDS DisWq

\* The rings of applications that ask for three requests and for one.
RingForThree == RoundupPowOfTwo(3 + 1)
RingForOne == RoundupPowOfTwo(1 + 1)

\* It does not matter which memory kmalloc hands out.
MapSymmetry == Permutations(Addrs)
==============================================================================
