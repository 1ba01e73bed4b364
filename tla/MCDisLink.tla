-------------------------------- MODULE MCDisLink ----------------------------
(***************************************************************************)
(* Instances of DisLink for TLC: a requester and a responder.  The         *)
(* Makefile loads the responder with is_initiator=Y.                       *)
(***************************************************************************)
EXTENDS DisLink

\* One node may fill its table of queue pairs, the other creates one.
ManyAndOne == [n \in Nodes |-> IF n \in Initiators THEN 1 ELSE QpMax - QpIni + 1]

OneEach == [n \in Nodes |-> 1]
==============================================================================
