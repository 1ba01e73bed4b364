-------------------------------- MODULE MCDisNode ----------------------------
(***************************************************************************)
(* Instances of DisNode and DisPd for TLC: tables of two regions and of    *)
(* one queue pair, numbered as in the driver.                              *)
(***************************************************************************)
EXTENDS DisNode

SmallIni == [mr |-> 0, qp |-> 100]
SmallMax == [mr |-> 2, qp |-> 101]
==============================================================================
