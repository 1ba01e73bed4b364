-------------------------------- MODULE MCDisSge -----------------------------
(***************************************************************************)
(* Instances of DisSge for TLC: pages of two bytes, and every request      *)
(* whose segments lie in a few regions.                                    *)
(***************************************************************************)
EXTENDS DisSge

\* A region that begins in the middle of a page, one that fills two pages,
\* and a key nobody has registered.
SomeRegions == <<[va |-> 1, length |-> 4], [va |-> 2, length |-> 4], NoMr>>
==============================================================================
