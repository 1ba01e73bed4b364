------------------------------ MODULE BoundedFifo ----------------------------
(***************************************************************************)
(* What a completion queue promises its users: a queue of at most Capacity *)
(* entries that hands them out in the order they were put in, each exactly *)
(* once, and that turns an entry away only while it is full.               *)
(***************************************************************************)
EXTENDS Naturals, Sequences

CONSTANTS
  Entries,   \* what may be put in
  Capacity   \* how many entries fit

VARIABLES
  queue,     \* the entries inside, oldest first
  delivered, \* the entries handed out so far, in order
  lost       \* the entries turned away so far, in order

vars == <<queue, delivered, lost>>

Init ==
  /\ queue = <<>>
  /\ delivered = <<>>
  /\ lost = <<>>

Put(e) ==
  /\ Len(queue) < Capacity
  /\ queue' = Append(queue, e)
  /\ UNCHANGED <<delivered, lost>>

TurnAway(e) ==
  /\ Len(queue) = Capacity
  /\ lost' = Append(lost, e)
  /\ UNCHANGED <<queue, delivered>>

Take ==
  /\ queue # <<>>
  /\ delivered' = Append(delivered, Head(queue))
  /\ queue' = Tail(queue)
  /\ UNCHANGED lost

Next ==
  \/ \E e \in Entries : Put(e) \/ TurnAway(e)
  \/ Take

Spec == Init /\ [][Next]_vars
==============================================================================
