-------------------------------- MODULE Channel ------------------------------
(***************************************************************************)
(* What two connected queue pairs promise their applications: channels,    *)
(* one for each direction, that hand the receiver the messages the sender  *)
(* gave, in order and each exactly once, hold a bounded number of them,    *)
(* and lose those they hold only when the receiver closes its end, after   *)
(* which nothing goes in or out.                                           *)
(***************************************************************************)
EXTENDS Integers, Sequences

CONSTANTS
  Channels,  \* each a pair: the sender and the receiver
  Capacity   \* how many messages a channel holds

VARIABLES
  given,     \* how many messages the sender has given
  inside,    \* the messages inside, oldest first
  delivered, \* the messages the receiver got, in order
  closed     \* the channels whose receiver has closed its end

vars == <<given, inside, delivered, closed>>

Message(c, n) == [from |-> c[1], no |-> n]

Init ==
  /\ given = [c \in Channels |-> 0]
  /\ inside = [c \in Channels |-> <<>>]
  /\ delivered = [c \in Channels |-> <<>>]
  /\ closed = {}

Give(c) ==
  /\ c \notin closed
  /\ Len(inside[c]) < Capacity
  /\ given' = [given EXCEPT ![c] = @ + 1]
  /\ inside' = [inside EXCEPT ![c] = Append(@, Message(c, given[c] + 1))]
  /\ UNCHANGED <<delivered, closed>>

Deliver(c) ==
  /\ c \notin closed
  /\ inside[c] # <<>>
  /\ delivered' = [delivered EXCEPT ![c] = Append(@, Head(inside[c]))]
  /\ inside' = [inside EXCEPT ![c] = Tail(@)]
  /\ UNCHANGED <<given, closed>>

Close(c) ==
  /\ c \notin closed
  /\ closed' = closed \cup {c}
  /\ inside' = [inside EXCEPT ![c] = <<>>]
  /\ UNCHANGED <<given, delivered>>

Next == \E c \in Channels : Give(c) \/ Deliver(c) \/ Close(c)

Spec == Init /\ [][Next]_vars
==============================================================================
