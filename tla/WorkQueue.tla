------------------------------- MODULE WorkQueue -----------------------------
(***************************************************************************)
(* What a work queue promises the applications that use it through the     *)
(* verbs: it accepts requests while there is room for them and completes   *)
(* them one at a time in the order it accepted them.  A request fails only *)
(* if the queue has been told to stop, and no other completes after it.  A *)
(* completion is lost only if the completion queue has no room for it.     *)
(***************************************************************************)
EXTENDS Naturals, Sequences

CONSTANTS
  Requests,    \* what may be posted: records with a wr_id and a byte_len
  Capacity,    \* how many requests the queue holds
  Room         \* how many completions the completion queue holds

VARIABLES
  pending,     \* the requests accepted and not yet completed, oldest first
  completions, \* the completions the application gets to see, in order
  polled,      \* how many of them it has seen
  stopped,     \* the queue has been told to stop
  failed       \* a request has failed

vars == <<pending, completions, polled, stopped, failed>>

Init ==
  /\ pending = <<>>
  /\ completions = <<>>
  /\ polled = 0
  /\ stopped = FALSE
  /\ failed = FALSE

Accept(r) ==
  /\ ~stopped
  /\ Len(pending) < Capacity
  /\ pending' = Append(pending, r)
  /\ UNCHANGED <<completions, polled, stopped, failed>>

\* The oldest request is done, with a status and a length.
Complete(status, len) ==
  /\ pending # <<>>
  /\ ~failed
  /\ pending' = Tail(pending)
  /\ completions' =
       IF Len(completions) - polled < Room
       THEN Append(completions,
                   [wr_id |-> Head(pending).wr_id, status |-> status, byte_len |-> len])
       ELSE completions
  /\ UNCHANGED <<polled, stopped>>

Succeed ==
  /\ Complete("SUCCESS", Head(pending).byte_len)
  /\ UNCHANGED failed

\* The length of a failed request is of no significance.
Fail ==
  /\ stopped
  /\ Complete("RESP_TIMEOUT_ERR", 0)
  /\ failed' = TRUE

Stop ==
  /\ ~stopped
  /\ stopped' = TRUE
  /\ UNCHANGED <<pending, completions, polled, failed>>

Poll ==
  /\ polled < Len(completions)
  /\ polled' = polled + 1
  /\ UNCHANGED <<pending, completions, stopped, failed>>

Next ==
  \/ \E r \in Requests : Accept(r)
  \/ Succeed \/ Fail \/ Stop \/ Poll

Spec == Init /\ [][Next]_vars
==============================================================================
