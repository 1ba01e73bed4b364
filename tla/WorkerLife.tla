------------------------------ MODULE WorkerLife -----------------------------
(***************************************************************************)
(* What the rest of the driver is promised of the worker thread of a work  *)
(* queue: there is one, it works until it is told to stop, it has a        *)
(* message queue only while it runs, and the queue is given up for freeing *)
(* only if the worker was never started or has said that it is gone.  A    *)
(* worker stopped before its first step ends without saying so.            *)
(***************************************************************************)
CONSTANT
  MayDie     \* whether something else may end a worker that runs

VARIABLES
  place,     \* where the worker is
  told,      \* it has been told to stop
  using,     \* it has a message queue or a connection to one
  exited,    \* it has said that it is gone
  released   \* the queue is given up for freeing

vars == <<place, told, using, exited, released>>

Init ==
  /\ place = "none"
  /\ told = FALSE
  /\ using = FALSE
  /\ exited = FALSE
  /\ released = FALSE

Begin ==
  /\ place = "none"
  /\ ~released
  /\ place' = "created"
  /\ UNCHANGED <<told, using, exited, released>>

Enter ==
  /\ place = "created"
  /\ ~told
  /\ place' = "init"
  /\ UNCHANGED <<told, using, exited, released>>

Open ==
  /\ place = "init"
  /\ ~told
  /\ place' = "run"
  /\ using' = TRUE
  /\ UNCHANGED <<told, exited, released>>

\* The peer takes the message queue away.
Lose ==
  /\ place = "run"
  /\ using' = FALSE
  /\ UNCHANGED <<place, told, exited, released>>

NeverRun ==
  /\ place = "created"
  /\ told
  /\ place' = "dead"
  /\ UNCHANGED <<told, using, exited, released>>

End ==
  /\ \/ place = "init" /\ told
     \/ place = "run" /\ (told \/ MayDie)
  /\ place' = "dead"
  /\ using' = FALSE
  /\ exited' = TRUE
  /\ UNCHANGED <<told, released>>

Tell ==
  /\ place # "none"
  /\ told' = TRUE
  /\ UNCHANGED <<place, using, exited, released>>

Release ==
  /\ place = "none" \/ exited
  /\ released' = TRUE
  /\ UNCHANGED <<place, told, using, exited>>

Next ==
  Begin \/ Enter \/ Open \/ Lose \/ NeverRun \/ End \/ Tell \/ Release

Spec == Init /\ [][Next]_vars
==============================================================================
