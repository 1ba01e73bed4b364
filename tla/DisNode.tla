---------------------------------- MODULE DisNode ----------------------------
(***************************************************************************)
(* A node: the modules that bring up the RDMA device (DisDriver) and a     *)
(* protection domain of an application that uses it (DisPd).  The RDMA     *)
(* core lets applications in while the device is registered and keeps      *)
(* ib_unregister_device waiting for those that are in.                     *)
(***************************************************************************)
EXTENDS DisDriver, DisPd

vars == <<drvVars, pdVars>>

Init == DrvInit /\ PdInit

\* ib_unregister_device lets nobody in any more.
Usable == disdev = "registered" /\ at \notin Modules

Drive == DrvNext(pd) /\ UNCHANGED pdVars

OpenDevice == Usable /\ AllocPd /\ UNCHANGED drvVars

UseDevice == pd /\ PdNext /\ UNCHANGED drvVars

Next == Drive \/ OpenDevice \/ UseDevice

Spec == Init /\ [][Next]_vars

------------------------------------------------------------------------------
(* Properties.                                                             *)

\* Every variable of both parts has its type.
TypeOK == DrvTypeOK /\ PdTypeOK

\* No domain, region or queue pair outlives the RDMA device, and none the
\* module whose code is to free it (dis_driver_remove).
UsersHaveDevice ==
  pd \/ heap # {} => disdev = "registered" /\ "dis_driver" \in loaded
==============================================================================
