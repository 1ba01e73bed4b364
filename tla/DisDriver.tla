--------------------------------- MODULE DisDriver ---------------------------
(***************************************************************************)
(* The four kernel modules of a node and what they register: dis_sci_if    *)
(* opens the message queue library, dis_bus a bus and its root device,     *)
(* dis_driver a driver on the bus and dis_device the device it drives.     *)
(* When driver and device are both there, the kernel's driver core calls   *)
(* dis_driver_probe, which registers an RDMA device, and when one of them  *)
(* goes, dis_driver_remove.                                                *)
(*                                                                         *)
(* The driver core, the RDMA core and the module loader are external: one  *)
(* insmod or rmmod runs at a time, a module can only be loaded after those *)
(* whose symbols it uses and only be removed before them, and each         *)
(* registration may fail.                                                  *)
(***************************************************************************)
EXTENDS FiniteSets

VARIABLES
  loaded,     \* the modules whose init function has succeeded
  registered, \* the library (scil), buses, devices and drivers registered
  disdev,     \* disdev: none, allocated or registered with the RDMA core
  at          \* where the insmod or rmmod in progress is

drvVars == <<loaded, registered, disdev, at>>

Modules == {"dis_sci_if", "dis_bus", "dis_driver", "dis_device"}

\* The modules whose exported symbols a module uses.
Uses(m) ==
  (IF m = "dis_driver" THEN {"dis_sci_if"} ELSE {}) \cup
  (IF m \in {"dis_driver", "dis_device"} THEN {"dis_bus"} ELSE {})

DrvInit ==
  /\ loaded = {}
  /\ registered = {}
  /\ disdev = "none"
  /\ at = "idle"

MayLoad(m) == at = "idle" /\ m \notin loaded /\ Uses(m) \subseteq loaded
MayUnload(m) == at = "idle" /\ m \in loaded /\ \A n \in loaded : m \notin Uses(n)

\* An init function that is going to succeed goes on at step s.
Goes(s) == at' = s /\ UNCHANGED loaded
Succeeds(m) == at' = "idle" /\ loaded' = loaded \cup {m}
Fails == at' = "idle" /\ UNCHANGED loaded

------------------------------------------------------------------------------
(* dis_sci_if.                                                             *)

\* When SCILInit fails nothing has changed.
SciIfInit ==
  /\ MayLoad("dis_sci_if")
  /\ registered' = registered \cup {"scil"}
  /\ Succeeds("dis_sci_if")
  /\ UNCHANGED disdev

\* SCILReconf fails after SCILInit succeeded.
SciIfInitFails ==
  /\ MayLoad("dis_sci_if")
  /\ registered' = registered \cup {"scil"}
  /\ Fails
  /\ UNCHANGED disdev

\* SCILDestroy may fail, which is ignored.
SciIfExit ==
  /\ MayUnload("dis_sci_if")
  /\ registered' \in {registered, registered \ {"scil"}}
  /\ loaded' = loaded \ {"dis_sci_if"}
  /\ UNCHANGED <<disdev, at>>

------------------------------------------------------------------------------
(* dis_bus.                                                                *)

BusInit ==
  /\ MayLoad("dis_bus")
  /\ registered' = registered \cup {"dis_bus_type"}
  /\ Goes("bus_dev")
  /\ UNCHANGED disdev

BusInitDevice ==
  /\ at = "bus_dev"
  /\ registered' = registered \cup {"dis_bus_dev"}
  /\ Succeeds("dis_bus")
  /\ UNCHANGED disdev

\* A slip: the bus stays registered when its device cannot be.
BusInitFailsHalfway ==
  /\ at = "bus_dev"
  /\ Fails
  /\ UNCHANGED <<registered, disdev>>
BusInitFails ==
  /\ at = "bus_dev"
  /\ registered' = registered \ {"dis_bus_type"}
  /\ Fails
  /\ UNCHANGED disdev

BusExit ==
  /\ MayUnload("dis_bus")
  /\ registered' = registered \ {"dis_bus_dev", "dis_bus_type"}
  /\ loaded' = loaded \ {"dis_bus"}
  /\ UNCHANGED <<disdev, at>>

------------------------------------------------------------------------------
(* dis_driver and dis_device: each registers its half, and the driver core *)
(* probes when bus_match finds the other.                                  *)

Half(m) == IF m = "dis_driver" THEN "dis_dev_drv" ELSE "dis_dev"
Halves == {"dis_dev_drv", "dis_dev"}

\* Whether or not the probe succeeds, so does the registration.
Register(m) ==
  /\ m \in {"dis_driver", "dis_device"}
  /\ MayLoad(m)
  /\ registered' = registered \cup {Half(m)}
  /\ loaded' = loaded \cup {m}
  /\ at' = IF Halves \subseteq registered' THEN "probe" ELSE "idle"
  /\ UNCHANGED disdev

\* ib_alloc_device, which may fail.
Probe ==
  /\ at = "probe"
  /\ \/ disdev' = "allocated" /\ at' = "probe_register"
     \/ disdev' = "none" /\ at' = "idle"
  /\ UNCHANGED <<loaded, registered>>

ProbeRegister ==
  /\ at = "probe_register"
  /\ disdev' = "registered"
  /\ at' = "idle"
  /\ UNCHANGED <<loaded, registered>>

\* A slip: the device is not given back when it cannot be registered.
ProbeFailsAllocated ==
  /\ at = "probe_register"
  /\ at' = "idle"
  /\ UNCHANGED <<loaded, registered, disdev>>
ProbeFails ==
  /\ at = "probe_register"
  /\ disdev' = "none"
  /\ at' = "idle"
  /\ UNCHANGED <<loaded, registered>>

\* driver_unregister or device_unregister: dis_driver_remove comes first, if
\* the device is bound to the driver.  The RDMA core keeps dis_driver, the
\* owner of disdevops, from being removed while the device has users.
Unregister(m) ==
  /\ m \in {"dis_driver", "dis_device"}
  /\ MayUnload(m)
  /\ disdev = "none"
  /\ registered' = registered \ {Half(m)}
  /\ loaded' = loaded \ {m}
  /\ UNCHANGED <<disdev, at>>

UnregisterBound(m, busy) ==
  /\ m \in {"dis_driver", "dis_device"}
  /\ MayUnload(m)
  /\ m = "dis_driver" => ~busy
  /\ disdev # "none"
  /\ at' = m
  /\ UNCHANGED <<loaded, registered, disdev>>

\* dis_driver_remove.  ib_unregister_device returns when the device has no
\* users; ib_dealloc_device follows, and then the unregistration goes on.
Removed ==
  /\ disdev' = "none"
  /\ registered' = registered \ {Half(at)}
  /\ loaded' = loaded \ {at}
  /\ at' = "idle"

\* A slip: the device is given back without being unregistered.
RemoveAtOnce(busy) == at \in Modules /\ Removed
Remove(busy) == at \in Modules /\ ~busy /\ Removed

\* The steps of a node on which "busy" says whether the device has users.
DrvNext(busy) ==
  \/ SciIfInit \/ SciIfInitFails \/ SciIfExit
  \/ BusInit \/ BusInitDevice \/ BusInitFails \/ BusExit
  \/ \E m \in Modules : Register(m) \/ Unregister(m) \/ UnregisterBound(m, busy)
  \/ Probe \/ ProbeRegister \/ ProbeFails \/ Remove(busy)

------------------------------------------------------------------------------
(* Properties.                                                             *)

Registrable == {"scil", "dis_bus_type", "dis_bus_dev"} \cup Halves

\* Every variable has its type.
DrvTypeOK ==
  /\ loaded \subseteq Modules
  /\ registered \subseteq Registrable
  /\ disdev \in {"none", "allocated", "registered"}
  /\ at \in {"idle", "bus_dev", "probe", "probe_register"} \cup Modules

\* Between two commands, what is registered belongs to a module that is loaded:
\* neither a failed dis_bus_init nor an exit function leaves the kernel with
\* pointers into a module that is gone.  The library, which dis_sci_if_init
\* leaves open when SCILReconf fails, is not the kernel's.
OwnersLoaded ==
  at = "idle" =>
    /\ Half("dis_driver") \in registered <=> "dis_driver" \in loaded
    /\ Half("dis_device") \in registered <=> "dis_device" \in loaded
    /\ {"dis_bus_type", "dis_bus_dev"} \cap registered # {} => "dis_bus" \in loaded

\* Between two commands there is an RDMA device only if it is registered, and
\* its driver, its device and the bus and library they rest on are there,
\* whichever module was loaded or removed first (dis_driver_probe,
\* dis_driver_remove).
DeviceRests ==
  at = "idle" /\ disdev # "none" =>
    /\ disdev = "registered"
    /\ Halves \cup {"dis_bus_type", "dis_bus_dev", "scil"} \subseteq registered
==============================================================================
