------------------------------- MODULE XmDbus ------------------------------
(***************************************************************************)
(* xm_dbus.py: setup_network_manager gives NetworkManager a profile called *)
(* xmm7360 with the session's address and activates it on wwan0.  Every    *)
(* call to NetworkManager is a step of its own: other programs add and     *)
(* delete profiles, and the device comes and goes, between any two.        *)
(*                                                                         *)
(* An exception from D-Bus or Python ends the call.  The next call may be  *)
(* made on the same DBUS object, whose fields keep what the last one found,*)
(* or by a new program.  Only this client makes profiles called xmm7360.   *)
(***************************************************************************)
EXTENDS Naturals

CONSTANTS
  Addresses,   \* addresses sessions may get
  None,        \* Python's None, and a key that is absent from a dictionary
  OtherDevices, \* object paths of devices that are not wwan0
  MaxPath,     \* bound: profiles NetworkManager creates
  MaxDevice,   \* bound: times wwan0 appears
  MaxCalls     \* bound: calls of setup_network_manager

ASSUME XmDbusAssumption ==
  /\ None \notin Addresses \cup Nat \cup OtherDevices /\ Addresses # {}
  /\ OtherDevices \cap Nat = {}
  /\ MaxPath \in Nat \ {0} /\ MaxDevice \in Nat \ {0} /\ MaxCalls \in Nat

VARIABLES
  profiles,        \* NetworkManager's profiles, by object path
  paths,           \* object paths given out
  device, devices, \* wwan0: object path or None; object paths given out
  managed,         \* its Managed property
  others,          \* the other devices NetworkManager has
  active,          \* what was last activated: profile path and device, or None
  pc,              \* position in setup_network_manager
  returned,        \* did the last call that ended return, not raise?
  todo, listed,    \* of ListConnections and GetDevices, what is still to be looked at
  connection_path, \* self.connection_path
  device_path, device_managed,  \* self.device_path, self.device_props["Managed"]
  ip_addr,         \* self.ip_addr
  config,          \* the settings update_connection has read
  calls

devVars   == <<device, devices, managed, others>>
nmVars    == <<profiles, paths, devVars, active>>
lists     == <<todo, listed>>
cacheVars == <<connection_path, device_path, device_managed>>
vars      == <<nmVars, cacheVars, pc, returned, lists, ip_addr, config, calls>>

Paths    == 1 .. MaxPath
Profiles == [id : {"xmm7360", "other"},
             addresses : Addresses \cup {None},      \* the key of older versions
             address_data : Addresses \cup {None}]

\* A profile this client made with one of the two keys, or one of somebody else.
OldProfiles == {[id |-> "xmm7360", addresses |-> a, address_data |-> None] : a \in Addresses}
OtherProfile == [id |-> "other", addresses |-> None, address_data |-> None]

Positions == {"idle", "scan", "relist", "rescan", "read", "update", "add", "device",
              "query", "manage", "activate"}

Init ==
  /\ \/ profiles = [p \in {} |-> OtherProfile] /\ paths = 0
     \/ \E old \in OldProfiles : profiles = [p \in {1} |-> old] /\ paths = 1
  /\ device \in {None, 1} /\ devices = 1 /\ managed \in BOOLEAN
  /\ others = OtherDevices
  /\ active = None
  /\ pc = "idle" /\ returned = FALSE /\ todo = {} /\ listed = {} /\ calls = 0
  /\ connection_path = None /\ device_path = None /\ device_managed = FALSE
  /\ ip_addr = None /\ config = None

Known == DOMAIN profiles
With(path, profile) == [p \in Known \cup {path} |-> IF p = path THEN profile ELSE profiles[p]]

GoTo(k) == pc' = k /\ UNCHANGED returned
Fail    == pc' = "idle" /\ returned' = FALSE

-----------------------------------------------------------------------------
(* setup_network_manager begins: get_connections lists the profiles.  A    *)
(* new program starts with a new DBUS object.                              *)
Setup(a, fresh) ==
  /\ pc = "idle" /\ calls < MaxCalls
  /\ calls' = calls + 1
  /\ ip_addr' = a
  /\ todo' = Known
  /\ GoTo("scan")
  /\ IF fresh THEN connection_path' = None /\ device_path' = None /\ device_managed' = FALSE
              ELSE UNCHANGED cacheVars
  /\ UNCHANGED <<nmVars, listed, config>>

(* GetSettings of one profile of the list: the last that is called xmm7360 *)
(* is remembered; a profile that is gone is an exception.                  *)
Scan(p) ==
  /\ pc \in {"scan", "rescan"} /\ p \in todo
  /\ todo' = todo \ {p}
  /\ IF p \notin Known THEN Fail ELSE GoTo(pc)
  /\ connection_path' = IF p \in Known /\ profiles[p].id = "xmm7360" THEN p ELSE connection_path
  /\ UNCHANGED <<nmVars, device_path, device_managed, listed, ip_addr, config, calls>>

(* Broken variant: the search for the profile is left out, a new one is    *)
(* added each time.                                                        *)
ScannedAlwaysAdd ==
  /\ pc \in {"scan", "rescan"} /\ todo = {}
  /\ GoTo(IF pc = "rescan" THEN "device" ELSE "add")
  /\ UNCHANGED <<nmVars, cacheVars, lists, ip_addr, config, calls>>

Scanned ==
  /\ pc \in {"scan", "rescan"} /\ todo = {}
  /\ GoTo(IF pc = "rescan" THEN "device"
          ELSE IF connection_path = None THEN "add" ELSE "read")
  /\ UNCHANGED <<nmVars, cacheVars, lists, ip_addr, config, calls>>

(* update_connection: GetSettings ...                                      *)
ReadSettings ==
  /\ pc = "read"
  /\ IF connection_path \in Known
       THEN config' = profiles[connection_path] /\ GoTo("update")
       ELSE Fail /\ UNCHANGED config
  /\ UNCHANGED <<nmVars, cacheVars, lists, ip_addr, calls>>

(* Broken variant: the key of older versions is left in the settings.      *)
UpdateKeepsOld ==
  /\ pc = "update"
  /\ IF connection_path \in Known
       THEN /\ profiles' = With(connection_path, [config EXCEPT !.address_data = ip_addr])
            /\ GoTo("device")
       ELSE Fail /\ UNCHANGED profiles
  /\ UNCHANGED <<paths, devVars, active, cacheVars, lists, ip_addr, config, calls>>

(* ... and Update, with the old keys removed and the address set.          *)
Update ==
  /\ pc = "update"
  /\ IF connection_path \in Known
       THEN /\ profiles' = With(connection_path,
                                [config EXCEPT !.addresses = None, !.address_data = ip_addr])
            /\ GoTo("device")
       ELSE Fail /\ UNCHANGED profiles
  /\ UNCHANGED <<paths, devVars, active, cacheVars, lists, ip_addr, config, calls>>

(* add_connection ...                                                      *)
Add ==
  /\ pc = "add" /\ paths < MaxPath
  /\ paths' = paths + 1
  /\ profiles' = With(paths', [id |-> "xmm7360", addresses |-> None, address_data |-> ip_addr])
  /\ GoTo("relist")
  /\ UNCHANGED <<devVars, active, cacheVars, lists, ip_addr, config, calls>>

(* ... and get_connections once more, to learn its path.                   *)
Relist ==
  /\ pc = "relist"
  /\ todo' = Known
  /\ GoTo("rescan")
  /\ UNCHANGED <<nmVars, cacheVars, listed, ip_addr, config, calls>>

(* get_device_prop_iface: GetDevices ...                                   *)
GetDevices ==
  /\ pc = "device"
  /\ listed' = others \cup IF device = None THEN {} ELSE {device}
  /\ GoTo("query")
  /\ UNCHANGED <<nmVars, cacheVars, todo, ip_addr, config, calls>>

(* ... GetAll of one device of the list, in whatever order it has: one     *)
(* that is gone is an exception; wwan0 is remembered and ends the loop.    *)
GetAll(d) ==
  /\ pc = "query" /\ d \in listed
  /\ listed' = IF d \in others THEN listed \ {d} ELSE {}
  /\ IF d = device THEN device_path' = d /\ device_managed' = managed
                   ELSE UNCHANGED <<device_path, device_managed>>
  /\ \/ d \in others /\ GoTo("query")
     \/ d = device /\ GoTo(IF managed THEN "activate" ELSE "manage")
     \/ d \notin others \cup {device} /\ Fail
  /\ UNCHANGED <<nmVars, connection_path, todo, ip_addr, config, calls>>

(* Broken variant: a device that was not found is taken to be managed.     *)
NotFoundUnchecked ==
  /\ pc = "query" /\ listed = {}
  /\ GoTo("activate")
  /\ UNCHANGED <<nmVars, cacheVars, lists, ip_addr, config, calls>>

(* ... and without wwan0 it returns None: device_props and device_path are *)
(* those of an earlier call, if there was one, else an exception; so is    *)
(* None.Set for a device that is not managed.                              *)
NotFound ==
  /\ pc = "query" /\ listed = {}
  /\ IF device_path # None /\ device_managed THEN GoTo("activate") ELSE Fail
  /\ UNCHANGED <<nmVars, cacheVars, lists, ip_addr, config, calls>>

(* Set Managed.                                                            *)
SetManaged ==
  /\ pc = "manage"
  /\ IF device_path = device
       THEN managed' = TRUE /\ GoTo("activate")
       ELSE Fail /\ UNCHANGED managed
  /\ UNCHANGED <<profiles, paths, device, devices, others, active, cacheVars, lists, ip_addr,
                 config, calls>>

(* ActivateConnection, which NetworkManager refuses for what is gone.      *)
ActivateConnection ==
  /\ pc = "activate"
  /\ IF connection_path \in Known /\ device_path = device
       THEN /\ active' = [path |-> connection_path, on |-> device, addr |-> ip_addr]
            /\ pc' = "idle" /\ returned' = TRUE
       ELSE Fail /\ UNCHANGED active
  /\ UNCHANGED <<profiles, paths, devVars, cacheVars, lists, ip_addr, config, calls>>

ClientStep ==
  \/ \E p \in Paths : Scan(p)
  \/ Scanned \/ ReadSettings \/ Update \/ Add \/ Relist
  \/ GetDevices \/ (\E d \in 1 .. MaxDevice \cup OtherDevices : GetAll(d)) \/ NotFound
  \/ SetManaged \/ ActivateConnection

-----------------------------------------------------------------------------
(* NetworkManager's other users, the modem's interface and other devices   *)
(* (external).                                                             *)

callVars == <<cacheVars, pc, returned, lists, ip_addr, config, calls>>

OtherAdds ==
  /\ paths < MaxPath
  /\ paths' = paths + 1
  /\ profiles' = With(paths', OtherProfile)
  /\ UNCHANGED <<devVars, active, callVars>>

OtherDeletes(p) ==
  /\ p \in Known
  /\ profiles' = [q \in Known \ {p} |-> profiles[q]]
  /\ active' = IF active # None /\ active.path = p THEN None ELSE active
  /\ UNCHANGED <<paths, devVars, callVars>>

DeviceGone ==
  /\ device # None
  /\ device' = None /\ active' = None
  /\ UNCHANGED <<profiles, paths, devices, managed, others, callVars>>

DeviceBack ==
  /\ device = None /\ devices < MaxDevice
  /\ devices' = devices + 1 /\ device' = devices'
  /\ managed' \in BOOLEAN
  /\ UNCHANGED <<profiles, paths, others, active, callVars>>

(* Another device goes; its object path is not used again.                 *)
OtherDeviceGone(d) ==
  /\ d \in others
  /\ others' = others \ {d}
  /\ UNCHANGED <<profiles, paths, device, devices, managed, active, callVars>>

Others ==
  \/ OtherAdds \/ (\E p \in Paths : OtherDeletes(p))
  \/ DeviceGone \/ DeviceBack \/ (\E d \in OtherDevices : OtherDeviceGone(d))

Next == (\E a \in Addresses, fresh \in BOOLEAN : Setup(a, fresh)) \/ ClientStep \/ Others

Spec == Init /\ [][Next]_vars

-----------------------------------------------------------------------------
(* Types of the state, and the fields each call of NetworkManager takes as *)
(* arguments: update_connection has a profile, ActivateConnection a device.*)
TypeOK ==
  /\ Known \subseteq Paths /\ \A p \in Known : profiles[p] \in Profiles
  /\ paths \in 0 .. MaxPath /\ devices \in 1 .. MaxDevice /\ managed \in BOOLEAN
  /\ pc \in Positions /\ todo \subseteq Paths /\ calls \in 0 .. MaxCalls
  /\ device_managed \in BOOLEAN /\ returned \in BOOLEAN
  /\ others \subseteq OtherDevices /\ listed \subseteq 1 .. MaxDevice \cup OtherDevices
  /\ pc \in {"read", "update"} => connection_path \in Paths
  /\ pc \in {"manage", "activate"} => device_path \in 1 .. MaxDevice

Mine == {p \in Known : profiles[p].id = "xmm7360"}

(* However often the setup runs, on a new object or on one that remembers, *)
(* and whoever deletes profiles meanwhile: there is one profile called     *)
(* xmm7360, and never a second (get_connections would then pick any).      *)
OneProfile == \A p, q \in Mine : p = q

(* What is active is this client's profile, and has no address in the key  *)
(* of older versions.  After a call that returned, until the next one      *)
(* updates the profile, it carries the address it was activated with, and  *)
(* that is the call's own.  A call that raises may have rewritten the      *)
(* profile without activating it; then the two addresses may differ until  *)
(* a call returns.                                                         *)
ActiveIsCurrent ==
  active # None =>
    /\ active.path \in Mine /\ profiles[active.path].addresses = None
    /\ returned /\ pc \in {"idle", "scan", "read", "update"} =>
         profiles[active.path].address_data = active.addr
    /\ returned /\ pc = "idle" => active.addr = ip_addr

=============================================================================
