---------------------------- MODULE XmDbusProofs ---------------------------
(***************************************************************************)
(* xm_dbus.py never makes a second profile, and what is active after a     *)
(* call that returned carries the session's address: for every number of   *)
(* calls, profiles and devices, and whatever other programs do between two *)
(* D-Bus calls.                                                            *)
(***************************************************************************)
EXTENDS XmDbus, TLAPS

(* Types: TypeOK, and the types of what it leaves out.                     *)
TypeInv ==
  /\ TypeOK
  /\ connection_path \in Paths \cup {None}
  /\ device \in 1 .. MaxDevice \cup {None} /\ device_path \in 1 .. MaxDevice \cup {None}
  /\ ip_addr \in Addresses \cup {None} /\ (pc # "idle" => ip_addr \in Addresses)
  /\ pc = "update" => config \in Profiles

(* Object paths are given out once, so what connection_path names is a     *)
(* profile of this client, or nothing any more.                            *)
PathInv ==
  /\ \A p \in Known : p \in 1 .. paths
  /\ connection_path # None => connection_path \in 1 .. paths
  /\ connection_path \in Known => profiles[connection_path].id = "xmm7360"
  /\ pc = "update" => config.id = "xmm7360"

(* While the list is scanned, a profile of this client that has not been   *)
(* found is still on the list; so there is none when one is added.         *)
ScanInv ==
  /\ pc = "scan" /\ connection_path = None => Mine \subseteq todo
  /\ pc = "add" => Mine = {}

(* Once added or updated, the profile has the session's address.           *)
FreshInv ==
  pc \in {"relist", "rescan", "device", "query", "manage", "activate"} =>
    \A p \in Mine : profiles[p].address_data = ip_addr /\ profiles[p].addresses = None

(* What is active is the profile of this client on the device that is      *)
(* there, so none is being added; after a call that returned, and until    *)
(* the next update, the profile is as it was activated.                    *)
ActiveInv ==
  active # None =>
    /\ active.path \in Mine /\ active.on = device /\ device # None
    /\ pc \notin {"relist", "rescan"}
    /\ profiles[active.path].addresses = None
    /\ returned /\ pc \in {"idle", "scan", "read", "update"} =>
         profiles[active.path].address_data = active.addr
    /\ returned /\ pc = "idle" => active.addr = ip_addr

ProfileInv == PathInv /\ OneProfile /\ ScanInv /\ FreshInv

-----------------------------------------------------------------------------
(* The types are an invariant.                                             *)
LEMMA TypeInvariant == Spec => []TypeInv
<1> USE XmDbusAssumption DEF Positions, Paths, Profiles, Known, devVars, lists
<1>1. Init => TypeInv
  <2> SUFFICES ASSUME Init PROVE TypeInv
    OBVIOUS
  <2>1. \A p \in Known : p = 1 /\ profiles[p] \in OldProfiles
    BY DEF Init
  <2>2. OldProfiles \subseteq Profiles
    BY DEF OldProfiles
  <2>3. paths \in 0 .. MaxPath
    BY DEF Init
  <2>4. Known \subseteq Paths /\ \A p \in Known : profiles[p] \in Profiles
    BY <2>1, <2>2
  <2>5. /\ device \in 1 .. MaxDevice \cup {None} /\ devices \in 1 .. MaxDevice
        /\ device_path \in 1 .. MaxDevice \cup {None} /\ managed \in BOOLEAN
    BY DEF Init
  <2>6. /\ pc \in Positions /\ todo \subseteq Paths /\ calls \in 0 .. MaxCalls
        /\ connection_path \in Paths \cup {None} /\ ip_addr \in Addresses \cup {None}
        /\ pc = "idle"
    BY DEF Init
  <2>7. /\ device_managed \in BOOLEAN /\ returned \in BOOLEAN
        /\ others \subseteq OtherDevices /\ listed \subseteq 1 .. MaxDevice \cup OtherDevices
    BY Zenon DEF Init
  <2>8. pc \notin {"read", "update"} /\ pc \notin {"manage", "activate"} /\ pc # "update"
    BY <2>6
  <2> QED
    BY <2>3, <2>4, <2>5, <2>6, <2>7, <2>8, Zenon DEF TypeInv, TypeOK
<1>2. TypeInv /\ [Next]_vars => TypeInv'
  <2> SUFFICES ASSUME TypeInv, [Next]_vars PROVE TypeInv'
    OBVIOUS
  <2> USE DEF TypeInv, TypeOK
  <2>1. ASSUME NEW a \in Addresses, NEW fresh \in BOOLEAN, Setup(a, fresh) PROVE TypeInv'
    <3>1. connection_path' \in Paths \cup {None} /\ device_path' \in 1 .. MaxDevice \cup {None}
          /\ device_managed' \in BOOLEAN
      BY <2>1 DEF Setup, cacheVars
    <3> QED
      BY <2>1, <3>1 DEF Setup, GoTo, nmVars
  <2>2. ASSUME NEW p \in Paths, Scan(p) PROVE TypeInv'
    BY <2>2 DEF Scan, GoTo, Fail, nmVars
  <2>3. CASE Scanned
    BY <2>3 DEF Scanned, GoTo, nmVars, cacheVars
  <2>4. CASE ReadSettings
    BY <2>4 DEF ReadSettings, GoTo, Fail, nmVars, cacheVars
  <2>5. CASE Update
    <3> DEFINE new == [config EXCEPT !.addresses = None, !.address_data = ip_addr]
    <3>1. new \in Profiles
      BY <2>5 DEF Update
    <3>2. CASE connection_path \in Known
      <4> HIDE DEF new
      <4>1. profiles' = With(connection_path, new)
        BY <2>5, <3>2 DEF Update, new
      <4>2. \A p \in Known' : p \in Paths /\ profiles'[p] \in Profiles
        BY <4>1, <3>1, <3>2 DEF With
      <4> QED
        BY <2>5, <3>2, <4>2 DEF Update, GoTo, cacheVars
    <3>3. CASE connection_path \notin Known
      BY <2>5, <3>3 DEF Update, Fail, cacheVars
    <3> QED
      BY <3>2, <3>3
  <2>6. CASE Add
    BY <2>6 DEF Add, GoTo, With, cacheVars
  <2>7. CASE Relist
    BY <2>7 DEF Relist, GoTo, nmVars, cacheVars
  <2>8. CASE GetDevices
    BY <2>8 DEF GetDevices, GoTo, nmVars, cacheVars
  <2>16. ASSUME NEW d \in 1 .. MaxDevice \cup OtherDevices, GetAll(d) PROVE TypeInv'
    BY <2>16 DEF GetAll, GoTo, Fail, nmVars
  <2>17. CASE NotFound
    BY <2>17 DEF NotFound, GoTo, Fail, nmVars, cacheVars
  <2>18. ASSUME NEW d \in OtherDevices, OtherDeviceGone(d) PROVE TypeInv'
    BY <2>18 DEF OtherDeviceGone, callVars, cacheVars
  <2>9. CASE SetManaged
    BY <2>9 DEF SetManaged, GoTo, Fail, cacheVars
  <2>10. CASE ActivateConnection
    BY <2>10 DEF ActivateConnection, Fail, cacheVars
  <2>11. CASE OtherAdds
    BY <2>11 DEF OtherAdds, OtherProfile, With, callVars, cacheVars
  <2>12. ASSUME NEW p \in Paths, OtherDeletes(p) PROVE TypeInv'
    BY <2>12 DEF OtherDeletes, callVars, cacheVars
  <2>13. CASE DeviceGone
    BY <2>13 DEF DeviceGone, callVars, cacheVars
  <2>14. CASE DeviceBack
    BY <2>14 DEF DeviceBack, callVars, cacheVars
  <2>15. CASE UNCHANGED vars
    BY <2>15 DEF vars, nmVars, cacheVars
  <2> QED
    BY <2>1, <2>2, <2>3, <2>4, <2>5, <2>6, <2>7, <2>8, <2>9, <2>10, <2>11, <2>12, <2>13,
       <2>14, <2>15, <2>16, <2>17, <2>18 DEF Next, ClientStep, Others
<1> QED
  BY <1>1, <1>2, PTL DEF Spec

(* What Update changes: the profile gets the address of the call.          *)
LEMMA UpdateIs ==
  ASSUME Update, connection_path \in Known, config \in Profiles, config.id = "xmm7360"
  PROVE  /\ Known' = Known
         /\ profiles'[connection_path].id = "xmm7360"
         /\ profiles'[connection_path].addresses = None
         /\ profiles'[connection_path].address_data = ip_addr
         /\ \A p \in Known : p # connection_path => profiles'[p] = profiles[p]
<1> DEFINE new == [config EXCEPT !.addresses = None, !.address_data = ip_addr]
<1>1. new.id = "xmm7360" /\ new.addresses = None /\ new.address_data = ip_addr
  BY DEF Profiles
<1>2. ASSUME NEW x
      PROVE  /\ DOMAIN With(connection_path, x) = Known
             /\ With(connection_path, x)[connection_path] = x
             /\ \A p \in Known : p # connection_path => With(connection_path, x)[p] = profiles[p]
  BY DEF With
<1>3. profiles' = With(connection_path, new)
  BY DEF Update
<1> HIDE DEF new
<1> QED
  BY <1>1, <1>2, <1>3 DEF Known

(* There is one profile of this client at most, and it is found.           *)
LEMMA ProfileInvariant == Spec => []ProfileInv
<1> USE XmDbusAssumption DEF Paths, Known, Mine, devVars, lists
<1>1. Init => ProfileInv
  <2> SUFFICES ASSUME Init PROVE ProfileInv
    OBVIOUS
  <2>1. \A p \in Known : p = 1 /\ paths = 1
    BY DEF Init
  <2> QED
    BY <2>1 DEF Init, ProfileInv, PathInv, OneProfile, ScanInv, FreshInv
<1>2. TypeInv /\ TypeInv' /\ ProfileInv /\ [Next]_vars => ProfileInv'
  <2> SUFFICES ASSUME TypeInv, TypeInv', ProfileInv, [Next]_vars PROVE ProfileInv'
    OBVIOUS
  <2> USE DEF TypeInv, TypeOK, ProfileInv, PathInv, OneProfile, ScanInv, FreshInv
  <2>1. ASSUME NEW a \in Addresses, NEW fresh \in BOOLEAN, Setup(a, fresh) PROVE ProfileInv'
    BY <2>1 DEF Setup, GoTo, nmVars, cacheVars
  <2>2. ASSUME NEW p \in Paths, Scan(p) PROVE ProfileInv'
    BY <2>2 DEF Scan, GoTo, Fail, nmVars
  <2>3. CASE Scanned
    BY <2>3 DEF Scanned, GoTo, nmVars, cacheVars
  <2>4. CASE ReadSettings
    BY <2>4 DEF ReadSettings, GoTo, Fail, nmVars, cacheVars
  <2>5. CASE Update
    <3>1. CASE connection_path \in Known
      <4>1. /\ Known' = Known
            /\ profiles'[connection_path].id = "xmm7360"
            /\ profiles'[connection_path].addresses = None
            /\ profiles'[connection_path].address_data = ip_addr
            /\ \A p \in Known : p # connection_path => profiles'[p] = profiles[p]
        <5>1. config \in Profiles /\ config.id = "xmm7360"
          BY <2>5 DEF Update
        <5> QED
          BY <2>5, <3>1, <5>1, UpdateIs
      <4>2. Mine' = Mine /\ Mine = {connection_path}
        BY <4>1, <3>1
      <4> QED
        BY <2>5, <3>1, <4>1, <4>2 DEF Update, GoTo, cacheVars
    <3>2. CASE connection_path \notin Known
      BY <2>5, <3>2 DEF Update, Fail, cacheVars
    <3> QED
      BY <3>1, <3>2
  <2>6. CASE Add
    BY <2>6 DEF Add, GoTo, With, cacheVars
  <2>7. CASE Relist
    BY <2>7 DEF Relist, GoTo, nmVars, cacheVars
  <2>8. CASE GetDevices
    BY <2>8 DEF GetDevices, GoTo, nmVars, cacheVars
  <2>16. ASSUME NEW d \in 1 .. MaxDevice \cup OtherDevices, GetAll(d) PROVE ProfileInv'
    BY <2>16 DEF GetAll, GoTo, Fail, nmVars
  <2>17. CASE NotFound
    BY <2>17 DEF NotFound, GoTo, Fail, nmVars, cacheVars
  <2>18. ASSUME NEW d \in OtherDevices, OtherDeviceGone(d) PROVE ProfileInv'
    BY <2>18 DEF OtherDeviceGone, callVars, cacheVars
  <2>9. CASE SetManaged
    BY <2>9 DEF SetManaged, GoTo, Fail, cacheVars
  <2>10. CASE ActivateConnection
    BY <2>10 DEF ActivateConnection, Fail, cacheVars
  <2>11. CASE OtherAdds
    BY <2>11 DEF OtherAdds, OtherProfile, With, callVars, cacheVars
  <2>12. ASSUME NEW p \in Paths, OtherDeletes(p) PROVE ProfileInv'
    BY <2>12 DEF OtherDeletes, callVars, cacheVars
  <2>13. CASE DeviceGone
    BY <2>13 DEF DeviceGone, callVars, cacheVars
  <2>14. CASE DeviceBack
    BY <2>14 DEF DeviceBack, callVars, cacheVars
  <2>15. CASE UNCHANGED vars
    BY <2>15 DEF vars, nmVars, cacheVars
  <2> QED
    BY <2>1, <2>2, <2>3, <2>4, <2>5, <2>6, <2>7, <2>8, <2>9, <2>10, <2>11, <2>12, <2>13,
       <2>14, <2>15, <2>16, <2>17, <2>18 DEF Next, ClientStep, Others
<1> QED
  BY <1>1, <1>2, TypeInvariant, PTL DEF Spec

(* What is active is the client's profile, with the address it is for.     *)
LEMMA ActiveInvariant == Spec => []ActiveInv
<1> USE XmDbusAssumption DEF Paths, Known, Mine, devVars, lists
<1>1. Init => ActiveInv
  BY DEF Init, ActiveInv
<1>2. TypeInv /\ TypeInv' /\ ProfileInv /\ ActiveInv /\ [Next]_vars => ActiveInv'
  <2> SUFFICES ASSUME TypeInv, TypeInv', ProfileInv, ActiveInv, [Next]_vars PROVE ActiveInv'
    OBVIOUS
  <2> USE DEF TypeInv, TypeOK, ProfileInv, PathInv, OneProfile, ScanInv, FreshInv, ActiveInv
  <2>1. ASSUME NEW a \in Addresses, NEW fresh \in BOOLEAN, Setup(a, fresh) PROVE ActiveInv'
    BY <2>1 DEF Setup, GoTo, nmVars, cacheVars
  <2>2. ASSUME NEW p \in Paths, Scan(p) PROVE ActiveInv'
    BY <2>2 DEF Scan, GoTo, Fail, nmVars
  <2>3. CASE Scanned
    BY <2>3 DEF Scanned, GoTo, nmVars, cacheVars
  <2>4. CASE ReadSettings
    BY <2>4 DEF ReadSettings, GoTo, Fail, nmVars, cacheVars
  <2>5. CASE Update
    <3>1. CASE connection_path \in Known
      <4>1. connection_path \in Mine /\ active # None => active.path = connection_path
        BY <3>1
      <4>2. /\ Known' = Known
            /\ profiles'[connection_path].id = "xmm7360"
            /\ profiles'[connection_path].addresses = None
        <5>1. config \in Profiles /\ config.id = "xmm7360"
          BY <2>5 DEF Update
        <5> QED
          BY <2>5, <3>1, <5>1, UpdateIs
      <4> QED
        BY <2>5, <3>1, <4>1, <4>2 DEF Update, GoTo, cacheVars
    <3>2. CASE connection_path \notin Known
      BY <2>5, <3>2 DEF Update, Fail, cacheVars
    <3> QED
      BY <3>1, <3>2
  <2>6. CASE Add
    BY <2>6 DEF Add, GoTo, With, cacheVars
  <2>7. CASE Relist
    BY <2>7 DEF Relist, GoTo, nmVars, cacheVars
  <2>8. CASE GetDevices
    BY <2>8 DEF GetDevices, GoTo, nmVars, cacheVars
  <2>16. ASSUME NEW d \in 1 .. MaxDevice \cup OtherDevices, GetAll(d) PROVE ActiveInv'
    BY <2>16 DEF GetAll, GoTo, Fail, nmVars
  <2>17. CASE NotFound
    BY <2>17 DEF NotFound, GoTo, Fail, nmVars, cacheVars
  <2>18. ASSUME NEW d \in OtherDevices, OtherDeviceGone(d) PROVE ActiveInv'
    BY <2>18 DEF OtherDeviceGone, callVars, cacheVars
  <2>9. CASE SetManaged
    BY <2>9 DEF SetManaged, GoTo, Fail, cacheVars
  <2>10. CASE ActivateConnection
    BY <2>10 DEF ActivateConnection, Fail, cacheVars
  <2>11. CASE OtherAdds
    BY <2>11 DEF OtherAdds, OtherProfile, With, callVars, cacheVars
  <2>12. ASSUME NEW p \in Paths, OtherDeletes(p) PROVE ActiveInv'
    BY <2>12 DEF OtherDeletes, callVars, cacheVars
  <2>13. CASE DeviceGone
    BY <2>13 DEF DeviceGone, callVars, cacheVars
  <2>14. CASE DeviceBack
    BY <2>14 DEF DeviceBack, callVars, cacheVars
  <2>15. CASE UNCHANGED vars
    BY <2>15 DEF vars, nmVars, cacheVars
  <2> QED
    BY <2>1, <2>2, <2>3, <2>4, <2>5, <2>6, <2>7, <2>8, <2>9, <2>10, <2>11, <2>12, <2>13,
       <2>14, <2>15, <2>16, <2>17, <2>18 DEF Next, ClientStep, Others
<1> QED
  BY <1>1, <1>2, TypeInvariant, ProfileInvariant, PTL DEF Spec

(* Types, and the arguments of every D-Bus call, for every bound.          *)
THEOREM TypesHold == Spec => []TypeOK
<1>1. TypeInv => TypeOK
  BY DEF TypeInv
<1> QED
  BY <1>1, TypeInvariant, PTL

(* setup_network_manager never leaves two profiles called xmm7360, however *)
(* often it runs and is interrupted by deleted profiles.                   *)
THEOREM ProfileIsUnique == Spec => []OneProfile
<1>1. ProfileInv => OneProfile
  BY DEF ProfileInv
<1> QED
  BY <1>1, ProfileInvariant, PTL

(* The profile that is active has no address in the key of older versions, *)
(* and after a call that returned it has that call's address, until the    *)
(* next update; a call that raised may have left it another one.           *)
THEOREM ActiveProfileIsCurrent == Spec => []ActiveIsCurrent
<1>1. ActiveInv => ActiveIsCurrent
  BY DEF ActiveInv, ActiveIsCurrent
<1> QED
  BY <1>1, ActiveInvariant, PTL

=============================================================================
