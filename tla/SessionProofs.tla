--------------------------- MODULE SessionProofs ---------------------------
(***************************************************************************)
(* Proofs about Session, for every set of addresses and every number of    *)
(* starts of the unit.                                                     *)
(***************************************************************************)
EXTENDS Session, TLAPS

(* The configurations of the host.                                         *)
Nets == [link : BOOLEAN, addr : SUBSET IPs, routes : SUBSET {"metric", "main", "table"},
         rules : SUBSET IPs, notrack : SUBSET {"PREROUTING", "OUTPUT"}, dns : BOOLEAN]

(* The commands of the RPC client, by their place.                         *)
LEMMA PyCommands ==
  /\ Len(PyScript) = 5
  /\ PyScript[1] = "link_up" /\ PyScript[2] = "addr_flush" /\ PyScript[3] = "main_flush"
  /\ PyScript[4] = "addr_add" /\ PyScript[5] = "metric_add"
  BY DEF PyScript

(* Those of xmm7360-up.sh.                                                 *)
LEMMA UpCommands ==
  /\ Len(UpScript) = 10
  /\ UpScript[1] = "addr_flush" /\ UpScript[2] = "addr_add" /\ UpScript[3] = "link_up"
  /\ UpScript[4] = "notrack_in" /\ UpScript[5] = "notrack_out"
  /\ UpScript[6] = "table_flush" /\ UpScript[7] = "table_add"
  /\ UpScript[8] = "rule_del" /\ UpScript[9] = "rule_add" /\ UpScript[10] = "main_add"
  BY DEF UpScript

(* Those of xmm7360-down.sh.                                               *)
LEMMA DownCommands ==
  /\ Len(DownScript) = 7
  /\ DownScript[1] = "rules_del" /\ DownScript[2] = "table_flush"
  /\ DownScript[3] = "untrack_in" /\ DownScript[4] = "untrack_out"
  /\ DownScript[5] = "addr_flush" /\ DownScript[6] = "main_del" /\ DownScript[7] = "link_down"
  BY DEF DownScript

(* A configuration, by its fields except dns.                              *)
Config(n, link, addr, routes, rules, notrack) ==
  /\ n \in Nets
  /\ n.link = link /\ n.addr = addr /\ n.routes = routes
  /\ n.rules = rules /\ n.notrack = notrack

(* What the commands of open_xdatachannel.py leave.                        *)
LEMMA PyEffects ==
  ASSUME NEW n \in Nets, NEW ip \in IPs
  PROVE  /\ Config(Effect("link_up", ip, n), TRUE, n.addr, n.routes, n.rules, n.notrack)
         /\ Config(Effect("addr_flush", ip, n),
                   n.link, {}, IF n.addr = {} THEN n.routes ELSE {}, n.rules, n.notrack)
         /\ Config(Effect("main_flush", ip, n),
                   n.link, n.addr, n.routes \ {"metric", "main"}, n.rules, n.notrack)
         /\ Config(Effect("addr_add", ip, n),
                   n.link, n.addr \cup {ip}, n.routes, n.rules, n.notrack)
         /\ Config(Effect("metric_add", ip, n),
                   n.link, n.addr, IF n.link THEN n.routes \cup {"metric"} ELSE n.routes, n.rules, n.notrack)
  BY DEF Nets, Config, Effect, RouteAdd

(* What the further commands of xmm7360-up.sh leave.                       *)
LEMMA UpEffects ==
  ASSUME NEW n \in Nets, NEW ip \in IPs
  PROVE  /\ Config(Effect("notrack_in", ip, n),
                   n.link, n.addr, n.routes, n.rules, n.notrack \cup {"PREROUTING"})
         /\ Config(Effect("notrack_out", ip, n),
                   n.link, n.addr, n.routes, n.rules, n.notrack \cup {"OUTPUT"})
         /\ Config(Effect("table_flush", ip, n),
                   n.link, n.addr, n.routes \ {"table"}, n.rules, n.notrack)
         /\ Config(Effect("table_add", ip, n),
                   n.link, n.addr, IF n.link THEN n.routes \cup {"table"} ELSE n.routes, n.rules, n.notrack)
         /\ Config(Effect("rule_del", ip, n),
                   n.link, n.addr, n.routes, n.rules \ {ip}, n.notrack)
         /\ Config(Effect("rule_add", ip, n),
                   n.link, n.addr, n.routes, n.rules \cup {ip}, n.notrack)
         /\ Config(Effect("main_add", ip, n),
                   n.link, n.addr, IF n.link THEN n.routes \cup {"main"} ELSE n.routes, n.rules, n.notrack)
  BY DEF Nets, Config, Effect, RouteAdd

(* What the commands of xmm7360-down.sh leave.                             *)
LEMMA DownEffects ==
  ASSUME NEW n \in Nets
  PROVE  /\ Config(Effect("rules_del", NoIp, n), n.link, n.addr, n.routes, {}, n.notrack)
         /\ Config(Effect("table_flush", NoIp, n),
                   n.link, n.addr, n.routes \ {"table"}, n.rules, n.notrack)
         /\ Config(Effect("untrack_in", NoIp, n),
                   n.link, n.addr, n.routes, n.rules, n.notrack \ {"PREROUTING"})
         /\ Config(Effect("untrack_out", NoIp, n),
                   n.link, n.addr, n.routes, n.rules, n.notrack \ {"OUTPUT"})
         /\ Config(Effect("addr_flush", NoIp, n),
                   n.link, {}, IF n.addr = {} THEN n.routes ELSE {}, n.rules, n.notrack)
         /\ Config(Effect("main_del", NoIp, n),
                   n.link, n.addr, n.routes \ {IF "metric" \in n.routes THEN "metric" ELSE "main"}, n.rules, n.notrack)
         /\ Config(Effect("link_down", NoIp, n), FALSE, n.addr, {}, n.rules, n.notrack)
  BY DEF Nets, Config, Effect, RouteAdd

(* Anything done to the DNS servers leaves the rest as it is.              *)
LEMMA DnsOnly ==
  ASSUME NEW n \in Nets, NEW b \in BOOLEAN
  PROVE  /\ Config([n EXCEPT !.dns = TRUE], n.link, n.addr, n.routes, n.rules, n.notrack)
         /\ Config([n EXCEPT !.dns = @ /\ ~b], n.link, n.addr, n.routes, n.rules, n.notrack)
  BY DEF Nets, Config

-----------------------------------------------------------------------------
(* Types: of the positions, of the flags, of the configuration.  A script  *)
(* that configures has an address to configure, and xmm7360-down.sh is at  *)
(* one of its commands while the unit is stopping.                         *)
SystemdTypes ==
  /\ unit \in {"inactive", "running", "stopping", "killing", "failing"}
  /\ starts \in 0 .. MaxStarts
  /\ dstep \in 0 .. 7 /\ (unit = "stopping" => dstep # 0)
  /\ flushed \subseteq {"metric", "main", "table"}

UpTypes ==
  /\ upc \in {"off", "prepare", "spawn", "poll", "giveup", "config", "hold", "check",
              "park", "cleanup"}
  /\ ustep \in 1 .. 10 /\ my_ip \in IPs \cup {NoIp} /\ (upc = "config" => my_ip \in IPs)

PyTypes ==
  /\ ppc \in {"off", "rpc", "config", "dns", "flag", "connect", "hold"}
  /\ pstep \in 1 .. 5 /\ py_ip \in IPs \cup {NoIp} /\ (ppc = "config" => py_ip \in IPs)

FlagTypes ==
  /\ fresh \in BOOLEAN /\ up_rc \in BOOLEAN /\ pidfile \in BOOLEAN
  /\ dns_applied \in BOOLEAN /\ py_rc \in BOOLEAN

TypeInv ==
  /\ SystemdTypes /\ UpTypes /\ PyTypes /\ FlagTypes
  /\ term \subseteq {"up", "py"} /\ net \in Nets

(* How far a fresh session is: nothing before the RPC client runs; while   *)
(* xmm7360-up.sh polls, the address of the RPC client and no other, put    *)
(* there by its last command but one; then what the commands of            *)
(* xmm7360-up.sh that are done have left.                                  *)
Done(k) == upc = "hold" \/ ustep > k

LastPyCommand == ppc # "rpc" /\ (ppc = "config" => pstep = 5)

Polling ==
  /\ net.rules = {}
  /\ net.addr # {} => net.addr = {py_ip} /\ net.link /\ LastPyCommand
  /\ ppc = "config" /\ pstep > 1 => net.link

Configuring ==
  /\ net.link /\ my_ip = py_ip /\ LastPyCommand
  /\ net.addr = IF upc = "config" /\ ustep = 2 THEN {} ELSE {py_ip}
  /\ Done(4) => "PREROUTING" \in net.notrack
  /\ Done(5) => "OUTPUT" \in net.notrack
  /\ net.rules = IF Done(9) THEN {py_ip} ELSE {}
  /\ Done(7) => "table" \in net.routes
  /\ upc = "hold" => "main" \in net.routes

HoldInv ==
  /\ unit = "inactive" => AllGone
  /\ fresh /\ unit = "running" =>
       /\ upc \in {"prepare", "spawn"} => Clean(net) /\ ppc = "off"
       /\ upc = "poll" => Polling
       /\ upc \in {"config", "hold"} => Configuring

(* The default route of the RPC client in a fresh session: not there       *)
(* before its last command, there after it if it was asked for, unless     *)
(* xmm7360-up.sh has flushed it.                                           *)
Flushed == upc \in {"config", "hold"} /\ Done(1) /\ "metric" \in flushed

ClientRoute ==
  /\ ppc \in {"rpc", "config"} => "metric" \notin net.routes /\ ~Flushed
  /\ ppc \in {"dns", "flag", "connect", "hold"} =>
       ("metric" \in net.routes <=> ~NoDefaultRoute /\ ~Flushed)

RouteInv ==
  fresh /\ unit = "running" /\ upc \in {"poll", "config", "hold"} => ClientRoute

(* How far a stop is.  No process configures any more: the RPC client      *)
(* holds its session or is gone, and so is xmm7360-up.sh, which exits with *)
(* 0, and parks, only when the RPC client is gone.  What the commands of   *)
(* xmm7360-down.sh that are done have removed stays removed.               *)
TornDown ==
  /\ dstep > 1 => net.rules = {}
  /\ dstep > 3 => "PREROUTING" \notin net.notrack
  /\ dstep > 4 => "OUTPUT" \notin net.notrack
  /\ dstep > 5 => net.addr = {}

StopInv ==
  /\ upc \in {"check", "park"} => ppc = "off"
  /\ unit = "running" /\ upc = "off" /\ up_rc => ppc = "off"
  /\ unit \in {"stopping", "killing"} =>
       ppc \in {"off", "hold"} /\ upc \in {"off", "hold", "check", "park", "cleanup"}
  /\ unit = "stopping" => TornDown
  /\ unit \in {"killing", "inactive"} => Clean(net) /\ ~net.link
  /\ unit = "inactive" => AllGone

-----------------------------------------------------------------------------
(* A command of one of the scripts leaves a configuration.                 *)
LEMMA ScriptsKeepNet ==
  ASSUME NEW n \in Nets
  PROVE  /\ \A ip \in IPs, k \in 1 .. 5 : Effect(PyScript[k], ip, n) \in Nets
         /\ \A ip \in IPs, k \in 1 .. 10 : Effect(UpScript[k], ip, n) \in Nets
         /\ \A k \in 1 .. 7 : Effect(DownScript[k], NoIp, n) \in Nets
<1>1. ASSUME NEW ip \in IPs, NEW k \in 1 .. 5 PROVE Effect(PyScript[k], ip, n) \in Nets
  <2>1. \A c \in {"link_up", "addr_flush", "main_flush", "addr_add", "metric_add"} :
          Effect(c, ip, n) \in Nets
    BY PyEffects DEF Config
  <2> QED
    BY <2>1, PyCommands
<1>2. ASSUME NEW ip \in IPs, NEW k \in 1 .. 10 PROVE Effect(UpScript[k], ip, n) \in Nets
  <2>1. \A c \in {"link_up", "addr_flush", "addr_add"} : Effect(c, ip, n) \in Nets
    BY PyEffects DEF Config
  <2>2. \A c \in {"notrack_in", "notrack_out", "table_flush", "table_add", "rule_del",
                  "rule_add", "main_add"} : Effect(c, ip, n) \in Nets
    BY UpEffects DEF Config
  <2> QED
    BY <2>1, <2>2, UpCommands
<1>3. ASSUME NEW k \in 1 .. 7 PROVE Effect(DownScript[k], NoIp, n) \in Nets
  <2>1. \A c \in {"rules_del", "table_flush", "untrack_in", "untrack_out", "addr_flush",
                  "main_del", "link_down"} : Effect(c, NoIp, n) \in Nets
    BY DownEffects DEF Config
  <2> QED
    BY <2>1, DownCommands
<1> QED
  BY <1>1, <1>2, <1>3

(* The types hold at the start, on a host without configuration.           *)
LEMMA TypeInit == Init => TypeInv
<1> SUFFICES ASSUME Init PROVE TypeInv
  OBVIOUS
<1>1. SystemdTypes /\ UpTypes /\ PyTypes /\ term \subseteq {"up", "py"}
  BY SessionAssumption DEF Init, SystemdTypes, UpTypes, PyTypes
<1>2. FlagTypes
  BY Zenon DEF Init, FlagTypes
<1>3. net \in Nets
  BY DEF Init, Nets
<1> QED
  BY <1>1, <1>2, <1>3 DEF TypeInv

(* Every step keeps the types.                                             *)
LEMMA TypeStep == TypeInv /\ [Next]_vars => TypeInv'
<1> SUFFICES ASSUME TypeInv, [Next]_vars PROVE TypeInv'
  OBVIOUS
<1>t. SystemdTypes /\ UpTypes /\ PyTypes /\ FlagTypes /\ term \subseteq {"up", "py"} /\ net \in Nets
  BY DEF TypeInv
<1> USE DEF upVars, pyVars, sdVars
<1>1. CASE PyNext
  <2> USE DEF PyNext, PyNoDevice, PyAttach, PyConfig, PyDns, PyFlag, PyConnect,
              PyFail, PyTerm, PyExit
  <2>1. SystemdTypes' /\ UpTypes' /\ term' \subseteq {"up", "py"}
    BY <1>t, <1>1 DEF SystemdTypes, UpTypes
  <2>2. PyTypes'
    BY <1>t, <1>1, PyCommands DEF PyTypes
  <2>3. FlagTypes'
    BY <1>t, <1>1, Zenon DEF FlagTypes
  <2>4. net' \in Nets
    <3>1. CASE PyConfig
      BY <1>t, <3>1, ScriptsKeepNet DEF PyTypes
    <3>2. ASSUME NEW ok, PyExit(ok) PROVE net' \in Nets
      BY <1>t, <3>2, DnsOnly DEF Config, FlagTypes
    <3>3. CASE PyDns
      BY <1>t, <3>3, DnsOnly DEF Config
    <3>4. CASE (\E ip \in IPs : PyAttach(ip)) \/ PyFlag \/ PyConnect
      BY <1>t, <3>4
    <3> QED
      BY <1>1, <3>1, <3>2, <3>3, <3>4
  <2> QED
    BY <2>1, <2>2, <2>3, <2>4 DEF TypeInv
<1>2. CASE UpNext
  <2> USE DEF UpNext, UpPrepare, UpSpawn, UpPoll, UpPollDead, UpPollTimeout,
              UpGiveUp, UpConfig, UpWaited, UpCheck, UpTrap, UpCleanup, UpExit
  <2>1. SystemdTypes'
    <3>1. net.routes \subseteq {"metric", "main", "table"}
      BY <1>t DEF Nets
    <3> QED
      BY <1>t, <1>2, <3>1 DEF SystemdTypes
  <2>2. UpTypes'
    <3>1. net.addr \subseteq IPs
      BY <1>t DEF Nets
    <3> QED
      BY <1>t, <1>2, <3>1, UpCommands DEF UpTypes
  <2>3. PyTypes'
    BY <1>t, <1>2 DEF PyTypes
  <2>4. FlagTypes'
    BY <1>t, <1>2, Zenon DEF FlagTypes
  <2>5. term' \subseteq {"up", "py"}
    BY <1>t, <1>2 DEF KillPy
  <2>6. net' \in Nets
    <3>1. CASE UpConfig
      BY <1>t, <3>1, ScriptsKeepNet DEF UpTypes
    <3> QED
      BY <1>t, <1>2, <3>1
  <2> QED
    BY <2>1, <2>2, <2>3, <2>4, <2>5, <2>6 DEF TypeInv
<1>3. CASE SystemdNext
  <2> USE DEF SystemdNext, Start, Stop, MainExited0, MainFailed, DownStep, Stopped,
              Restart, BeginSession, RunExecStop
  <2>1. SystemdTypes'
    <3>1. UNCHANGED flushed
      BY <1>3
    <3>2. /\ unit' \in {"inactive", "running", "stopping", "killing", "failing"}
          /\ starts' \in 0 .. MaxStarts
          /\ dstep' \in 0 .. 7 /\ (unit' = "stopping" => dstep' # 0)
      BY <1>t, <1>3, DownCommands, SessionAssumption DEF SystemdTypes
    <3> QED
      BY <1>t, <3>1, <3>2 DEF SystemdTypes
  <2>2. UpTypes' /\ PyTypes'
    BY <1>t, <1>3 DEF UpTypes, PyTypes
  <2>3. FlagTypes'
    BY <1>t, <1>3, Zenon DEF FlagTypes, Clean
  <2>4. term' \subseteq {"up", "py"}
    BY <1>t, <1>3 DEF KillPy
  <2>5. net' \in Nets
    <3>1. CASE DownStep
      <4>1. dstep \in 1 .. 7
        BY <1>t, <3>1 DEF SystemdTypes
      <4> QED
        BY <1>t, <3>1, <4>1, ScriptsKeepNet
    <3> QED
      BY <1>t, <1>3, <3>1
  <2> QED
    BY <2>1, <2>2, <2>3, <2>4, <2>5 DEF TypeInv
<1>4. CASE UNCHANGED vars
  <2>1. SystemdTypes' /\ UpTypes' /\ PyTypes' /\ term' \subseteq {"up", "py"} /\ net' \in Nets
    BY <1>t, <1>4 DEF SystemdTypes, UpTypes, PyTypes, vars
  <2>2. FlagTypes'
    BY <1>t, <1>4, Zenon DEF FlagTypes, vars
  <2> QED
    BY <2>1, <2>2 DEF TypeInv
<1> QED
  BY <1>1, <1>2, <1>3, <1>4 DEF Next

-----------------------------------------------------------------------------
(* No session runs at the start.                                           *)
LEMMA HoldInit == Init => HoldInv
  BY DEF Init, HoldInv, AllGone

(* A step of the RPC client other than its ip commands leaves the          *)
(* configuration as it is, its DNS servers apart.                          *)
LEMMA PyLeavesNet ==
  ASSUME TypeInv, PyNext, ~PyConfig
  PROVE  Config(net', net.link, net.addr, net.routes, net.rules, net.notrack)
<1>1. net \in Nets /\ dns_applied \in BOOLEAN
  BY DEF TypeInv, FlagTypes
<1>2. ASSUME NEW ok, PyExit(ok)
      PROVE  Config(net', net.link, net.addr, net.routes, net.rules, net.notrack)
  BY <1>1, <1>2, DnsOnly DEF PyExit
<1>3. CASE UNCHANGED net
  BY <1>1, <1>3 DEF Config
<1>4. CASE PyDns
  BY <1>1, <1>3, <1>4, DnsOnly DEF PyDns
<1> QED
  BY <1>2, <1>3, <1>4
     DEF PyNext, PyNoDevice, PyAttach, PyFlag, PyConnect, PyFail, PyTerm

(* The ip commands of the RPC client, seen from a fresh session.           *)
LEMMA PyConfigures ==
  ASSUME TypeInv, HoldInv, PyConfig, fresh, unit = "running"
  PROVE  /\ upc = "poll" => Polling'
         /\ upc \in {"config", "hold"} => Configuring'
<1>t. net \in Nets /\ py_ip \in IPs /\ pstep \in 1 .. 5
  BY DEF TypeInv, PyTypes, PyConfig
<1>u. UNCHANGED <<upVars, py_ip>>
  BY DEF PyConfig, upVars
<1>1. CASE pstep \in 1 .. 4
  <2>0. ppc' = "config" /\ pstep' = pstep + 1 /\ net' = Effect(PyScript[pstep], py_ip, net)
    BY <1>1, PyCommands DEF PyConfig
  <2>1. upc \notin {"config", "hold"}
    BY <1>1 DEF HoldInv, Configuring, LastPyCommand, PyConfig
  <2>2. ASSUME upc = "poll" PROVE Polling'
    <3>1. /\ net.rules = {} /\ net.addr = {}
          /\ pstep > 1 => net.link
      BY <1>1, <2>2 DEF HoldInv, Polling, LastPyCommand, PyConfig
    <3>2. CASE pstep = 1
      <4>1. Config(net', TRUE, net.addr, net.routes, net.rules, net.notrack)
        BY <1>t, <2>0, <3>1, <3>2, PyCommands, PyEffects
      <4> QED
        BY <1>u, <2>0, <3>1, <3>2, <4>1 DEF Polling, Config, LastPyCommand
    <3>3. CASE pstep = 2
      <4>1. Config(net', net.link, {}, net.routes, net.rules, net.notrack)
        BY <1>t, <2>0, <3>1, <3>3, PyCommands, PyEffects
      <4> QED
        BY <1>u, <2>0, <3>1, <3>3, <4>1 DEF Polling, Config, LastPyCommand
    <3>4. CASE pstep = 3
      <4>1. Config(net', net.link, net.addr, net.routes \ {"metric", "main"}, net.rules, net.notrack)
        BY <1>t, <2>0, <3>1, <3>4, PyCommands, PyEffects
      <4> QED
        BY <1>u, <2>0, <3>1, <3>4, <4>1 DEF Polling, Config, LastPyCommand
    <3>5. CASE pstep = 4
      <4>1. Config(net', net.link, net.addr \cup {py_ip}, net.routes, net.rules, net.notrack)
        BY <1>t, <2>0, <3>1, <3>5, PyCommands, PyEffects
      <4> QED
        BY <1>u, <2>0, <3>1, <3>5, <4>1 DEF Polling, Config, LastPyCommand
    <3> QED
      BY <1>1, <3>2, <3>3, <3>4, <3>5
  <2> QED
    BY <2>1, <2>2
<1>2. CASE pstep = 5
  <2>1. ppc' = "dns" /\ pstep' = pstep
    BY <1>2, PyCommands DEF PyConfig
  <2>2. \E routes : /\ Config(net', net.link, net.addr, routes, net.rules, net.notrack)
                    /\ net.routes \subseteq routes
    <3>1. CASE UNCHANGED net
      BY <1>t, <3>1 DEF Config
    <3>2. CASE net' = Effect("metric_add", py_ip, net)
      <4>1. Config(net', net.link, net.addr,
                   IF net.link THEN net.routes \cup {"metric"} ELSE net.routes,
                   net.rules, net.notrack)
        BY <1>t, <3>2, PyEffects
      <4> QED
        BY <4>1
    <3> QED
      BY <1>2, <3>1, <3>2, PyCommands DEF PyConfig
  <2>3. upc = "poll" => Polling'
    BY <2>1, <2>2, <1>u DEF HoldInv, Polling, LastPyCommand, Config
  <2>4. upc \in {"config", "hold"} => Configuring'
    BY <2>1, <2>2, <1>u DEF HoldInv, Configuring, LastPyCommand, Config, Done, upVars
  <2> QED
    BY <2>3, <2>4
<1> QED
  BY <1>t, <1>1, <1>2

(* The commands of xmm7360-up.sh, seen from a fresh session.               *)
LEMMA UpConfigures ==
  ASSUME TypeInv, HoldInv, UpConfig, fresh, unit = "running"
  PROVE  Configuring'
<1>t. net \in Nets /\ my_ip \in IPs /\ ustep \in 1 .. 10
  BY DEF TypeInv, UpTypes, UpConfig
<1>c. upc = "config" /\ Configuring
  BY DEF UpConfig, HoldInv
<1>u. /\ UNCHANGED <<ppc, pstep, py_ip, my_ip>>
      /\ net' = Effect(UpScript[ustep], my_ip, net)
      /\ ustep < 10 => ustep' = ustep + 1 /\ upc' = "config"
      /\ ustep = 10 => ustep' = 10 /\ upc' = "hold"
  BY <1>t, <1>c, UpCommands DEF UpConfig, pyVars
<1>s. SUFFICES /\ net'.link /\ net'.addr = IF ustep = 1 THEN {} ELSE {py_ip}
               /\ net'.rules = IF ustep >= 9 THEN {py_ip} ELSE {}
               /\ ustep >= 4 => "PREROUTING" \in net'.notrack
               /\ ustep >= 5 => "OUTPUT" \in net'.notrack
               /\ ustep >= 7 => "table" \in net'.routes
               /\ ustep >= 10 => "main" \in net'.routes
  BY <1>t, <1>c, <1>u DEF Configuring, LastPyCommand, Done
<1>1. CASE ustep = 1
  <2>1. Config(net', net.link, {}, IF net.addr = {} THEN net.routes ELSE {}, net.rules, net.notrack)
    BY <1>t, <1>u, <1>1, UpCommands, PyEffects
  <2> QED
    BY <1>c, <1>1, <2>1 DEF Configuring, Config, Done
<1>2. CASE ustep = 2
  <2>1. Config(net', net.link, net.addr \cup {my_ip}, net.routes, net.rules, net.notrack)
    BY <1>t, <1>u, <1>2, UpCommands, PyEffects
  <2> QED
    BY <1>c, <1>2, <2>1 DEF Configuring, Config, Done
<1>3. CASE ustep = 3
  <2>1. Config(net', TRUE, net.addr, net.routes, net.rules, net.notrack)
    BY <1>t, <1>u, <1>3, UpCommands, PyEffects
  <2> QED
    BY <1>c, <1>3, <2>1 DEF Configuring, Config, Done
<1>4. CASE ustep = 4
  <2>1. Config(net', net.link, net.addr, net.routes, net.rules, net.notrack \cup {"PREROUTING"})
    BY <1>t, <1>u, <1>4, UpCommands, UpEffects
  <2> QED
    BY <1>c, <1>4, <2>1 DEF Configuring, Config, Done
<1>5. CASE ustep = 5
  <2>1. Config(net', net.link, net.addr, net.routes, net.rules, net.notrack \cup {"OUTPUT"})
    BY <1>t, <1>u, <1>5, UpCommands, UpEffects
  <2> QED
    BY <1>c, <1>5, <2>1 DEF Configuring, Config, Done
<1>6. CASE ustep = 6
  <2>1. Config(net', net.link, net.addr, net.routes \ {"table"}, net.rules, net.notrack)
    BY <1>t, <1>u, <1>6, UpCommands, UpEffects
  <2> QED
    BY <1>c, <1>6, <2>1 DEF Configuring, Config, Done
<1>7. CASE ustep = 7
  <2>1. Config(net', net.link, net.addr, IF net.link THEN net.routes \cup {"table"} ELSE net.routes,
                 net.rules, net.notrack)
    BY <1>t, <1>u, <1>7, UpCommands, UpEffects
  <2> QED
    BY <1>c, <1>7, <2>1 DEF Configuring, Config, Done
<1>8. CASE ustep = 8
  <2>1. Config(net', net.link, net.addr, net.routes, net.rules \ {my_ip}, net.notrack)
    BY <1>t, <1>u, <1>8, UpCommands, UpEffects
  <2> QED
    BY <1>c, <1>8, <2>1 DEF Configuring, Config, Done
<1>9. CASE ustep = 9
  <2>1. Config(net', net.link, net.addr, net.routes, net.rules \cup {my_ip}, net.notrack)
    BY <1>t, <1>u, <1>9, UpCommands, UpEffects
  <2> QED
    BY <1>c, <1>9, <2>1 DEF Configuring, Config, Done
<1>10. CASE ustep = 10
  <2>1. Config(net', net.link, net.addr, IF net.link THEN net.routes \cup {"main"} ELSE net.routes,
                 net.rules, net.notrack)
    BY <1>t, <1>u, <1>10, UpCommands, UpEffects
  <2> QED
    BY <1>c, <1>10, <2>1 DEF Configuring, Config, Done
<1> QED
  BY <1>t, <1>1, <1>2, <1>3, <1>4, <1>5, <1>6, <1>7, <1>8, <1>9, <1>10

(* Every step keeps HoldInv.                                               *)
LEMMA HoldStep == TypeInv /\ HoldInv /\ [Next]_vars => HoldInv'
<1> SUFFICES ASSUME TypeInv, HoldInv, [Next]_vars PROVE HoldInv'
  OBVIOUS
<1>1. CASE PyConfig
  <2>1. UNCHANGED <<unit, upc, fresh>> /\ ppc # "off" /\ unit # "inactive"
    BY <1>1 DEF PyConfig, upVars, sdVars, HoldInv, AllGone
  <2>2. fresh /\ unit = "running" => upc \notin {"prepare", "spawn"}
    BY <2>1 DEF HoldInv
  <2> QED
    BY <1>1, <2>1, <2>2, PyConfigures DEF HoldInv
<1>2. CASE PyNext /\ ~PyConfig
  <2> USE DEF PyNext, PyNoDevice, PyAttach, PyDns, PyFlag, PyConnect, PyFail, PyTerm, PyExit
  <2>1. UNCHANGED <<unit, upc, ustep, my_ip, fresh>>
    BY <1>2 DEF upVars, sdVars
  <2>2. Config(net', net.link, net.addr, net.routes, net.rules, net.notrack)
    BY <1>2, PyLeavesNet
  (* The RPC client gets its address, or is past its commands as before.   *)
  <2>3. \/ ppc = "rpc" /\ ppc' = "config" /\ pstep' = 1
        \/ ppc' # "rpc" /\ ppc' # "config" /\ UNCHANGED py_ip /\ (ppc = "off" => ppc' = "off")
    BY <1>2
  <2>4. unit = "inactive" => AllGone'
    BY <2>1, <2>3 DEF HoldInv, AllGone
  <2>5. ASSUME fresh, unit = "running", upc \in {"prepare", "spawn"}
        PROVE  Clean(net)' /\ ppc' = "off"
    BY <2>2, <2>3, <2>5 DEF HoldInv, Clean, Config
  <2>6. ASSUME fresh, unit = "running", upc = "poll" PROVE Polling'
    BY <2>2, <2>3, <2>6 DEF HoldInv, Polling, LastPyCommand, Config
  <2>7. ASSUME fresh, unit = "running", upc \in {"config", "hold"} PROVE Configuring'
    BY <2>1, <2>2, <2>3, <2>7 DEF HoldInv, Configuring, LastPyCommand, Config, Done
  <2> QED
    BY <2>1, <2>4, <2>5, <2>6, <2>7 DEF HoldInv
<1>3. CASE UpConfig
  <2>1. UNCHANGED <<unit, fresh>> /\ upc' \in {"config", "hold"} /\ unit # "inactive"
    BY <1>3 DEF UpConfig, sdVars, HoldInv, AllGone
  <2> QED
    BY <1>3, <2>1, UpConfigures DEF HoldInv
(* It starts, finds the address, or leaves the bring-up; the configuration *)
(* is as before.                                                           *)
<1>4. CASE UpNext /\ ~UpConfig
  <2>u. UNCHANGED <<unit, fresh, net>> /\ (upc = "off" => upc' = "off" /\ ppc' = ppc)
    BY <1>4
       DEF UpNext, UpPrepare, UpSpawn, UpPoll, UpPollDead, UpPollTimeout, UpGiveUp,
           UpWaited, UpCheck, UpTrap, UpCleanup, UpExit, sdVars, pyVars
  <2>1. CASE UpPrepare
    BY <2>1, <2>u DEF UpPrepare, UpExit, pyVars, HoldInv, AllGone
  <2>2. CASE UpSpawn
    BY <2>2, <2>u DEF UpSpawn, HoldInv, AllGone, Polling, Clean
  <2>3. CASE UpPoll
    BY <2>3, <2>u DEF UpPoll, HoldInv, AllGone, Polling, Configuring, LastPyCommand, Done, pyVars
  <2>4. CASE UpPollDead \/ UpPollTimeout \/ UpGiveUp \/ UpWaited \/ UpCheck \/ UpTrap \/ UpCleanup
    <3>1. upc' \in {"off", "giveup", "check", "park", "cleanup"}
      BY <2>4
         DEF UpPollDead, UpPollTimeout, UpGiveUp, UpWaited, UpCheck, UpTrap, UpCleanup, UpExit
    <3> QED
      BY <2>u, <3>1 DEF HoldInv, AllGone
  <2> QED
    BY <1>4, <2>1, <2>2, <2>3, <2>4 DEF UpNext
<1>5. CASE Start \/ Restart
  <2>1. AllGone
    BY <1>5 DEF Start, Restart, HoldInv
  <2> QED
    BY <1>5, <2>1 DEF Start, Restart, BeginSession, HoldInv, AllGone, pyVars
<1>6. CASE Stop \/ MainExited0 \/ MainFailed \/ DownStep \/ Stopped
  <2>1. unit' # "running" /\ (unit' = "inactive" => AllGone')
    BY <1>6
       DEF Stop, MainExited0, RunExecStop, MainFailed, DownStep, Stopped, AllGone, HoldInv,
           upVars, pyVars
  <2> QED
    BY <2>1 DEF HoldInv
<1>7. CASE UNCHANGED vars
  BY <1>7
     DEF vars, upVars, pyVars, sdVars, HoldInv, AllGone, Polling, Configuring, LastPyCommand,
         Done, Clean
<1> QED
  BY <1>1, <1>2, <1>3, <1>4, <1>5, <1>6, <1>7 DEF Next, SystemdNext

-----------------------------------------------------------------------------
(* What the commands do to the RPC client's default route.                 *)
LEMMA RouteEffects ==
  ASSUME NEW n \in Nets, NEW ip \in IPs
  PROVE  /\ \A c \in {"link_up", "addr_add", "notrack_in", "notrack_out", "rule_del", "rule_add"} :
              Effect(c, ip, n).routes = n.routes
         /\ \A c \in {"table_flush", "table_add", "main_add"} :
              "metric" \in Effect(c, ip, n).routes <=> "metric" \in n.routes
         /\ "metric" \notin Effect("main_flush", ip, n).routes
         /\ Effect("addr_flush", ip, n).routes \subseteq n.routes
         /\ n.link => "metric" \in Effect("metric_add", ip, n).routes
<1>1. /\ Effect("link_up", ip, n).routes = n.routes /\ Effect("addr_add", ip, n).routes = n.routes
      /\ Effect("notrack_in", ip, n).routes = n.routes
      /\ Effect("notrack_out", ip, n).routes = n.routes
      /\ Effect("rule_del", ip, n).routes = n.routes /\ Effect("rule_add", ip, n).routes = n.routes
  BY DEF Nets, Effect
<1>2. /\ Effect("table_flush", ip, n).routes = n.routes \ {"table"}
      /\ Effect("main_flush", ip, n).routes = n.routes \ {"metric", "main"}
      /\ Effect("addr_flush", ip, n).routes = IF n.addr = {} THEN n.routes ELSE {}
  BY DEF Nets, Effect
<1>3. /\ Effect("table_add", ip, n).routes = IF n.link THEN n.routes \cup {"table"} ELSE n.routes
      /\ Effect("main_add", ip, n).routes = IF n.link THEN n.routes \cup {"main"} ELSE n.routes
      /\ Effect("metric_add", ip, n).routes =
           IF n.link THEN n.routes \cup {"metric"} ELSE n.routes
  BY DEF Nets, Effect, RouteAdd
<1> QED
  BY <1>1, <1>2, <1>3

(* The commands of the RPC client and its default route.                   *)
LEMMA PyRoutes ==
  ASSUME TypeInv, HoldInv, RouteInv, PyConfig, fresh, unit = "running",
         upc \in {"poll", "config", "hold"}
  PROVE  ClientRoute'
<1>t. net \in Nets /\ py_ip \in IPs /\ pstep \in 1 .. 5
  BY DEF TypeInv, PyTypes, PyConfig
<1>u. UNCHANGED <<upc, ustep, flushed>> /\ ppc = "config" /\ (Flushed' <=> Flushed)
  BY DEF PyConfig, upVars, sdVars, Flushed, Done
<1>r. "metric" \notin net.routes /\ ~Flushed
  BY <1>u DEF RouteInv, ClientRoute
<1>1. CASE pstep \in 1 .. 4
  <2>1. ppc' = "config" /\ net' = Effect(PyScript[pstep], py_ip, net)
    BY <1>1, PyCommands DEF PyConfig
  <2>2. ASSUME NEW c \in {"link_up", "addr_flush", "main_flush", "addr_add"}
        PROVE  "metric" \notin Effect(c, py_ip, net).routes
    BY <1>t, <1>r, <2>2, RouteEffects
  <2>3. PyScript[pstep] \in {"link_up", "addr_flush", "main_flush", "addr_add"}
    BY <1>1, PyCommands
  <2> QED
    BY <1>u, <1>r, <2>1, <2>2, <2>3 DEF ClientRoute
<1>2. CASE pstep = 5
  <2>1. ppc' = "dns" /\ PyScript[pstep] = "metric_add"
    BY <1>2, PyCommands DEF PyConfig
  <2>2. net.link
    BY <1>2, <1>u DEF HoldInv, Polling, Configuring
  <2>3. "metric" \in Effect("metric_add", py_ip, net).routes
    BY <1>t, <2>2, RouteEffects
  <2>4. "metric" \in net'.routes <=> ~NoDefaultRoute
    BY <1>r, <2>1, <2>3 DEF PyConfig
  <2> QED
    BY <1>u, <1>r, <2>1, <2>4 DEF ClientRoute
<1> QED
  BY <1>t, <1>1, <1>2

(* The commands of xmm7360-up.sh and that route: the first one drops it,   *)
(* the others leave it alone.                                              *)
LEMMA UpRoutes ==
  ASSUME TypeInv, HoldInv, RouteInv, UpConfig, fresh, unit = "running"
  PROVE  ClientRoute'
<1>t. net \in Nets /\ my_ip \in IPs /\ ustep \in 1 .. 10
  BY DEF TypeInv, UpTypes, UpConfig
<1>c. upc = "config" /\ Configuring /\ ClientRoute
  BY DEF UpConfig, HoldInv, RouteInv
<1>u. /\ UNCHANGED ppc
      /\ net' = Effect(UpScript[ustep], my_ip, net)
      /\ flushed' = IF ustep = 1 THEN net.routes ELSE flushed
      /\ ustep < 10 => ustep' = ustep + 1 /\ upc' = "config"
      /\ ustep = 10 => ustep' = 10 /\ upc' = "hold"
  BY <1>t, <1>c, UpCommands DEF UpConfig, pyVars
<1>1. CASE ustep = 1
  <2>1. net'.routes = {}
    <3>1. net.addr # {}
      BY <1>c, <1>1 DEF Configuring
    <3> QED
      BY <1>t, <1>u, <1>1, <3>1, UpCommands, PyEffects DEF Config
  <2>2. Flushed' <=> "metric" \in net.routes
    BY <1>u, <1>1 DEF Flushed, Done
  <2>3. ~Flushed
    BY <1>c, <1>1 DEF Flushed, Done
  <2> QED
    BY <1>c, <1>u, <2>1, <2>2, <2>3 DEF ClientRoute
<1>2. CASE ustep \in 2 .. 10
  <2>1. ASSUME NEW c \in {"addr_add", "link_up"}
        PROVE  Effect(c, my_ip, net).routes = net.routes
    BY <1>t, <2>1, RouteEffects
  <2>2. ASSUME NEW c \in {"notrack_in", "notrack_out", "table_flush", "table_add",
                          "rule_del", "rule_add", "main_add"}
        PROVE  "metric" \in Effect(c, my_ip, net).routes <=> "metric" \in net.routes
    BY <1>t, <2>2, RouteEffects
  <2>3. "metric" \in net'.routes <=> "metric" \in net.routes
    BY <1>u, <1>2, <2>1, <2>2, UpCommands
  <2>4. Flushed' <=> Flushed
    BY <1>c, <1>u, <1>t, <1>2 DEF Flushed, Done
  <2> QED
    BY <1>c, <1>u, <2>3, <2>4 DEF ClientRoute
<1> QED
  BY <1>t, <1>1, <1>2

(* Every step keeps RouteInv.                                              *)
LEMMA RouteStep == TypeInv /\ HoldInv /\ RouteInv /\ [Next]_vars => RouteInv'
<1> SUFFICES ASSUME TypeInv, HoldInv, RouteInv, [Next]_vars PROVE RouteInv'
  OBVIOUS
<1>1. CASE PyConfig
  <2>1. UNCHANGED <<unit, upc, fresh>>
    BY <1>1 DEF PyConfig, upVars, sdVars
  <2> QED
    BY <1>1, <2>1, PyRoutes DEF RouteInv
<1>2. CASE PyNext /\ ~PyConfig
  <2>1. UNCHANGED <<unit, upc, ustep, fresh, flushed>>
    BY <1>2
       DEF PyNext, PyNoDevice, PyAttach, PyDns, PyFlag, PyConnect, PyFail, PyTerm, PyExit,
           upVars, sdVars
  <2>2. net'.routes = net.routes
    BY <1>2, PyLeavesNet DEF Config
  <2>3. \/ ppc' = "off"
        \/ ppc = "rpc" /\ ppc' = "config"
        \/ /\ ppc \in {"dns", "flag", "connect", "hold"}
           /\ ppc' \in {"dns", "flag", "connect", "hold"}
    BY <1>2
       DEF PyNext, PyNoDevice, PyAttach, PyDns, PyFlag, PyConnect, PyFail, PyTerm, PyExit
  <2>4. Flushed' <=> Flushed
    BY <2>1 DEF Flushed, Done
  <2> QED
    BY <2>1, <2>2, <2>3, <2>4 DEF RouteInv, ClientRoute
<1>3. CASE UpConfig
  <2>1. UNCHANGED <<unit, fresh>>
    BY <1>3 DEF UpConfig
  <2> QED
    BY <1>3, <2>1, UpRoutes DEF RouteInv
<1>4. CASE UpNext /\ ~UpConfig
  <2>u. UNCHANGED <<unit, fresh, flushed, net>>
    BY <1>4
       DEF UpNext, UpPrepare, UpSpawn, UpPoll, UpPollDead, UpPollTimeout, UpGiveUp,
           UpWaited, UpCheck, UpTrap, UpCleanup, UpExit, sdVars
  <2>1. CASE UpSpawn
    BY <2>1, <2>u DEF UpSpawn, HoldInv, RouteInv, ClientRoute, Flushed, Clean
  <2>2. CASE UpPoll
    BY <2>2, <2>u DEF UpPoll, RouteInv, ClientRoute, Flushed, Done, pyVars
  <2>3. CASE ~UpSpawn /\ ~UpPoll
    <3>1. upc' \in {"off", "spawn", "giveup", "check", "park", "cleanup"}
      BY <1>4, <2>3
         DEF UpNext, UpPrepare, UpPollDead, UpPollTimeout, UpGiveUp, UpWaited, UpCheck,
             UpTrap, UpCleanup, UpExit
    <3> QED
      BY <3>1 DEF RouteInv
  <2> QED
    BY <2>1, <2>2, <2>3
<1>5. CASE SystemdNext
  <2>1. unit' # "running" \/ upc' = "prepare"
    BY <1>5
       DEF SystemdNext, Start, Restart, BeginSession, Stop, MainExited0, RunExecStop,
           MainFailed, DownStep, Stopped
  <2> QED
    BY <2>1 DEF RouteInv
<1>6. CASE UNCHANGED vars
  BY <1>6 DEF vars, upVars, pyVars, sdVars, RouteInv, ClientRoute, Flushed, Done
<1> QED
  BY <1>1, <1>2, <1>3, <1>4, <1>5, <1>6 DEF Next

-----------------------------------------------------------------------------
(* The host is clean at the start.                                         *)
LEMMA StopInit == Init => StopInv
  BY DEF Init, StopInv, AllGone, Clean

(* A command of xmm7360-down.sh: what was removed stays removed, and after *)
(* the last one nothing is left.                                           *)
LEMMA TearsDown ==
  ASSUME TypeInv, TornDown, DownStep
  PROVE  /\ dstep < 7 => unit' = "stopping" /\ TornDown'
         /\ dstep = 7 => unit' = "killing" /\ Clean(net)' /\ ~net.link'
<1>t. net \in Nets /\ dstep \in 1 .. 7 /\ net.notrack \subseteq {"PREROUTING", "OUTPUT"}
  BY DEF TypeInv, SystemdTypes, DownStep, Nets
<1>u. /\ net' = Effect(DownScript[dstep], NoIp, net)
      /\ dstep < 7 => dstep' = dstep + 1 /\ unit' = "stopping"
      /\ dstep = 7 => unit' = "killing"
  BY <1>t, DownCommands DEF DownStep
<1>1. CASE dstep = 1
  <2>1. Config(net', net.link, net.addr, net.routes, {}, net.notrack)
    BY <1>t, <1>u, <1>1, DownCommands, DownEffects
  <2> QED
    BY <1>u, <1>1, <2>1 DEF TornDown, Config
<1>2. CASE dstep = 2
  <2>1. Config(net', net.link, net.addr, net.routes \ {"table"}, net.rules, net.notrack)
    BY <1>t, <1>u, <1>2, DownCommands, DownEffects
  <2> QED
    BY <1>u, <1>2, <2>1 DEF TornDown, Config
<1>3. CASE dstep = 3
  <2>1. Config(net', net.link, net.addr, net.routes, net.rules, net.notrack \ {"PREROUTING"})
    BY <1>t, <1>u, <1>3, DownCommands, DownEffects
  <2> QED
    BY <1>u, <1>3, <2>1 DEF TornDown, Config
<1>4. CASE dstep = 4
  <2>1. Config(net', net.link, net.addr, net.routes, net.rules, net.notrack \ {"OUTPUT"})
    BY <1>t, <1>u, <1>4, DownCommands, DownEffects
  <2> QED
    BY <1>u, <1>4, <2>1 DEF TornDown, Config
<1>5. CASE dstep = 5
  <2>1. Config(net', net.link, {}, IF net.addr = {} THEN net.routes ELSE {}, net.rules, net.notrack)
    BY <1>t, <1>u, <1>5, DownCommands, DownEffects
  <2> QED
    BY <1>u, <1>5, <2>1 DEF TornDown, Config
<1>6. CASE dstep = 6
  <2>1. Config(net', net.link, net.addr,
               net.routes \ {IF "metric" \in net.routes THEN "metric" ELSE "main"},
               net.rules, net.notrack)
    BY <1>t, <1>u, <1>6, DownCommands, DownEffects
  <2> QED
    BY <1>u, <1>6, <2>1 DEF TornDown, Config
<1>7. CASE dstep = 7
  <2>1. Config(net', FALSE, net.addr, {}, net.rules, net.notrack)
    BY <1>t, <1>u, <1>7, DownCommands, DownEffects
  <2>2. net.rules = {} /\ net.addr = {} /\ net.notrack = {}
    BY <1>t, <1>7 DEF TornDown
  <2> QED
    BY <1>u, <1>7, <2>1, <2>2 DEF Clean, Config
<1> QED
  BY <1>t, <1>1, <1>2, <1>3, <1>4, <1>5, <1>6, <1>7

(* Every step keeps StopInv, when only a session that is up is stopped.    *)
LEMMA StopStep ==
  ASSUME ~StopAnytime
  PROVE  TypeInv /\ StopInv /\ [Next]_vars => StopInv'
<1> SUFFICES ASSUME TypeInv, StopInv, [Next]_vars PROVE StopInv'
  OBVIOUS
<1>1. CASE PyConfig
  <2>1. UNCHANGED <<unit, upc, up_rc>> /\ ppc = "config"
    BY <1>1 DEF PyConfig, upVars, sdVars
  <2>2. unit \notin {"stopping", "killing", "inactive"} /\ upc \notin {"check", "park"}
    BY <2>1 DEF StopInv, AllGone
  <2> QED
    BY <2>1, <2>2 DEF StopInv
<1>2. CASE PyNext /\ ~PyConfig
  <2>1. UNCHANGED <<unit, upc, up_rc, dstep>>
    BY <1>2
       DEF PyNext, PyNoDevice, PyAttach, PyDns, PyFlag, PyConnect, PyFail, PyTerm, PyExit,
           upVars, sdVars
  <2>2. ppc \in {"off", "hold"} => ppc' = "off"
    BY <1>2
       DEF PyNext, PyNoDevice, PyAttach, PyDns, PyFlag, PyConnect, PyFail, PyTerm, PyExit
  <2>3. Config(net', net.link, net.addr, net.routes, net.rules, net.notrack)
    BY <1>2, PyLeavesNet
  <2>4. (TornDown => TornDown') /\ (Clean(net) /\ ~net.link => (Clean(net) /\ ~net.link)')
    BY <2>1, <2>3 DEF TornDown, Clean, Config
  <2> QED
    BY <2>1, <2>2, <2>4 DEF StopInv, AllGone
<1>3. CASE UpConfig
  <2>1. UNCHANGED unit /\ upc = "config" /\ upc' \in {"config", "hold"}
    BY <1>3 DEF UpConfig, sdVars
  <2>2. unit \notin {"stopping", "killing", "inactive"}
    BY <2>1 DEF StopInv, AllGone
  <2> QED
    BY <2>1, <2>2 DEF StopInv
(* While the unit stops, xmm7360-up.sh only goes from its wait to its end. *)
<1>4. CASE UpNext /\ ~UpConfig
  <2> USE DEF UpNext, UpPrepare, UpSpawn, UpPoll, UpPollDead, UpPollTimeout, UpGiveUp,
              UpWaited, UpCheck, UpTrap, UpCleanup, UpExit
  <2>1. UNCHANGED <<unit, net, dstep>>
    BY <1>4 DEF sdVars
  <2>2. upc # "off" /\ unit # "inactive"
    BY <1>4 DEF StopInv, AllGone
  <2>3. upc \in {"hold", "check", "park", "cleanup"} =>
          UNCHANGED ppc /\ upc' \in {"off", "check", "park", "cleanup"}
    BY <1>4 DEF pyVars
  <2>4. upc' \in {"check", "park"} => ppc' = "off"
    BY <1>4 DEF StopInv, pyVars
  <2>5. upc' = "off" /\ up_rc' => ppc' = "off"
    BY <1>4 DEF StopInv, pyVars
  <2>6. TornDown' = TornDown /\ Clean(net)' = Clean(net)
    BY <2>1 DEF TornDown, Clean
  <2> QED
    BY <2>1, <2>2, <2>3, <2>4, <2>5, <2>6 DEF StopInv
<1>5. CASE Start \/ Restart
  BY <1>5 DEF Start, Restart, BeginSession, StopInv
<1>6. CASE Stop \/ MainExited0
  <2>1. unit = "running" /\ UNCHANGED <<upc, up_rc, ppc, net>> /\ unit' = "stopping" /\ dstep' = 1
    BY <1>6 DEF Stop, MainExited0, RunExecStop, upVars, pyVars
  <2>2. ppc \in {"off", "hold"} /\ upc \in {"off", "hold", "park"}
    BY <1>6 DEF Stop, MainExited0, StopInv
  <2> QED
    BY <2>1, <2>2 DEF StopInv, TornDown
<1>7. CASE DownStep
  <2>1. dstep \in 1 .. 7 /\ unit = "stopping" /\ UNCHANGED <<upc, up_rc, ppc>>
    BY <1>7 DEF DownStep, TypeInv, SystemdTypes, upVars, pyVars
  <2>2. CASE dstep < 7
    BY <1>7, <2>1, <2>2, TearsDown DEF StopInv
  <2>3. CASE dstep = 7
    BY <1>7, <2>1, <2>3, TearsDown DEF StopInv
  <2> QED
    BY <2>1, <2>2, <2>3
<1>8. CASE MainFailed \/ Stopped
  BY <1>8 DEF MainFailed, Stopped, StopInv, AllGone, upVars, pyVars, Clean
<1>9. CASE UNCHANGED vars
  BY <1>9 DEF vars, upVars, pyVars, sdVars, StopInv, AllGone, TornDown, Clean
<1> QED
  BY <1>1, <1>2, <1>3, <1>4, <1>5, <1>6, <1>7, <1>8, <1>9 DEF Next, SystemdNext

-----------------------------------------------------------------------------
(* The state of the session is well typed: no script runs past its last    *)
(* command, and none configures without an address.                        *)
THEOREM TypesHold == Spec => []TypeOK
<1>1. TypeInv => TypeOK
  <2> SUFFICES ASSUME TypeInv PROVE TypeOK
    OBVIOUS
  <2>1. SystemdTypes /\ UpTypes /\ PyTypes /\ FlagTypes /\ term \subseteq {"up", "py"}
    BY DEF TypeInv
  <2>2. /\ net.link \in BOOLEAN /\ net.dns \in BOOLEAN
        /\ net.addr \subseteq IPs /\ net.rules \subseteq IPs
        /\ net.routes \subseteq {"metric", "main", "table"}
        /\ net.notrack \subseteq {"PREROUTING", "OUTPUT"}
    BY DEF TypeInv, Nets
  <2> QED
    BY <2>1, <2>2, PyCommands, UpCommands, DownCommands, Zenon
       DEF TypeOK, SystemdTypes, UpTypes, PyTypes, FlagTypes
<1> QED
  BY <1>1, TypeInit, TypeStep, PTL DEF Spec

(* A session that began on a clean host and that both processes hold open  *)
(* has what xmm7360-up.sh sets up, for the address the RPC client got, in  *)
(* whatever order the two processes ran their commands; and the RPC        *)
(* client's default route, if it was asked for, unless it was there before *)
(* the script's addr flush.                                                *)
THEOREM HeldIsConfigured == Spec => []HoldIsConfigured
<1>1. TypeInv /\ HoldInv /\ RouteInv => HoldIsConfigured
  <2> SUFFICES ASSUME TypeInv, HoldInv, RouteInv, fresh, unit = "running", upc = "hold",
                      ppc = "hold"
               PROVE  /\ net.link /\ net.addr = {py_ip} /\ my_ip = py_ip
                      /\ net.rules = {py_ip}
                      /\ {"main", "table"} \subseteq net.routes
                      /\ "metric" \in net.routes <=> ~NoDefaultRoute /\ "metric" \notin flushed
                      /\ net.notrack = {"PREROUTING", "OUTPUT"}
    BY DEF HoldIsConfigured
  <2>1. Configuring
    BY DEF HoldInv
  <2>2. net.notrack \subseteq {"PREROUTING", "OUTPUT"}
    BY DEF TypeInv, Nets
  <2>3. "metric" \in net.routes <=> ~NoDefaultRoute /\ "metric" \notin flushed
    BY DEF RouteInv, ClientRoute, Flushed, Done
  <2>4. /\ net.link /\ net.addr = {py_ip} /\ my_ip = py_ip /\ net.rules = {py_ip}
        /\ {"main", "table"} \subseteq net.routes /\ net.notrack = {"PREROUTING", "OUTPUT"}
    BY <2>1, <2>2 DEF Configuring, Done
  <2> QED
    BY <2>3, <2>4
<1>2. Init => RouteInv
  BY DEF Init, RouteInv
<1> QED
  BY <1>1, <1>2, TypeInit, TypeStep, HoldInit, HoldStep, RouteStep, PTL DEF Spec

(* When only sessions that are up are stopped, a stop leaves nothing of    *)
(* the configuration: not of the session, nor of the failed ones before    *)
(* it.                                                                     *)
THEOREM StopLeavesNothing ==
  ASSUME ~StopAnytime
  PROVE  Spec => []StoppedIsClean
<1>1. StopInv => StoppedIsClean
  BY DEF StopInv, StoppedIsClean
<1>2. TypeInv /\ StopInv /\ [Next]_vars => StopInv'
  BY StopStep
<1> QED
  BY <1>1, <1>2, TypeInit, TypeStep, StopInit, PTL DEF Spec

=============================================================================
