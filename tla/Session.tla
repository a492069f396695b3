------------------------------ MODULE Session -------------------------------
(***************************************************************************)
(* A data session under systemd: the unit xmm7360.service, its main        *)
(* process xmm7360-up.sh, the RPC client open_xdatachannel.py that it runs *)
(* in the background, and xmm7360-down.sh as ExecStop, all of them setting *)
(* up or tearing down the one interface wwan0.                             *)
(*                                                                         *)
(* Each process is a program counter; the ip, iptables and resolvectl      *)
(* commands it runs one after the other are a sequence of names, and       *)
(* Effect says what a command does to the host's network configuration.    *)
(* SIGTERM reaches a process between two of its commands.                  *)
(***************************************************************************)
EXTENDS Naturals, Sequences

CONSTANTS
  IPs, NoIp,    \* addresses the network may assign, and none
  MaxStarts,    \* bound: times the unit is started or restarted
  NoDefaultRoute, \* open_xdatachannel.py's option --nodefaultroute, as in xmm7360.ini
  StopAnytime   \* stop requests come at any time, or only to a session that is up

ASSUME SessionAssumption ==
  /\ NoIp \notin IPs /\ MaxStarts \in Nat
  /\ NoDefaultRoute \in BOOLEAN /\ StopAnytime \in BOOLEAN

VARIABLES
  unit, starts,      \* state of the unit, number of its starts
  upc, ustep, my_ip, \* xmm7360-up.sh: position, next command, MY_IP
  up_rc, pidfile,    \* its exit code is 0; its PID file exists
  ppc, pstep, py_ip, \* open_xdatachannel.py: position, next command, ip_addr
  dns_applied,       \* its _dns_applied
  py_rc,             \* its exit code is 0
  dstep,             \* xmm7360-down.sh: next command, 0 when not running
  term,              \* processes with a pending SIGTERM
  net,               \* the host's configuration of wwan0
  fresh,             \* this session began on a clean host
  flushed            \* history: the routes there when xmm7360-up.sh flushed the address

upVars == <<upc, ustep, my_ip, up_rc, pidfile>>
pyVars == <<ppc, pstep, py_ip, dns_applied, py_rc>>
sdVars == <<unit, starts, dstep, fresh, flushed>>
vars   == <<upVars, pyVars, sdVars, term, net>>

Clean(n) == n.addr = {} /\ n.routes = {} /\ n.rules = {} /\ n.notrack = {}

-----------------------------------------------------------------------------
(* The commands (external): routes are "metric", the default route of      *)
(* open_xdatachannel.py, "main", the one with metric 4242, and "table", the*)
(* one in table wwan.  The kernel drops the routes of an interface with    *)
(* its last address and when it goes down, and refuses one while it is     *)
(* down.                                                                   *)
RouteAdd(n, r) == IF n.link THEN [n EXCEPT !.routes = @ \cup {r}] ELSE n

Effect(command, ip, n) ==
  CASE command = "link_up"     -> [n EXCEPT !.link = TRUE]
    [] command = "link_down"   -> [n EXCEPT !.link = FALSE, !.routes = {}]
    [] command = "addr_flush"  -> [n EXCEPT !.addr = {},
                                            !.routes = IF n.addr = {} THEN @ ELSE {}]
    [] command = "addr_add"    -> [n EXCEPT !.addr = @ \cup {ip}]
    [] command = "main_flush"  -> [n EXCEPT !.routes = @ \ {"metric", "main"}]
    [] command = "metric_add"  -> RouteAdd(n, "metric")
    [] command = "main_add"    -> RouteAdd(n, "main")
    [] command = "main_del"    -> [n EXCEPT !.routes =
                                     @ \ {IF "metric" \in @ THEN "metric" ELSE "main"}]
    [] command = "table_add"   -> RouteAdd(n, "table")
    [] command = "table_flush" -> [n EXCEPT !.routes = @ \ {"table"}]
    [] command = "rule_add"    -> [n EXCEPT !.rules = @ \cup {ip}]
    [] command = "rule_del"    -> [n EXCEPT !.rules = @ \ {ip}]
    [] command = "rules_del"   -> [n EXCEPT !.rules = {}]
    [] command = "notrack_in"  -> [n EXCEPT !.notrack = @ \cup {"PREROUTING"}]
    [] command = "notrack_out" -> [n EXCEPT !.notrack = @ \cup {"OUTPUT"}]
    [] command = "untrack_in"  -> [n EXCEPT !.notrack = @ \ {"PREROUTING"}]
    [] command = "untrack_out" -> [n EXCEPT !.notrack = @ \ {"OUTPUT"}]

(* open_xdatachannel.py, from the address to the DNS servers.              *)
PyScript == <<"link_up", "addr_flush", "main_flush", "addr_add", "metric_add">>

(* Broken variant: the source rule is added before the stale one goes.     *)
UpScriptSwapped ==
  <<"addr_flush", "addr_add", "link_up", "notrack_in", "notrack_out",
    "table_flush", "table_add", "rule_add", "rule_del", "main_add">>

(* xmm7360-up.sh, sections 4 to 7.                                         *)
UpScript ==
  <<"addr_flush", "addr_add", "link_up", "notrack_in", "notrack_out",
    "table_flush", "table_add", "rule_del", "rule_add", "main_add">>

(* Broken variant: the NOTRACK rule of the OUTPUT chain is forgotten.      *)
DownScriptOneChain ==
  <<"rules_del", "table_flush", "untrack_in", "untrack_in", "addr_flush",
    "main_del", "link_down">>

(* xmm7360-down.sh                                                         *)
DownScript ==
  <<"rules_del", "table_flush", "untrack_in", "untrack_out", "addr_flush",
    "main_del", "link_down">>

Init ==
  /\ unit = "inactive" /\ starts = 0 /\ dstep = 0 /\ fresh = TRUE
  /\ flushed = {}
  /\ upc = "off" /\ ustep = 1 /\ my_ip = NoIp /\ up_rc = TRUE /\ pidfile = FALSE
  /\ ppc = "off" /\ pstep = 1 /\ py_ip = NoIp /\ dns_applied = FALSE /\ py_rc = TRUE
  /\ term = {}
  /\ net = [link |-> FALSE, addr |-> {}, routes |-> {}, rules |-> {}, notrack |-> {},
            dns |-> FALSE]

-----------------------------------------------------------------------------
(* open_xdatachannel.py.  An exit, by an exception or by the handler of    *)
(* SIGTERM, runs _revert_resolved_dns.                                     *)

PyExit(ok) ==
  /\ ppc' = "off"
  /\ py_rc' = ok
  /\ net' = [net EXCEPT !.dns = @ /\ ~dns_applied]
  /\ term' = term \ {"py"}
  /\ UNCHANGED <<upVars, sdVars, pstep, py_ip, dns_applied>>

(* Up to get_ip: no device (exit code 0), an RPC that fails (1), or an     *)
(* address.                                                                *)
PyNoDevice == ppc = "rpc" /\ PyExit(TRUE)

PyAttach(ip) ==
  /\ ppc = "rpc"
  /\ ppc' = "config" /\ pstep' = 1 /\ py_ip' = ip
  /\ UNCHANGED <<upVars, sdVars, term, net, dns_applied, py_rc>>

(* The ip commands; --nodefaultroute skips the last one.                   *)
PyConfig ==
  /\ ppc = "config"
  /\ IF PyScript[pstep] = "metric_add" /\ NoDefaultRoute
       THEN UNCHANGED net
       ELSE net' = Effect(PyScript[pstep], py_ip, net)
  /\ IF pstep < Len(PyScript)
       THEN pstep' = pstep + 1 /\ UNCHANGED ppc
       ELSE ppc' = "dns" /\ UNCHANGED pstep
  /\ UNCHANGED <<upVars, sdVars, term, py_ip, dns_applied, py_rc>>

(* _apply_resolved_dns: nothing to do or no resolvectl, or set the servers *)
(* and then note it in _dns_applied.                                       *)
PyDns ==
  /\ ppc = "dns"
  /\ \/ ppc' = "connect" /\ UNCHANGED net
     \/ ppc' = "flag" /\ net' = [net EXCEPT !.dns = TRUE]
  /\ UNCHANGED <<upVars, sdVars, term, pstep, py_ip, dns_applied, py_rc>>

PyFlag ==
  /\ ppc = "flag"
  /\ dns_applied' = TRUE
  /\ ppc' = "connect"
  /\ UNCHANGED <<upVars, sdVars, term, net, pstep, py_ip, py_rc>>

(* The connect requests; a failure of the last one is ignored.             *)
PyConnect ==
  /\ ppc = "connect"
  /\ ppc' = "hold"
  /\ UNCHANGED <<upVars, sdVars, term, net, pstep, py_ip, dns_applied, py_rc>>

PyFail == ppc \in {"rpc", "connect"} /\ PyExit(FALSE)

(* Broken variant: the handler of SIGTERM reverts DNS and returns.         *)
PyTermReturns ==
  /\ "py" \in term
  /\ term' = term \ {"py"}
  /\ net' = [net EXCEPT !.dns = @ /\ ~dns_applied]
  /\ UNCHANGED <<upVars, sdVars, pyVars>>

(* _shutdown, the handler of SIGTERM.                                      *)
PyTerm == "py" \in term /\ PyExit(TRUE)

PyNext ==
  \/ PyNoDevice \/ (\E ip \in IPs : PyAttach(ip)) \/ PyConfig \/ PyDns \/ PyFlag
  \/ PyConnect \/ PyFail \/ PyTerm

-----------------------------------------------------------------------------
(* xmm7360-up.sh.                                                          *)

KillPy == IF ppc = "off" THEN {} ELSE {"py"}

UpExit(ok, killed) ==
  /\ upc' = "off"
  /\ up_rc' = ok
  /\ term' = (term \ {"up"}) \cup killed
  /\ UNCHANGED <<ustep, my_ip>>

(* Sections 0 to 2: the routing table's name, the script, the module and   *)
(* the interface; any of the last three may be missing.                    *)
UpPrepare ==
  /\ upc = "prepare"
  /\ \/ upc' = "spawn" /\ UNCHANGED <<ustep, my_ip, up_rc, term>>
     \/ UpExit(FALSE, {})
  /\ UNCHANGED <<pyVars, sdVars, net, pidfile>>

(* Section 3: start open_xdatachannel.py ...                               *)
UpSpawn ==
  /\ upc = "spawn"
  /\ upc' = "poll" /\ pidfile' = TRUE /\ my_ip' = NoIp
  /\ ppc' = "rpc" /\ py_ip' = NoIp /\ dns_applied' = FALSE
  /\ UNCHANGED <<sdVars, term, net, ustep, up_rc, pstep, py_rc>>

(* Broken variant: no address does not end the script.                     *)
UpPollUnchecked ==
  /\ upc = "poll"
  /\ my_ip' \in IF net.addr = {} THEN {NoIp} ELSE net.addr
  /\ upc' = "config" /\ ustep' = 1
  /\ UNCHANGED <<pyVars, sdVars, term, net, up_rc, pidfile>>

(* ... and look for an address, whoever put it there ...                   *)
UpPoll ==
  /\ upc = "poll"
  /\ my_ip' \in net.addr
  /\ upc' = "config" /\ ustep' = 1
  /\ UNCHANGED <<pyVars, sdVars, term, net, up_rc, pidfile>>

(* ... until open_xdatachannel.py is gone ...                              *)
UpPollDead ==
  /\ upc = "poll" /\ net.addr = {} /\ ppc = "off"
  /\ UpExit(FALSE, {})
  /\ UNCHANGED <<pyVars, sdVars, net, pidfile>>

(* ... or 30 s have passed, whereupon the script kills it and exits.       *)
UpPollTimeout ==
  /\ upc = "poll" /\ net.addr = {}
  /\ upc' = "giveup"
  /\ UNCHANGED <<pyVars, sdVars, term, net, ustep, my_ip, up_rc, pidfile>>

UpGiveUp ==
  /\ upc = "giveup"
  /\ UpExit(FALSE, KillPy)
  /\ UNCHANGED <<pyVars, sdVars, net, pidfile>>

UpConfig ==
  /\ upc = "config"
  /\ net' = Effect(UpScript[ustep], my_ip, net)
  /\ IF ustep < Len(UpScript)
       THEN ustep' = ustep + 1 /\ UNCHANGED upc
       ELSE upc' = "hold" /\ UNCHANGED ustep
  /\ flushed' = IF ustep = 1 THEN net.routes ELSE flushed
  /\ UNCHANGED <<pyVars, unit, starts, dstep, fresh, term, my_ip, up_rc, pidfile>>

(* Section 9: wait for open_xdatachannel.py, then stay if the address is   *)
(* still there and a ping gets through, or exit with its code.             *)
UpWaited ==
  /\ upc = "hold" /\ ppc = "off"
  /\ upc' = "check"
  /\ UNCHANGED <<pyVars, sdVars, term, net, ustep, my_ip, up_rc, pidfile>>

UpCheck ==
  /\ upc = "check"
  /\ \/ my_ip \in net.addr /\ upc' = "park" /\ UNCHANGED <<ustep, my_ip, up_rc, pidfile, term>>
     \/ UpExit(py_rc, {}) /\ pidfile' = FALSE
  /\ UNCHANGED <<pyVars, sdVars, net>>

(* cleanup, the trap: kill open_xdatachannel.py, wait for it, remove the   *)
(* PID file and exit 0.                                                    *)
UpTrap ==
  /\ "up" \in term /\ upc \notin {"off", "cleanup"}
  /\ upc' = "cleanup"
  /\ term' = (term \ {"up"}) \cup KillPy
  /\ UNCHANGED <<pyVars, sdVars, net, ustep, my_ip, up_rc, pidfile>>

UpCleanup ==
  /\ upc = "cleanup" /\ ppc = "off"
  /\ pidfile' = FALSE
  /\ UpExit(TRUE, {})
  /\ UNCHANGED <<pyVars, sdVars, net>>

UpNext ==
  \/ UpPrepare \/ UpSpawn \/ UpPoll \/ UpPollDead \/ UpPollTimeout \/ UpGiveUp
  \/ UpConfig \/ UpWaited \/ UpCheck \/ UpTrap \/ UpCleanup

-----------------------------------------------------------------------------
(* systemd on xmm7360.service.  A stop request, or the main process        *)
(* exiting with 0, runs ExecStop first and sends SIGTERM to every process  *)
(* of the unit after it; exiting with another code goes straight to        *)
(* SIGTERM, and to a restart (Restart=on-failure).                         *)

BeginSession ==
  /\ starts < MaxStarts
  /\ starts' = starts + 1
  /\ unit' = "running"
  /\ upc' = "prepare"
  /\ fresh' = Clean(net)
  /\ UNCHANGED <<pyVars, dstep, flushed, term, net, ustep, my_ip, up_rc, pidfile>>

Start == unit = "inactive" /\ BeginSession

RunExecStop ==
  /\ unit' = "stopping"
  /\ dstep' = 1
  /\ UNCHANGED <<upVars, pyVars, starts, fresh, flushed, term, net>>

Stop ==
  /\ unit = "running"
  /\ StopAnytime \/ (upc = "hold" /\ ppc = "hold") \/ upc = "park"
  /\ RunExecStop

MainExited0 == unit = "running" /\ upc = "off" /\ up_rc /\ RunExecStop

MainFailed ==
  /\ unit = "running" /\ upc = "off" /\ ~up_rc
  /\ unit' = "failing"
  /\ term' = term \cup KillPy
  /\ UNCHANGED <<upVars, pyVars, starts, dstep, fresh, flushed, net>>

(* xmm7360-down.sh, then SIGTERM to what is left.                          *)
DownStep ==
  /\ unit = "stopping"
  /\ net' = Effect(DownScript[dstep], NoIp, net)
  /\ IF dstep < Len(DownScript)
       THEN dstep' = dstep + 1 /\ UNCHANGED <<unit, term>>
       ELSE /\ dstep' = 0
            /\ unit' = "killing"
            /\ term' = term \cup KillPy \cup (IF upc = "off" THEN {} ELSE {"up"})
  /\ UNCHANGED <<upVars, pyVars, starts, fresh, flushed>>

AllGone == upc = "off" /\ ppc = "off"

Stopped ==
  /\ unit = "killing" /\ AllGone
  /\ unit' = "inactive"
  /\ UNCHANGED <<upVars, pyVars, starts, dstep, fresh, flushed, term, net>>

Restart == unit = "failing" /\ AllGone /\ BeginSession

SystemdNext ==
  Start \/ Stop \/ MainExited0 \/ MainFailed \/ DownStep \/ Stopped \/ Restart

Next == PyNext \/ UpNext \/ SystemdNext

Spec == Init /\ [][Next]_vars

(* Processes that got a signal handle it, scripts and systemd go on; the   *)
(* RPC client owes nothing: its modem may never answer.                    *)
FairSpec ==
  /\ Spec
  /\ WF_vars(PyTerm) /\ WF_vars(UpTrap) /\ WF_vars(UpCleanup)
  /\ WF_vars(DownStep) /\ WF_vars(Stopped)

-----------------------------------------------------------------------------
(* Types of the session's state.                                           *)
TypeOK ==
  /\ unit \in {"inactive", "running", "stopping", "killing", "failing"}
  /\ starts \in 0 .. MaxStarts /\ fresh \in BOOLEAN
  /\ dstep \in 0 .. Len(DownScript)
  /\ upc \in {"off", "prepare", "spawn", "poll", "giveup", "config", "hold", "check",
              "park", "cleanup"}
  /\ ustep \in 1 .. Len(UpScript) /\ my_ip \in IPs \cup {NoIp}
  /\ up_rc \in BOOLEAN /\ pidfile \in BOOLEAN
  /\ ppc \in {"off", "rpc", "config", "dns", "flag", "connect", "hold"}
  /\ pstep \in 1 .. Len(PyScript) /\ py_ip \in IPs \cup {NoIp}
  /\ dns_applied \in BOOLEAN /\ py_rc \in BOOLEAN
  /\ term \subseteq {"up", "py"}
  /\ net.link \in BOOLEAN /\ net.dns \in BOOLEAN
  /\ net.addr \subseteq IPs /\ net.rules \subseteq IPs
  /\ net.routes \cup flushed \subseteq {"metric", "main", "table"}
  /\ net.notrack \subseteq {"PREROUTING", "OUTPUT"}

(* When the unit has stopped, nothing of xmm7360-up.sh's or the RPC        *)
(* client's configuration is left, nor of sessions that failed before and  *)
(* were restarted on top of their remains (xmm7360-down.sh).               *)
StoppedIsClean == unit = "inactive" => Clean(net) /\ ~net.link /\ AllGone

(* A session that began on a clean host and that both processes hold open  *)
(* has all that xmm7360-up.sh sets up, for the address the RPC client got: *)
(* the address and the link, the source rule, the NOTRACK rules, the       *)
(* routes with metric 4242 and of table wwan.  No command of the RPC       *)
(* client, still running next to the script, takes any of it away.  The    *)
(* other way round, the client's own default route is there exactly when   *)
(* it was asked for and the script's addr flush did not find it there      *)
(* already: the flush drops it for good, no other command does.            *)
HoldIsConfigured ==
  fresh /\ unit = "running" /\ upc = "hold" /\ ppc = "hold" =>
    /\ net.link /\ net.addr = {py_ip} /\ my_ip = py_ip
    /\ net.rules = {py_ip}
    /\ {"main", "table"} \subseteq net.routes
    /\ "metric" \in net.routes <=> ~NoDefaultRoute /\ "metric" \notin flushed
    /\ net.notrack = {"PREROUTING", "OUTPUT"}

(* A stop ends: cleanup's wait for the RPC client does not last forever.   *)
StopCompletes == unit = "stopping" ~> unit = "inactive"

(* What xmm7360-up.sh leaves to xmm7360-down.sh: the source rules and the  *)
(* NOTRACK rules it set up are gone when the unit has stopped.             *)
RulesTornDown == unit = "inactive" => net.rules = {} /\ net.notrack = {}

(* What xmm7360-up.sh means by "replace stale source-based rule": a        *)
(* session that is held open has the rule of its own address only.         *)
RuleOfSession == upc = "hold" /\ ppc = "hold" /\ unit = "running" => net.rules = {py_ip}

=============================================================================
