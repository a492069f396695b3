-------------------------------- MODULE Rpc --------------------------------
(***************************************************************************)
(* The RPC client of rpc.py, and the conversation open_xdatachannel.py has *)
(* with the modem through it.  Requests and messages travel in order (the  *)
(* channels of QueuePair).  The modem may send unsolicited messages at any *)
(* time between an answer and the next; a response carries nothing that    *)
(* names its request, so execute takes the first one it meets.  Here a     *)
(* message is what handle_message makes of it; AsnCodec has its bytes.     *)
(***************************************************************************)
EXTENDS AsnCodec, FiniteSets

CONSTANTS
  MaxInds,   \* bound: indications whether attaching is allowed; the last says yes
  MaxTries   \* bound: attempts of get_ip; the last one gets an address

ASSUME RpcAssumption == MaxInds \in Nat \ {0} /\ MaxTries \in Nat \ {0}

VARIABLES
  at, phase,        \* position in Script; "call" | "wait" for its response
  serial,           \* number of requests executed
  attach_allowed,   \* r.attach_allowed
  end,              \* how the script ended: "no" | "held" | "failed"
  requests,         \* requests on their way to the modem
  inbox,            \* messages on their way to the client
  acked, cb_due,    \* the modem has acknowledged the request; owes UtaModeSetRspCb
  fcc_mode, fcc_state,  \* the modem has an FCC lock; it is unlocked
  inds, tries

clientVars == <<at, phase, serial, attach_allowed, end, tries>>
modemVars  == <<acked, cb_due, fcc_mode, fcc_state, inds>>
vars       == <<clientVars, requests, inbox, modemVars>>

(* open_xdatachannel.py, do_fcc_unlock, UtaModeSet and get_ip in line.     *)
Script == <<
  "UtaMsSmsInit", "UtaMsCbsInit", "UtaMsNetOpen", "UtaMsCallCsInit",
  "UtaMsCallPsInitialize", "UtaMsSsInit", "UtaMsSimOpenReq",
  "CsiFccLockQueryReq", "CsiFccLockGenChallengeReq", "CsiFccLockVerChallengeReq",
  "UtaModeSetReq", "wait UtaModeSetRspCb",
  "UtaMsCallPsAttachApnConfigReq", "UtaMsNetAttachReq", "wait attach_allowed",
  "UtaMsNetAttachReq",
  "UtaMsCallPsGetNegIpAddrReq", "UtaMsCallPsGetNegotiatedDnsReq",
  "UtaMsCallPsConnectReq", "UtaRPCPsConnectToDatachannelReq",
  "UtaRPCPSConnectSetupReq", "activate gsm connection", "pump" >>

(* Positions at which the script decides something.                        *)
FccQuery  == 8
FccVerify == 10
ModeSet   == 11
RspCb     == 12
Allowed   == 15
Attach2   == 16
GetIp     == 17
GetDns    == 18
Setup     == 21
Activate  == 22
Pumping   == 23

IsCall(k) == k \notin {RspCb, Allowed, Activate, Pumping}

(* The calls made with is_async=True.                                      *)
AsyncCalls == {"CsiFccLockQueryReq", "CsiFccLockGenChallengeReq",
  "CsiFccLockVerChallengeReq", "UtaMsCallPsAttachApnConfigReq", "UtaMsNetAttachReq",
  "UtaMsCallPsGetNegIpAddrReq", "UtaMsCallPsGetNegotiatedDnsReq", "UtaMsCallPsConnectReq"}
IsAsync(k) == Script[k] \in AsyncCalls

MODE_TID  == 15

Message(txid, code, of, val) == [txid |-> txid, code |-> code, of |-> of, val |-> val]

Init ==
  /\ at = 1 /\ phase = "call" /\ serial = 0 /\ attach_allowed = FALSE
  /\ end = "no" /\ tries = 0
  /\ requests = <<>> /\ inbox = <<>>
  /\ acked = FALSE /\ cb_due = FALSE /\ inds = 0
  /\ fcc_mode \in BOOLEAN /\ fcc_state \in BOOLEAN

-----------------------------------------------------------------------------
(* Codes of rpc_unsol_table that the client looks at.                      *)
AttachAllowedInd == 108   \* 0x06c
ModeSetRspCb     == 301   \* 0x12d

(* handle_unsolicited                                                      *)
HandleUnsolicited(m) ==
  attach_allowed' =
    IF TypeOf(m) = "unsolicited" /\ m.code = AttachAllowedInd THEN m.val ELSE attach_allowed

(* execute: write the request.                                             *)
Execute ==
  /\ end = "no" /\ phase = "call" /\ IsCall(at)
  /\ phase' = "wait"
  /\ serial' = serial + 1
  /\ requests' = Append(requests, [of |-> serial + 1, call |-> at])
  /\ UNCHANGED <<at, attach_allowed, end, tries, inbox, modemVars>>

GoTo(k)  == at' = k /\ phase' = "call" /\ UNCHANGED end
GiveUp   == end' = "failed" /\ UNCHANGED <<at, phase>>

(* Broken variant: the FCC lock is not looked at.                          *)
AfterNoUnlock(m) == GoTo(IF at = FccQuery THEN ModeSet ELSE at + 1) /\ UNCHANGED tries

(* Broken variant: the loop around get_ip goes round again whatever it got.*)
AfterAskAgain(m) ==
  /\ IF at \in {FccVerify, ModeSet, Attach2} /\ ~m.val THEN GiveUp
     ELSE GoTo(CASE at = GetDns -> GetIp
                 [] at = FccQuery /\ m.val -> ModeSet
                 [] OTHER -> at + 1)
  /\ tries' = IF at = GetDns THEN tries + 1 ELSE tries

(* Without --dbus the script holds the session and never reads the device  *)
(* again; with --dbus it goes on to NetworkManager.                        *)
Established ==
  \/ end' = "held" /\ UNCHANGED <<at, phase>>
  \/ GoTo(Activate)

(* What the script does with the response to the call at which it is: the  *)
(* value of a response stands for what is tested in it.                    *)
After(m) ==
  \/ /\ at = FccQuery
     /\ GoTo(IF m.val THEN ModeSet ELSE at + 1)
     /\ UNCHANGED tries
  \/ /\ at \in {FccVerify, ModeSet, Attach2}
     /\ IF m.val THEN GoTo(at + 1) ELSE GiveUp
     /\ UNCHANGED tries
  \/ /\ at = GetDns
     /\ tries' = tries + 1
     /\ GoTo(IF m.val THEN at + 1 ELSE GetIp)
  \/ /\ at = Setup
     /\ Established
     /\ UNCHANGED tries
  \/ /\ at \notin {FccQuery, FccVerify, ModeSet, Attach2, GetDns, Setup}
     /\ GoTo(at + 1)
     /\ UNCHANGED tries

(* Broken variant: execute's loop drops unsolicited messages.              *)
PumpExecuteDeaf ==
  /\ end = "no" /\ phase = "wait" /\ inbox # <<>>
  /\ IF TypeOf(Head(inbox)) = "response"
       THEN After(Head(inbox))
       ELSE UNCHANGED <<at, phase, end, tries>>
  /\ inbox' = Tail(inbox)
  /\ UNCHANGED <<serial, attach_allowed, requests, modemVars>>

(* execute's loop: pump until a response comes.                            *)
PumpExecute ==
  /\ end = "no" /\ phase = "wait" /\ inbox # <<>>
  /\ LET m == Head(inbox)
     IN /\ HandleUnsolicited(m)
        /\ IF TypeOf(m) = "response" THEN After(m) ELSE UNCHANGED <<at, phase, end, tries>>
  /\ inbox' = Tail(inbox)
  /\ UNCHANGED <<serial, requests, modemVars>>

(* UtaModeSet's loop: pump until UtaModeSetRspCb comes.                    *)
PumpModeSet ==
  /\ end = "no" /\ at = RspCb /\ inbox # <<>>
  /\ LET m == Head(inbox)
     IN /\ HandleUnsolicited(m)
        /\ IF m.code = ModeSetRspCb
             THEN IF m.val THEN GoTo(at + 1) ELSE GiveUp
             ELSE UNCHANGED <<at, phase, end>>
  /\ inbox' = Tail(inbox)
  /\ UNCHANGED <<serial, tries, requests, modemVars>>

(* while not r.attach_allowed: r.pump()                                    *)
PumpAllowed ==
  /\ end = "no" /\ at = Allowed /\ ~attach_allowed /\ inbox # <<>>
  /\ HandleUnsolicited(Head(inbox))
  /\ inbox' = Tail(inbox)
  /\ UNCHANGED <<at, phase, serial, end, tries, requests, modemVars>>

AllowedSeen ==
  /\ end = "no" /\ at = Allowed /\ attach_allowed
  /\ GoTo(at + 1)
  /\ UNCHANGED <<serial, attach_allowed, tries, requests, inbox, modemVars>>

(* The dbus branch: the first gsm profile of NetworkManager is activated,  *)
(* or the script exits because there is none; then while True: r.pump()    *)
ActivateGsm ==
  /\ end = "no" /\ at = Activate
  /\ GoTo(Pumping) \/ GiveUp
  /\ UNCHANGED <<serial, attach_allowed, tries, requests, inbox, modemVars>>

PumpForever ==
  /\ end = "no" /\ at = Pumping /\ inbox # <<>>
  /\ HandleUnsolicited(Head(inbox))
  /\ inbox' = Tail(inbox)
  /\ UNCHANGED <<at, phase, serial, end, tries, requests, modemVars>>

(* A read or write that fails: an exception, which ends the script, or, in *)
(* the last call, is logged.                                               *)
DeviceError ==
  /\ end = "no"
  /\ IF at = Setup THEN Established ELSE GiveUp
  /\ UNCHANGED <<serial, attach_allowed, tries, requests, inbox, modemVars>>

ClientStep ==
  \/ Execute \/ PumpExecute \/ PumpModeSet \/ PumpAllowed \/ AllowedSeen
  \/ ActivateGsm \/ PumpForever

-----------------------------------------------------------------------------
(* The modem (external): it may acknowledge an asynchronous request before *)
(* it answers, reports the new mode after it has answered UtaModeSetReq,   *)
(* and sends indications.                                                  *)

ModemAck ==
  /\ requests # <<>> /\ ~acked /\ IsAsync(Head(requests).call)
  /\ acked' = TRUE
  /\ inbox' = Append(inbox, Message(ASYNC_TID, 2000, Head(requests).of, TRUE))
  /\ UNCHANGED <<clientVars, requests, cb_due, fcc_mode, fcc_state, inds>>

ModemRespond ==
  /\ requests # <<>>
  /\ LET q == Head(requests)
     IN \E val \in BOOLEAN :
          /\ q.call = FccQuery => val = (~fcc_mode \/ fcc_state)
          /\ q.call = GetDns /\ tries >= MaxTries - 1 => val
          /\ inbox' = Append(inbox, Message(IF IsAsync(q.call) THEN ASYNC_TID ELSE SYNC_TID,
                                            1, q.of, val))
          /\ fcc_state' = (fcc_state \/ (q.call = FccVerify /\ val))
          /\ cb_due' = (q.call = ModeSet /\ val)
  /\ requests' = Tail(requests)
  /\ acked' = FALSE
  /\ UNCHANGED <<clientVars, fcc_mode, inds>>

ModemModeSet ==
  /\ cb_due
  /\ cb_due' = FALSE
  /\ \E val \in BOOLEAN : inbox' = Append(inbox, Message(MODE_TID, ModeSetRspCb, 0, val))
  /\ UNCHANGED <<clientVars, requests, acked, fcc_mode, fcc_state, inds>>

ModemIndicate ==
  /\ inds < MaxInds
  /\ inds' = inds + 1
  /\ \E val \in BOOLEAN :
       /\ inds = MaxInds - 1 => val
       /\ inbox' = Append(inbox, Message(0, AttachAllowedInd, 0, val))
  /\ UNCHANGED <<clientVars, requests, acked, cb_due, fcc_mode, fcc_state>>

ModemStep == ModemRespond \/ ModemModeSet

Next == ClientStep \/ DeviceError \/ ModemStep \/ ModemAck \/ ModemIndicate

Spec == Init /\ [][Next]_vars

(* The client runs; a modem that is up answers every request, reports the  *)
(* mode, and says in the end that attaching is allowed.                    *)
FairSpec ==
  /\ Spec
  /\ WF_vars(ClientStep) /\ WF_vars(ModemStep) /\ WF_vars(ModemIndicate)

-----------------------------------------------------------------------------
(* Types of the conversation's state.                                      *)
TypeOK ==
  /\ at \in 1 .. Len(Script) /\ phase \in {"call", "wait"} /\ serial \in Nat
  /\ attach_allowed \in BOOLEAN /\ end \in {"no", "held", "failed"}
  /\ requests \in Seq([of : Nat, call : 1 .. Len(Script)])
  /\ inbox \in Seq([txid : Nat, code : Nat, of : Nat, val : BOOLEAN])
  /\ acked \in BOOLEAN /\ cb_due \in BOOLEAN
  /\ fcc_mode \in BOOLEAN /\ fcc_state \in BOOLEAN
  /\ inds \in 0 .. MaxInds /\ tries \in 0 .. MaxTries

Responses == {k \in DOMAIN inbox : inbox[k].txid \in {SYNC_TID, ASYNC_TID}
                                     /\ inbox[k].code < 2000}

(* execute returns the response to its own request, although responses do  *)
(* not name theirs: no response is ever under way but the one the client   *)
(* waits for, and the ring to the modem holds one request at most (it is   *)
(* never full for rpc.py, whose write would be dropped unnoticed).         *)
ResponseMatches ==
  end = "no" /\ at <= Setup =>
    /\ Len(requests) + Cardinality(Responses) = IF phase = "wait" THEN 1 ELSE 0
    /\ \A k \in Responses : inbox[k].of = serial

(* The mode is set on a modem whose FCC lock is off or was opened before   *)
(* (do_fcc_unlock's two early returns and its challenge).                  *)
UnlockedBeforeMode == at >= ModeSet => ~fcc_mode \/ fcc_state

(* The bring-up ends, with a session or with an error: no indication is    *)
(* lost to a loop that waits for something else, in whichever of the loops *)
(* it arrives (UtaModeSetRspCb comes after the response).                  *)
BringUpEnds == <>(end # "no" \/ at = Pumping)

=============================================================================
