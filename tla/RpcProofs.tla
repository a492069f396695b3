----------------------------- MODULE RpcProofs -----------------------------
(***************************************************************************)
(* Proofs about Rpc, for every number of indications and of attempts to    *)
(* get an address: the responses, which carry nothing that names their     *)
(* request, always reach the call that is waiting for them, and the mode   *)
(* is only ever set on a modem whose FCC lock is off or open; and the      *)
(* requests under way are read as the fields they were made of.            *)
(***************************************************************************)
EXTENDS AsnCodecProofs

(* The messages the modem sends.  A synchronous answer has code 1: a code  *)
(* of 2000 or more marks an acknowledgement in asynchronous answers only.  *)
Messages ==
  {m \in [txid : {0, MODE_TID, SYNC_TID, ASYNC_TID},
          code : {1, 2000, AttachAllowedInd, ModeSetRspCb}, of : Nat, val : BOOLEAN] :
     m.txid = SYNC_TID => m.code = 1}

IsResponse(m) == m.txid \in {SYNC_TID, ASYNC_TID} /\ m.code < 2000

NoResponse(s) == \A k \in DOMAIN s : ~IsResponse(s[k])
OnlyResponse(s, k) == \A j \in DOMAIN s : IsResponse(s[j]) <=> j = k

(* What a response under way says: it answers the request last written,    *)
(* and the script may rely on the value at the positions where it decides. *)
Answers(m) ==
  /\ m.of = serial
  /\ at = FccQuery /\ m.val => ~fcc_mode \/ fcc_state
  /\ at = FccVerify /\ m.val => fcc_state
  /\ at = GetDns /\ tries >= MaxTries - 1 => m.val

(* The three states of the conversation while the script calls: nothing is *)
(* under way, the request is, or the response is.                          *)
Asking ==
  \/ phase = "call" /\ requests = <<>> /\ NoResponse(inbox)
  \/ /\ phase = "wait" /\ requests = <<[of |-> serial, call |-> at]>>
     /\ NoResponse(inbox)
  \/ /\ phase = "wait" /\ requests = <<>>
     /\ \E k \in DOMAIN inbox : OnlyResponse(inbox, k) /\ Answers(inbox[k])

Conversation == end = "no" /\ at <= Setup => Asking

(* The inductive invariant.                                                *)
RpcInv ==
  /\ TypeOK
  /\ inbox \in Seq(Messages)
  /\ Conversation
  /\ phase = "wait" => IsCall(at)
  /\ at <= GetDns => tries < MaxTries
  /\ UnlockedBeforeMode

-----------------------------------------------------------------------------
(* The script has 23 positions.                                            *)
LEMMA ScriptLen == Len(Script) = 23
  BY DEF Script

(* handle_message takes for a response what Responses counts as one.       *)
LEMMA ResponseType ==
  ASSUME NEW m \in Messages
  PROVE  (TypeOf(m) = "response") <=> IsResponse(m)
  BY DEF Messages, TypeOf, IsResponse, SYNC_TID, ASYNC_TID, MODE_TID,
         AttachAllowedInd, ModeSetRspCb

(* Anything but a response can join the messages under way.                *)
LEMMA JoinOther ==
  ASSUME NEW s \in Seq(Messages), NEW m \in Messages, ~IsResponse(m)
  PROVE  /\ Append(s, m) \in Seq(Messages)
         /\ NoResponse(s) => NoResponse(Append(s, m))
         /\ \A k \in DOMAIN s : OnlyResponse(s, k) =>
              /\ k \in DOMAIN Append(s, m) /\ Append(s, m)[k] = s[k]
              /\ OnlyResponse(Append(s, m), k)
<1>1. /\ Append(s, m) \in Seq(Messages)
      /\ DOMAIN s = 1 .. Len(s) /\ DOMAIN Append(s, m) = 1 .. Len(s) + 1 /\ Len(s) \in Nat
      /\ \A k \in 1 .. Len(s) : Append(s, m)[k] = s[k]
      /\ Append(s, m)[Len(s) + 1] = m
  OBVIOUS
<1> QED
  BY <1>1 DEF NoResponse, OnlyResponse

(* A response that joins none is the only one.                             *)
LEMMA JoinResponse ==
  ASSUME NEW s \in Seq(Messages), NEW m \in Messages, IsResponse(m), NoResponse(s)
  PROVE  /\ Append(s, m) \in Seq(Messages)
         /\ Len(s) + 1 \in DOMAIN Append(s, m) /\ Append(s, m)[Len(s) + 1] = m
         /\ OnlyResponse(Append(s, m), Len(s) + 1)
<1>1. /\ Append(s, m) \in Seq(Messages)
      /\ DOMAIN s = 1 .. Len(s) /\ DOMAIN Append(s, m) = 1 .. Len(s) + 1 /\ Len(s) \in Nat
      /\ \A k \in 1 .. Len(s) : Append(s, m)[k] = s[k]
      /\ Append(s, m)[Len(s) + 1] = m
  OBVIOUS
<1> QED
  BY <1>1 DEF NoResponse, OnlyResponse

(* Taking the first message: the only response is it, or stays the only    *)
(* one.                                                                    *)
LEMMA Take ==
  ASSUME NEW s \in Seq(Messages), s # <<>>
  PROVE  /\ Head(s) \in Messages /\ Tail(s) \in Seq(Messages)
         /\ NoResponse(s) => ~IsResponse(Head(s)) /\ NoResponse(Tail(s))
         /\ \A k \in DOMAIN s : OnlyResponse(s, k) =>
              \/ IsResponse(Head(s)) /\ Head(s) = s[k] /\ NoResponse(Tail(s))
              \/ /\ ~IsResponse(Head(s)) /\ k - 1 \in DOMAIN Tail(s)
                 /\ Tail(s)[k - 1] = s[k] /\ OnlyResponse(Tail(s), k - 1)
<1>1. /\ Tail(s) \in Seq(Messages) /\ Head(s) \in Messages
      /\ Len(s) \in Nat \ {0} /\ DOMAIN s = 1 .. Len(s) /\ DOMAIN Tail(s) = 1 .. Len(s) - 1
      /\ Head(s) = s[1]
      /\ \A k \in 1 .. Len(s) - 1 : Tail(s)[k] = s[k + 1]
  OBVIOUS
<1>2. ASSUME NoResponse(s) PROVE ~IsResponse(Head(s)) /\ NoResponse(Tail(s))
  BY <1>1, <1>2 DEF NoResponse
<1>3. ASSUME NEW k \in DOMAIN s, OnlyResponse(s, k)
      PROVE  \/ IsResponse(Head(s)) /\ Head(s) = s[k] /\ NoResponse(Tail(s))
             \/ /\ ~IsResponse(Head(s)) /\ k - 1 \in DOMAIN Tail(s)
                /\ Tail(s)[k - 1] = s[k] /\ OnlyResponse(Tail(s), k - 1)
  <2>1. CASE k = 1
    BY <1>1, <1>3, <2>1 DEF NoResponse, OnlyResponse
  <2>2. CASE k # 1
    <3>1. k \in Nat /\ k > 1 /\ k - 1 \in 1 .. Len(s) - 1 /\ Tail(s)[k - 1] = s[k]
      BY <1>1, <1>3, <2>2
    <3>2. ~IsResponse(Head(s))
      BY <1>1, <1>3, <2>2 DEF OnlyResponse
    <3>3. OnlyResponse(Tail(s), k - 1)
      <4> SUFFICES ASSUME NEW j \in 1 .. Len(s) - 1
                   PROVE  IsResponse(Tail(s)[j]) <=> j = k - 1
        BY <1>1 DEF OnlyResponse
      <4>1. j + 1 \in DOMAIN s /\ Tail(s)[j] = s[j + 1]
        BY <1>1
      <4> QED
        BY <1>1, <1>3, <3>1, <4>1 DEF OnlyResponse
    <3> QED
      BY <1>1, <3>1, <3>2, <3>3
  <2> QED
    BY <2>1, <2>2
<1> QED
  BY <1>1, <1>2, <1>3

-----------------------------------------------------------------------------
(* TypeOK by kinds of types: numbers and names, flags, queues.             *)
NumberTypes ==
  /\ at \in 1 .. 23 /\ phase \in {"call", "wait"} /\ serial \in Nat
  /\ end \in {"no", "held", "failed"}
  /\ inds \in 0 .. MaxInds /\ tries \in 0 .. MaxTries

FlagTypes ==
  /\ attach_allowed \in BOOLEAN /\ acked \in BOOLEAN /\ cb_due \in BOOLEAN
  /\ fcc_mode \in BOOLEAN /\ fcc_state \in BOOLEAN

QueueTypes ==
  requests \in Seq([of : Nat, call : 1 .. 23]) /\ inbox \in Seq(Messages)

(* The three together are TypeOK, with the messages known more closely.    *)
LEMMA TypesByKind ==
  TypeOK /\ inbox \in Seq(Messages) <=> NumberTypes /\ FlagTypes /\ QueueTypes
<1>1. Messages \subseteq [txid : Nat, code : Nat, of : Nat, val : BOOLEAN]
  BY DEF Messages, MODE_TID, SYNC_TID, ASYNC_TID, AttachAllowedInd, ModeSetRspCb
<1>2. inbox \in Seq(Messages) => inbox \in Seq([txid : Nat, code : Nat, of : Nat, val : BOOLEAN])
  BY <1>1, SeqMonotonic
<1>3. TypeOK => NumberTypes /\ FlagTypes /\ requests \in Seq([of : Nat, call : 1 .. 23])
  BY ScriptLen, Zenon DEF TypeOK, NumberTypes, FlagTypes
<1>4. NumberTypes /\ FlagTypes /\ QueueTypes => TypeOK
  BY <1>2, ScriptLen, Zenon DEF TypeOK, NumberTypes, FlagTypes, QueueTypes
<1> QED
  BY <1>3, <1>4, Zenon DEF QueueTypes

(* Nothing is under way when the script starts.                            *)
LEMMA RpcInit == Init => RpcInv
<1> SUFFICES ASSUME Init PROVE RpcInv
  OBVIOUS
<1>1. NumberTypes
  BY RpcAssumption DEF Init, NumberTypes
<1>2. FlagTypes
  BY Zenon DEF Init, FlagTypes
<1>3. QueueTypes
  BY DEF Init, QueueTypes
<1>4. Asking
  BY DEF Init, Asking, NoResponse
<1>5. at <= GetDns => tries < MaxTries
  BY RpcAssumption DEF Init
<1>6. UnlockedBeforeMode /\ (phase = "wait" => IsCall(at))
  BY DEF Init, UnlockedBeforeMode, ModeSet
<1> QED
  BY <1>1, <1>2, <1>3, <1>4, <1>5, <1>6, TypesByKind DEF RpcInv, Conversation

(* The request the modem answers next is a request.                        *)
LEMMA FirstRequest ==
  ASSUME QueueTypes, requests # <<>>
  PROVE  /\ Head(requests).of \in Nat
         /\ Tail(requests) \in Seq([of : Nat, call : 1 .. 23])
<1> DEFINE R == [of : Nat, call : 1 .. 23]
<1>1. requests \in Seq(R)
  BY DEF QueueTypes
<1>2. \A r \in R : r.of \in Nat
  OBVIOUS
<1> HIDE DEF R
<1>3. Head(requests) \in R /\ Tail(requests) \in Seq(R)
  BY <1>1
<1> QED
  BY <1>2, <1>3 DEF R

(* A value that a message may set is a Boolean.                            *)
LEMMA FlagType ==
  ASSUME NEW m \in Messages, attach_allowed \in BOOLEAN, HandleUnsolicited(m)
  PROVE  attach_allowed' \in BOOLEAN
  BY DEF HandleUnsolicited, Messages

(* A message other than a response that comes leaves the conversation      *)
(* where it was.                                                           *)
LEMMA OtherComes ==
  ASSUME RpcInv, NEW m \in Messages, ~IsResponse(m), inbox' = Append(inbox, m),
         UNCHANGED <<clientVars, requests, fcc_mode, fcc_state>>
  PROVE  inbox' \in Seq(Messages) /\ Conversation'
<1>1. inbox' \in Seq(Messages)
  BY JoinOther DEF RpcInv
<1>2. ASSUME end = "no", at <= Setup PROVE Asking'
  <2> USE DEF clientVars
  <2>1. Asking
    BY <1>2 DEF RpcInv, Conversation
  <2>2. CASE NoResponse(inbox)
    BY <2>1, <2>2, JoinOther DEF RpcInv, Asking, OnlyResponse, NoResponse
  <2>3. CASE /\ phase = "wait" /\ requests = <<>>
             /\ \E k \in DOMAIN inbox : OnlyResponse(inbox, k) /\ Answers(inbox[k])
    <3>1. PICK k \in DOMAIN inbox : OnlyResponse(inbox, k) /\ Answers(inbox[k])
      BY <2>3
    <3>2. k \in DOMAIN inbox' /\ inbox'[k] = inbox[k] /\ OnlyResponse(inbox', k)
      BY <3>1, JoinOther DEF RpcInv
    <3>3. Answers(inbox[k])'
      BY <3>1, <3>2 DEF Answers
    <3> QED
      BY <2>3, <3>2, <3>3 DEF Asking
  <2> QED
    BY <2>1, <2>2, <2>3 DEF Asking
<1> QED
  BY <1>1, <1>2 DEF Conversation, clientVars

(* So does one that is taken.                                              *)
LEMMA OtherTaken ==
  ASSUME RpcInv, inbox # <<>>, ~IsResponse(Head(inbox)), inbox' = Tail(inbox),
         UNCHANGED <<at, phase, serial, end, tries, requests, fcc_mode, fcc_state>>
  PROVE  inbox' \in Seq(Messages) /\ Conversation'
<1>1. inbox' \in Seq(Messages)
  BY Take DEF RpcInv
<1>2. ASSUME end = "no", at <= Setup PROVE Asking'
  <2>1. Asking
    BY <1>2 DEF RpcInv, Conversation
  <2>2. CASE NoResponse(inbox)
    <3>1. NoResponse(inbox')
      BY <2>2, Take DEF RpcInv
    <3>2. ~ \E k \in DOMAIN inbox : OnlyResponse(inbox, k)
      BY <2>2 DEF NoResponse, OnlyResponse
    <3> QED
      BY <2>1, <3>1, <3>2 DEF Asking
  <2>3. CASE /\ phase = "wait" /\ requests = <<>>
             /\ \E k \in DOMAIN inbox : OnlyResponse(inbox, k) /\ Answers(inbox[k])
    <3>1. PICK k \in DOMAIN inbox : OnlyResponse(inbox, k) /\ Answers(inbox[k])
      BY <2>3
    <3>2. k - 1 \in DOMAIN inbox' /\ inbox'[k - 1] = inbox[k] /\ OnlyResponse(inbox', k - 1)
      BY <3>1, Take DEF RpcInv
    <3>3. Answers(inbox[k - 1])'
      BY <3>1, <3>2 DEF Answers
    <3> QED
      BY <2>3, <3>2, <3>3 DEF Asking
  <2> QED
    BY <2>1, <2>2, <2>3 DEF Asking
<1> QED
  BY <1>1, <1>2 DEF Conversation

-----------------------------------------------------------------------------
(* Every step keeps the invariant.                                         *)
LEMMA RpcStep == RpcInv /\ [Next]_vars => RpcInv'
<1> SUFFICES ASSUME RpcInv, [Next]_vars PROVE RpcInv'
  OBVIOUS
<1>t. NumberTypes /\ FlagTypes /\ QueueTypes
  BY TypesByKind DEF RpcInv
<1>g. /\ TypeOK /\ inbox \in Seq(Messages)
      /\ Conversation /\ (phase = "wait" => IsCall(at))
      /\ (at <= GetDns => tries < MaxTries) /\ UnlockedBeforeMode
  BY DEF RpcInv
(* It is enough to show the parts.                                         *)
<1>p. ASSUME NumberTypes', FlagTypes', QueueTypes', Conversation',
             (phase = "wait" => IsCall(at))', (at <= GetDns => tries < MaxTries)',
             UnlockedBeforeMode'
      PROVE  RpcInv'
  <2>1. TypeOK' /\ (inbox \in Seq(Messages))'
    BY <1>p, TypesByKind, PTL
  <2> QED
    BY <1>p, <2>1 DEF RpcInv
<1>1. CASE Execute
  <2>1. NumberTypes'
    BY <1>1, <1>t DEF Execute, NumberTypes, modemVars
  <2>2. FlagTypes'
    BY <1>1, <1>t, Zenon DEF Execute, FlagTypes, modemVars
  <2>3. QueueTypes'
    BY <1>1, <1>t DEF Execute, QueueTypes, NumberTypes
  <2>4. Conversation'
    <3> SUFFICES ASSUME at <= Setup PROVE Asking'
      BY <1>1 DEF Execute, Conversation
    <3>1. requests = <<>> /\ NoResponse(inbox)
      BY <1>1, <1>g DEF Execute, Conversation, Asking
    <3>2. requests' = <<[of |-> serial', call |-> at']>>
      BY <1>1, <3>1 DEF Execute
    <3> QED
      BY <1>1, <3>1, <3>2 DEF Execute, Asking, NoResponse
  <2>5. (phase = "wait" => IsCall(at))'
    BY <1>1 DEF Execute, IsCall
  <2>6. (at <= GetDns => tries < MaxTries)' /\ UnlockedBeforeMode'
    BY <1>1, <1>g DEF Execute, UnlockedBeforeMode, modemVars
  <2> QED
    BY <1>p, <2>1, <2>2, <2>3, <2>4, <2>5, <2>6
(* A message is taken that is no response: the script stays where it is,   *)
(* or leaves a loop that is not execute's.                                 *)
<1>2. ASSUME PumpExecute, ~IsResponse(Head(inbox)) PROVE RpcInv'
  <2>m. Head(inbox) \in Messages /\ TypeOf(Head(inbox)) # "response"
    BY <1>2, <1>g, Take, ResponseType DEF PumpExecute
  <2>u. /\ inbox # <<>> /\ inbox' = Tail(inbox) /\ HandleUnsolicited(Head(inbox))
        /\ UNCHANGED <<at, phase, serial, end, tries, requests, acked, cb_due,
                       fcc_mode, fcc_state, inds>>
    BY <1>2, <2>m DEF PumpExecute, modemVars
  <2>1. NumberTypes'
    BY <1>t, <2>u DEF NumberTypes
  <2>2. FlagTypes'
    BY <1>t, <2>m, <2>u, FlagType, Zenon DEF FlagTypes
  <2>3. inbox' \in Seq(Messages) /\ Conversation'
    BY <1>2, <2>u, OtherTaken
  <2>4. QueueTypes'
    BY <1>t, <2>u, <2>3 DEF QueueTypes
  <2>5. /\ (phase = "wait" => IsCall(at))' /\ (at <= GetDns => tries < MaxTries)'
        /\ UnlockedBeforeMode'
    BY <1>g, <2>u DEF UnlockedBeforeMode, IsCall
  <2> QED
    BY <1>p, <2>1, <2>2, <2>3, <2>4, <2>5
(* The response the call waits for is taken.                               *)
<1>3. ASSUME PumpExecute, IsResponse(Head(inbox)) PROVE RpcInv'
  <2> DEFINE m == Head(inbox)
  <2>m. m \in Messages /\ Tail(inbox) \in Seq(Messages) /\ TypeOf(m) = "response"
    BY <1>3, <1>g, Take, ResponseType DEF PumpExecute
  <2>u. /\ end = "no" /\ phase = "wait" /\ inbox # <<>> /\ inbox' = Tail(inbox)
        /\ HandleUnsolicited(m) /\ After(m)
        /\ UNCHANGED <<serial, requests, acked, cb_due, fcc_mode, fcc_state, inds>>
    BY <1>3, <2>m DEF PumpExecute, modemVars
  <2>s. at \in 1 .. Setup /\ IsCall(at)
    BY <1>g, <1>t, <2>u DEF NumberTypes, IsCall, RspCb, Allowed, Activate, Pumping, Setup
  <2>a. requests = <<>> /\ Answers(m) /\ NoResponse(Tail(inbox))
    <3>1. ~NoResponse(inbox)
      BY <1>3, <1>g, <2>u, Take
    <3>2. Asking
      BY <1>g, <2>u, <2>s DEF Conversation
    <3>3. PICK k \in DOMAIN inbox : OnlyResponse(inbox, k) /\ Answers(inbox[k])
      BY <2>u, <3>1, <3>2 DEF Asking
    <3>4. m = inbox[k] /\ NoResponse(Tail(inbox))
      BY <1>3, <1>g, <2>u, <3>3, Take
    <3> QED
      BY <2>u, <3>1, <3>2, <3>3, <3>4 DEF Asking
  <2>v. m.val \in BOOLEAN
    BY <2>m DEF Messages
  <2>c. \/ phase' = "call" /\ end' = "no"
        \/ at' = at /\ phase' = phase /\ end' \in {"held", "failed"} /\ tries' = tries
    BY <2>u DEF After, GoTo, GiveUp, Established
  (* Where the script goes.                                                *)
  <2>w. \/ at' = at /\ tries' = tries
        \/ at' = at + 1 /\ tries' = tries /\ at \notin {FccVerify, GetDns}
        \/ at = FccQuery /\ m.val /\ at' = ModeSet /\ tries' = tries
        \/ at = FccVerify /\ m.val /\ at' = at + 1 /\ tries' = tries
        \/ at = GetDns /\ m.val /\ at' = at + 1 /\ tries' = tries + 1
        \/ at = GetDns /\ ~m.val /\ at' = GetIp /\ tries' = tries + 1
    BY <2>u, <2>v, <2>s
       DEF After, GoTo, GiveUp, Established, FccQuery, FccVerify, ModeSet, Attach2,
           GetDns, GetIp, Setup, Activate
  <2>1. at' \in 1 .. Activate /\ tries' \in 0 .. MaxTries /\ (at <= GetDns => tries < MaxTries)'
    <3>1. at = GetDns /\ tries >= MaxTries - 1 => m.val
      BY <2>a DEF Answers
    <3>2. at = GetDns /\ at' = GetIp => tries < MaxTries - 1
      BY <1>t, <2>w, <3>1, RpcAssumption DEF NumberTypes, FccQuery, FccVerify, GetDns, GetIp
    <3>3. \/ at' = at /\ tries' = tries
          \/ at' = at + 1 /\ tries' = tries /\ at # GetDns
          \/ at = FccQuery /\ at' = ModeSet /\ tries' = tries
          \/ at = GetDns /\ at' \in {at + 1, GetIp} /\ tries' = tries + 1
      BY <2>w DEF FccVerify, GetDns
    <3>4. /\ tries \in Nat /\ MaxTries \in Nat /\ tries <= MaxTries
          /\ at <= GetDns => tries < MaxTries
      BY <1>g, <1>t, RpcAssumption DEF NumberTypes
    <3> HIDE DEF m
    <3> QED
      BY <2>s, <3>2, <3>3, <3>4 DEF Setup, Activate, GetDns, GetIp, ModeSet, FccQuery
  <2>2. NumberTypes'
    BY <1>t, <2>u, <2>c, <2>1 DEF NumberTypes, Activate
  <2>3. FlagTypes'
    BY <1>t, <2>m, <2>u, FlagType, Zenon DEF FlagTypes
  <2>4. QueueTypes'
    BY <1>t, <2>m, <2>u DEF QueueTypes
  <2>5. Conversation'
    BY <2>u, <2>a, <2>c DEF Conversation, Asking
  <2>6. (phase = "wait" => IsCall(at))'
    BY <1>g, <2>c DEF IsCall
  <2>7. UnlockedBeforeMode'
    BY <1>g, <2>s, <2>a, <2>u, <2>w
       DEF UnlockedBeforeMode, Answers, Setup, GetDns, GetIp, ModeSet, FccQuery, FccVerify
  <2> QED
    BY <1>p, <2>1, <2>2, <2>3, <2>4, <2>5, <2>6, <2>7
<1>4. CASE PumpModeSet
  <2>c. phase = "call" /\ requests = <<>> /\ NoResponse(inbox)
    BY <1>4, <1>g, <1>t DEF PumpModeSet, Conversation, Asking, NumberTypes, IsCall, RspCb, Setup
  <2>m. /\ Head(inbox) \in Messages /\ Tail(inbox) \in Seq(Messages)
        /\ NoResponse(Tail(inbox))
    BY <1>4, <1>g, <2>c, Take DEF PumpModeSet
  <2>u. /\ at = RspCb /\ inbox' = Tail(inbox) /\ HandleUnsolicited(Head(inbox))
        /\ at' \in {at, at + 1} /\ phase' = "call" /\ end' \in {"no", "failed"}
        /\ UNCHANGED <<serial, tries, requests, acked, cb_due, fcc_mode, fcc_state, inds>>
    BY <1>4, <2>c DEF PumpModeSet, GoTo, GiveUp, modemVars
  <2>1. NumberTypes'
    BY <1>t, <2>u DEF NumberTypes, RspCb
  <2>2. FlagTypes'
    BY <1>t, <2>m, <2>u, FlagType, Zenon DEF FlagTypes
  <2>3. QueueTypes'
    BY <1>t, <2>m, <2>u DEF QueueTypes
  <2>4. Conversation' /\ (phase = "wait" => IsCall(at))'
    BY <2>c, <2>m, <2>u DEF Conversation, Asking
  <2>5. (at <= GetDns => tries < MaxTries)' /\ UnlockedBeforeMode'
    BY <1>g, <2>u DEF UnlockedBeforeMode, RspCb, GetDns, ModeSet
  <2> QED
    BY <1>p, <2>1, <2>2, <2>3, <2>4, <2>5
<1>5. CASE PumpAllowed
  <2>c. phase = "call" /\ NoResponse(inbox)
    BY <1>5, <1>g, <1>t DEF PumpAllowed, Conversation, Asking, NumberTypes, IsCall, Allowed, Setup
  <2>m. Head(inbox) \in Messages /\ ~IsResponse(Head(inbox))
    BY <1>5, <1>g, <2>c, Take DEF PumpAllowed
  <2>u. /\ inbox # <<>> /\ inbox' = Tail(inbox) /\ HandleUnsolicited(Head(inbox))
        /\ UNCHANGED <<at, phase, serial, end, tries, requests, acked, cb_due,
                       fcc_mode, fcc_state, inds>>
    BY <1>5 DEF PumpAllowed, modemVars
  <2>1. NumberTypes'
    BY <1>t, <2>u DEF NumberTypes
  <2>2. FlagTypes'
    BY <1>t, <2>m, <2>u, FlagType, Zenon DEF FlagTypes
  <2>3. inbox' \in Seq(Messages) /\ Conversation'
    BY <2>m, <2>u, OtherTaken
  <2>4. QueueTypes'
    BY <1>t, <2>u, <2>3 DEF QueueTypes
  <2>5. /\ (phase = "wait" => IsCall(at))' /\ (at <= GetDns => tries < MaxTries)'
        /\ UnlockedBeforeMode'
    BY <1>g, <2>u DEF UnlockedBeforeMode, IsCall
  <2> QED
    BY <1>p, <2>1, <2>2, <2>3, <2>4, <2>5
(* The session is up: a message is dropped whatever it is.                 *)
<1>6. CASE PumpForever
  <2>m. Head(inbox) \in Messages /\ Tail(inbox) \in Seq(Messages)
    BY <1>6, <1>g, Take DEF PumpForever
  <2>u. /\ at = Pumping /\ inbox' = Tail(inbox) /\ HandleUnsolicited(Head(inbox))
        /\ UNCHANGED <<at, phase, serial, end, tries, requests, acked, cb_due,
                       fcc_mode, fcc_state, inds>>
    BY <1>6 DEF PumpForever, modemVars
  <2>1. NumberTypes'
    BY <1>t, <2>u DEF NumberTypes
  <2>2. FlagTypes'
    BY <1>t, <2>m, <2>u, FlagType, Zenon DEF FlagTypes
  <2>3. QueueTypes' /\ Conversation'
    BY <1>t, <2>m, <2>u DEF QueueTypes, Conversation, Pumping, Setup
  <2>4. /\ (phase = "wait" => IsCall(at))' /\ (at <= GetDns => tries < MaxTries)'
        /\ UnlockedBeforeMode'
    BY <1>g, <2>u DEF UnlockedBeforeMode, IsCall
  <2> QED
    BY <1>p, <2>1, <2>2, <2>3, <2>4
<1>7. CASE AllowedSeen
  <2>c. phase = "call" /\ requests = <<>> /\ NoResponse(inbox)
    BY <1>7, <1>g, <1>t DEF AllowedSeen, Conversation, Asking, NumberTypes, IsCall, Allowed, Setup
  <2>u. /\ at = Allowed /\ at' = at + 1 /\ phase' = "call"
        /\ UNCHANGED <<end, serial, tries, requests, inbox, attach_allowed, acked, cb_due,
                       fcc_mode, fcc_state, inds>>
    BY <1>7 DEF AllowedSeen, GoTo, modemVars
  <2>1. NumberTypes'
    BY <1>t, <2>u DEF NumberTypes, Allowed
  <2>2. FlagTypes'
    BY <1>t, <2>u, Zenon DEF FlagTypes
  <2>3. QueueTypes' /\ Conversation'
    BY <1>t, <2>c, <2>u DEF QueueTypes, Conversation, Asking, NoResponse
  <2>4. /\ (phase = "wait" => IsCall(at))' /\ (at <= GetDns => tries < MaxTries)'
        /\ UnlockedBeforeMode'
    BY <1>g, <2>u DEF UnlockedBeforeMode, Allowed, GetDns, ModeSet
  <2> QED
    BY <1>p, <2>1, <2>2, <2>3, <2>4
(* The script ends, or gives up what is still under way.                   *)
<1>8. CASE ActivateGsm \/ DeviceError
  <2>u. /\ \/ at' = at /\ phase' = phase /\ end' \in {"held", "failed"}
           \/ at >= Setup /\ at' \in {Activate, Pumping} /\ phase' = "call" /\ end' = end
        /\ UNCHANGED <<serial, tries, requests, inbox, attach_allowed, acked, cb_due,
                       fcc_mode, fcc_state, inds>>
    BY <1>8 DEF ActivateGsm, DeviceError, Established, GoTo, GiveUp, modemVars, Setup, Activate
  <2>1. NumberTypes'
    BY <1>t, <2>u DEF NumberTypes, Activate, Pumping
  <2>2. FlagTypes'
    BY <1>t, <2>u, Zenon DEF FlagTypes
  <2>3. QueueTypes' /\ Conversation'
    BY <1>t, <2>u DEF QueueTypes, Conversation, Setup, Activate, Pumping
  <2>4. (phase = "wait" => IsCall(at))'
    BY <1>g, <2>u DEF IsCall
  <2>5. (at <= GetDns => tries < MaxTries)'
    BY <1>g, <2>u DEF Setup, Activate, Pumping, GetDns
  <2>6. UnlockedBeforeMode'
    BY <1>g, <1>t, <2>u DEF UnlockedBeforeMode, NumberTypes, Setup, Activate, Pumping, ModeSet
  <2> QED
    BY <1>p, <2>1, <2>2, <2>3, <2>4, <2>5, <2>6
<1>9. ASSUME NEW m \in Messages, ~IsResponse(m), inbox' = Append(inbox, m),
             UNCHANGED <<clientVars, requests, fcc_mode, fcc_state>>,
             acked' \in BOOLEAN, cb_due' \in BOOLEAN, inds' \in 0 .. MaxInds
      PROVE  RpcInv'
  <2> USE DEF clientVars
  <2>1. NumberTypes'
    BY <1>t, <1>9 DEF NumberTypes
  <2>2. FlagTypes'
    BY <1>t, <1>9, Zenon DEF FlagTypes
  <2>3. inbox' \in Seq(Messages) /\ Conversation'
    BY <1>9, OtherComes
  <2>4. QueueTypes'
    BY <1>t, <1>9, <2>3 DEF QueueTypes
  <2>5. /\ (phase = "wait" => IsCall(at))' /\ (at <= GetDns => tries < MaxTries)'
        /\ UnlockedBeforeMode'
    BY <1>g, <1>9 DEF UnlockedBeforeMode, IsCall
  <2> QED
    BY <1>p, <2>1, <2>2, <2>3, <2>4, <2>5
<1>10. CASE ModemAck
  <2> DEFINE m == Message(ASYNC_TID, 2000, Head(requests).of, TRUE)
  <2>1. Head(requests).of \in Nat
    BY <1>10, <1>t, FirstRequest DEF ModemAck
  <2>2. m \in Messages /\ ~IsResponse(m)
    BY <2>1 DEF Message, Messages, IsResponse, ASYNC_TID, SYNC_TID
  <2>3. /\ inbox' = Append(inbox, m)
        /\ UNCHANGED <<clientVars, requests, fcc_mode, fcc_state>>
    BY <1>10, Zenon DEF ModemAck
  <2>4. acked' \in BOOLEAN /\ cb_due' \in BOOLEAN
    BY <1>10, <1>t, Zenon DEF ModemAck, FlagTypes
  <2>5. inds' \in 0 .. MaxInds
    BY <1>10, <1>t DEF ModemAck, NumberTypes
  <2> HIDE DEF m
  <2> QED
    BY <1>9, <2>2, <2>3, <2>4, <2>5
<1>11. CASE ModemModeSet
  <2>1. PICK val \in BOOLEAN : inbox' = Append(inbox, Message(MODE_TID, ModeSetRspCb, 0, val))
    BY <1>11 DEF ModemModeSet
  <2> DEFINE m == Message(MODE_TID, ModeSetRspCb, 0, val)
  <2>2. m \in Messages /\ ~IsResponse(m)
    BY DEF Message, Messages, IsResponse, ASYNC_TID, SYNC_TID, MODE_TID
  <2>3. UNCHANGED <<clientVars, requests, fcc_mode, fcc_state>>
    BY <1>11, Zenon DEF ModemModeSet
  <2>4. acked' \in BOOLEAN /\ cb_due' \in BOOLEAN
    BY <1>11, <1>t, Zenon DEF ModemModeSet, FlagTypes
  <2>5. inds' \in 0 .. MaxInds
    BY <1>11, <1>t DEF ModemModeSet, NumberTypes
  <2>6. inbox' = Append(inbox, m)
    BY <2>1
  <2> HIDE DEF m
  <2> QED
    BY <1>9, <2>2, <2>3, <2>4, <2>5, <2>6
<1>12. CASE ModemIndicate
  <2>1. PICK val \in BOOLEAN : inbox' = Append(inbox, Message(0, AttachAllowedInd, 0, val))
    BY <1>12 DEF ModemIndicate
  <2> DEFINE m == Message(0, AttachAllowedInd, 0, val)
  <2>2. m \in Messages /\ ~IsResponse(m)
    BY DEF Message, Messages, IsResponse, ASYNC_TID, SYNC_TID
  <2>3. UNCHANGED <<clientVars, requests, fcc_mode, fcc_state>>
    BY <1>12, Zenon DEF ModemIndicate
  <2>4. acked' \in BOOLEAN /\ cb_due' \in BOOLEAN
    BY <1>12, <1>t, Zenon DEF ModemIndicate, FlagTypes
  <2>5. inds' \in 0 .. MaxInds
    BY <1>12, <1>t, RpcAssumption DEF ModemIndicate, NumberTypes
  <2>6. inbox' = Append(inbox, m)
    BY <2>1
  <2> HIDE DEF m
  <2> QED
    BY <1>9, <2>2, <2>3, <2>4, <2>5, <2>6
(* The request is answered: its response is the only one under way.        *)
<1>13. CASE ModemRespond
  <2> DEFINE q == Head(requests)
             m(val) == Message(IF IsAsync(q.call) THEN ASYNC_TID ELSE SYNC_TID, 1, q.of, val)
  <2>q. requests # <<>> /\ q.of \in Nat /\ Tail(requests) \in Seq([of : Nat, call : 1 .. 23])
    BY <1>13, <1>t, FirstRequest DEF ModemRespond
  <2>v. PICK val \in BOOLEAN :
          /\ q.call = FccQuery => val = (~fcc_mode \/ fcc_state)
          /\ q.call = GetDns /\ tries >= MaxTries - 1 => val
          /\ inbox' = Append(inbox, m(val))
          /\ fcc_state' = (fcc_state \/ (q.call = FccVerify /\ val))
          /\ cb_due' = (q.call = ModeSet /\ val)
    BY <1>13 DEF ModemRespond
  <2>u. /\ requests' = Tail(requests) /\ acked' = FALSE
        /\ UNCHANGED <<at, phase, serial, attach_allowed, end, tries, fcc_mode, inds>>
    BY <1>13 DEF ModemRespond, clientVars
  <2>m. m(val) \in Messages /\ IsResponse(m(val)) /\ m(val).of = q.of /\ m(val).val = val
    BY <2>q DEF Message, Messages, IsResponse, ASYNC_TID, SYNC_TID
  <2>1. NumberTypes'
    BY <1>t, <2>u DEF NumberTypes
  <2>2. FlagTypes'
    BY <1>t, <2>u, <2>v, Zenon DEF FlagTypes
  <2>3. QueueTypes'
    BY <1>t, <2>q, <2>m, <2>u, <2>v DEF QueueTypes
  <2>4. Conversation'
    <3> SUFFICES ASSUME end = "no", at <= Setup PROVE Asking'
      BY <2>u DEF Conversation
    <3>1. /\ phase = "wait" /\ requests = <<[of |-> serial, call |-> at]>>
          /\ NoResponse(inbox)
      BY <1>g, <2>q DEF Conversation, Asking
    <3>2. requests' = <<>> /\ q.of = serial /\ q.call = at
      BY <2>u, <3>1
    <3>3. PICK k \in DOMAIN inbox' : inbox'[k] = m(val) /\ OnlyResponse(inbox', k)
      BY <1>g, <2>v, <2>m, <3>1, JoinResponse
    <3>4. Answers(inbox[k])'
      BY <2>u, <2>v, <2>m, <3>2, <3>3 DEF Answers
    <3> QED
      BY <2>u, <3>1, <3>2, <3>3, <3>4 DEF Asking
  <2>5. /\ (phase = "wait" => IsCall(at))' /\ (at <= GetDns => tries < MaxTries)'
        /\ UnlockedBeforeMode'
    BY <1>g, <2>u, <2>v DEF UnlockedBeforeMode, IsCall
  <2> QED
    BY <1>p, <2>1, <2>2, <2>3, <2>4, <2>5
<1>14. CASE UNCHANGED vars
  <2> USE DEF vars, clientVars, modemVars
  <2>1. NumberTypes' /\ QueueTypes'
    BY <1>t, <1>14 DEF NumberTypes, QueueTypes
  <2>2. FlagTypes'
    BY <1>t, <1>14, Zenon DEF FlagTypes
  <2>3. Conversation'
    BY <1>g, <1>14 DEF Conversation, Asking, NoResponse, OnlyResponse, Answers
  <2>4. /\ (phase = "wait" => IsCall(at))' /\ (at <= GetDns => tries < MaxTries)'
        /\ UnlockedBeforeMode'
    BY <1>g, <1>14 DEF UnlockedBeforeMode, IsCall
  <2> QED
    BY <1>p, <2>1, <2>2, <2>3, <2>4
<1> QED
  BY <1>1, <1>2, <1>3, <1>4, <1>5, <1>6, <1>7, <1>8, <1>10, <1>11, <1>12, <1>13, <1>14
     DEF Next, ClientStep, ModemStep

(* The invariant holds of every behaviour.                                 *)
LEMMA RpcAlways == Spec => []RpcInv
  BY RpcInit, RpcStep, PTL DEF Spec

-----------------------------------------------------------------------------
(* The state of the conversation is well typed; in particular the script   *)
(* never runs off its end, and get_ip is not tried more often than the     *)
(* modem makes it.                                                         *)
THEOREM TypesHold == Spec => []TypeOK
<1>1. RpcInv => TypeOK
  BY DEF RpcInv
<1> QED
  BY <1>1, RpcAlways, PTL

(* execute returns the response to its own request: none is under way but  *)
(* the one the client waits for, and at most one request is.               *)
THEOREM ResponsesMatch == Spec => []ResponseMatches
<1>1. RpcInv => ResponseMatches
  <2> SUFFICES ASSUME RpcInv, end = "no", at <= Setup
               PROVE  /\ Len(requests) + Cardinality(Responses)
                           = IF phase = "wait" THEN 1 ELSE 0
                      /\ \A k \in Responses : inbox[k].of = serial
    BY DEF ResponseMatches
  <2>1. Responses = {k \in DOMAIN inbox : IsResponse(inbox[k])}
    BY DEF Responses, IsResponse
  <2>2. Asking
    BY DEF RpcInv, Conversation
  <2>3. CASE NoResponse(inbox)
    <3>1. Responses = {}
      BY <2>1, <2>3 DEF NoResponse
    <3>2. Cardinality(Responses) = 0
      BY <3>1, FS_EmptySet
    <3>3. ~ \E k \in DOMAIN inbox : OnlyResponse(inbox, k)
      BY <2>3 DEF NoResponse, OnlyResponse
    <3>4. Len(requests) = IF phase = "wait" THEN 1 ELSE 0
      BY <2>2, <3>3 DEF Asking
    <3> QED
      BY <3>1, <3>2, <3>4
  <2>4. CASE ~NoResponse(inbox)
    <3>1. phase = "wait" /\ requests = <<>>
      BY <2>2, <2>4 DEF Asking
    <3>2. PICK k \in DOMAIN inbox : OnlyResponse(inbox, k) /\ Answers(inbox[k])
      BY <2>2, <2>4 DEF Asking
    <3>3. Responses = {k}
      BY <2>1, <3>2 DEF OnlyResponse
    <3>4. Cardinality(Responses) = 1
      BY <3>3, FS_Singleton
    <3> QED
      BY <3>1, <3>2, <3>3, <3>4 DEF Answers
  <2> QED
    BY <2>3, <2>4
<1> QED
  BY <1>1, RpcAlways, PTL

(* UtaModeSet is only called on a modem whose FCC lock is off or was       *)
(* opened, on every path through do_fcc_unlock.                            *)
THEOREM ModeSetIsUnlocked == Spec => []UnlockedBeforeMode
<1>1. RpcInv => UnlockedBeforeMode
  BY DEF RpcInv
<1> QED
  BY <1>1, RpcAlways, PTL

-----------------------------------------------------------------------------
(* Requests are only ever made by calls.                                   *)
CallsOnly ==
  \A k \in DOMAIN requests : requests[k].call \in DOMAIN Script /\ IsCall(requests[k].call)

(* execute adds one, the modem takes the first, nothing else changes them. *)
LEMMA CallsOnlyStep ==
  ASSUME RpcInv, CallsOnly, [Next]_vars
  PROVE  CallsOnly'
<1> DEFINE R == [of : Nat, call : 1 .. 23]
           Good(r) == r.call \in DOMAIN Script /\ IsCall(r.call)
<1>t. NumberTypes /\ requests \in Seq(R)
  BY TypesByKind DEF RpcInv, QueueTypes
<1>d. DOMAIN Script = 1 .. 23
  BY SMT DEF Script
<1>g. \A k \in 1 .. Len(requests) : Good(requests[k])
  BY <1>t DEF CallsOnly
<1>1. CASE UNCHANGED requests
  BY <1>1 DEF CallsOnly
<1>2. CASE Execute
  <2> DEFINE r == [of |-> serial + 1, call |-> at]
  <2>1. r \in R /\ Good(r)
    BY <1>2, <1>d, <1>t DEF Execute, NumberTypes
  <2>2. requests' = Append(requests, r)
    BY <1>2 DEF Execute
  <2> HIDE DEF r, R
  <2>3. DOMAIN requests' = 1 .. Len(requests) + 1 /\ Len(requests) \in Nat
        /\ requests'[Len(requests) + 1] = r
        /\ \A k \in 1 .. Len(requests) : requests'[k] = requests[k]
    BY <1>t, <2>1, <2>2
  <2> HIDE DEF Good
  <2>4. \A k \in DOMAIN requests' : Good(requests'[k])
    BY <1>g, <2>1, <2>3
  <2> QED
    BY <2>4, Zenon DEF CallsOnly, Good
<1>3. CASE ModemRespond
  <2>1. requests # <<>> /\ requests' = Tail(requests)
    BY <1>3 DEF ModemRespond
  <2> HIDE DEF R
  <2>2. Len(requests) \in Nat /\ DOMAIN requests' = 1 .. Len(requests) - 1
        /\ \A k \in 1 .. Len(requests) - 1 : requests'[k] = requests[k + 1]
    BY <1>t, <2>1
  <2> HIDE DEF Good
  <2>3. \A k \in DOMAIN requests' : Good(requests'[k])
    BY <1>g, <2>2
  <2> QED
    BY <2>3, Zenon DEF CallsOnly, Good
<1>4. CASE PumpExecute \/ PumpModeSet \/ PumpAllowed \/ PumpForever
  BY <1>1, <1>4 DEF PumpExecute, PumpModeSet, PumpAllowed, PumpForever
<1>5. CASE AllowedSeen \/ ActivateGsm \/ DeviceError
  BY <1>1, <1>5 DEF AllowedSeen, ActivateGsm, DeviceError
<1>6. CASE ModemAck
  BY <1>1, <1>6 DEF ModemAck
<1>8. CASE ModemModeSet
  BY <1>1, <1>8 DEF ModemModeSet
<1>9. CASE ModemIndicate
  BY <1>1, <1>9 DEF ModemIndicate
<1>7. CASE UNCHANGED vars
  BY <1>1, <1>7 DEF vars
<1> QED
  BY <1>2, <1>3, <1>4, <1>5, <1>6, <1>7, <1>8, <1>9, Zenon DEF Next, ClientStep, ModemStep

(* So only calls are ever under way.                                       *)
LEMMA CallsOnlyAlways == Spec => []CallsOnly
<1>1. Init => CallsOnly
  BY DEF Init, CallsOnly
<1>2. RpcInv /\ CallsOnly /\ [Next]_vars => CallsOnly'
  BY CallsOnlyStep
<1> QED
  BY <1>1, <1>2, RpcAlways, PTL DEF Spec

(* Whatever is under way to the modem was packed without an exception, and *)
(* decodes into the fields it was packed from.                             *)
THEOREM PackedIsReadAlways == Spec => []PackedIsRead
<1>1. ASSUME CallsOnly PROVE PackedIsRead
  <2>1. ASSUME NEW k \in DOMAIN requests, requests[k].call # Setup
        PROVE  RequestRead[Script[requests[k].call]]
    <3>1. Script[requests[k].call] \in Calls
      BY <1>1, <2>1, CallNames, Zenon DEF CallsOnly
    <3> QED
      BY <3>1, RequestsRead, Zenon
  <2> QED
    BY <2>1, StringsAreRead, Zenon DEF PackedIsRead
<1>2. CallsOnly => PackedIsRead
  BY <1>1
<1> QED
  BY <1>2, CallsOnlyAlways, PTL

(* The connect request under way was cut and spliced between fields.       *)
THEOREM SetupIsSplicedAlways == Spec => []SetupIsSpliced
<1>1. SetupIsSpliced
  BY SplicedRequests, Zenon DEF SetupIsSpliced
<1> QED
  BY <1>1, PTL

=============================================================================
