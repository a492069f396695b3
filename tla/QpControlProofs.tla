-------------------------- MODULE QpControlProofs --------------------------
(***************************************************************************)
(* Proofs about CmdRing and QpControl, for every set of threads and of     *)
(* queue pairs and every size of the rings.                                *)
(***************************************************************************)
EXTENDS QpControl, FiniteSetTheorems, TLAPS

(***************************************************************************)
(* What the command ring guarantees for every ring size, every set of      *)
(* commands and every way a wait may end, as long as one thread at a time  *)
(* executes commands (one queue pair: its mutex).  The assumption is       *)
(* SingleCaller; the theorems carry it as a hypothesis because the driver  *)
(* itself does not establish it across queue pairs.                        *)
(***************************************************************************)
SingleCaller == \A s, t \in Callers : s = t

(* What the caller's position says of its slot; with the type invariant    *)
(* this makes CommandKept inductive.                                       *)
SlotInv ==
  \A t \in Callers :
    /\ pc[t] \in {"write", "publish"} =>
         slot[t] = c_wptr /\ NextSlot(c_wptr) # c_rptr
    /\ pc[t] # "idle" => cmd[t] \in Cmds
    /\ pc[t] = "publish" => c_ring[c_wptr] = cmd[t]
    /\ pc[t] \in {"ding", "wait"} => c_ring[slot[t]] = cmd[t]

CmdInv == CmdTypeOK /\ SlotInv /\ \A i \in Pending : c_ring[i] \in Cmds

-----------------------------------------------------------------------------
(* The successor of a slot is the next one, or 0 after the last.           *)
LEMMA NextSlotValue ==
  ASSUME NEW i \in Slots
  PROVE  /\ NextSlot(i) \in Slots
         /\ NextSlot(i) = IF i = CMD_RING_SIZE - 1 THEN 0 ELSE i + 1
<1>1. CASE i = CMD_RING_SIZE - 1
  BY <1>1, CmdRingAssumption DEF Slots, NextSlot
<1>2. CASE i # CMD_RING_SIZE - 1
  BY <1>2, CmdRingAssumption DEF Slots, NextSlot
<1> QED
  BY <1>1, <1>2

(* The slot at the write pointer is free, and publishing it adds exactly   *)
(* that slot to the pending ones unless the ring is full.                  *)
LEMMA PublishAdds ==
  ASSUME CmdTypeOK, c_rptr' = c_rptr, c_wptr' = NextSlot(c_wptr),
         NextSlot(c_wptr) # c_rptr
  PROVE  Pending' = Pending \cup {c_wptr}
<1>1. c_wptr \in Slots /\ c_rptr \in Slots
  BY DEF CmdTypeOK
<1>2. NextSlot(c_wptr) = IF c_wptr = CMD_RING_SIZE - 1 THEN 0 ELSE c_wptr + 1
  BY <1>1, NextSlotValue
<1>3. ASSUME NEW i \in Slots
      PROVE  Dist(c_rptr, i) < Dist(c_rptr, NextSlot(c_wptr))
               <=> (Dist(c_rptr, i) < Dist(c_rptr, c_wptr) \/ i = c_wptr)
  BY <1>1, <1>2, CmdRingAssumption DEF Dist, Slots
<1>4. Pending' = {i \in Slots : Dist(c_rptr, i) < Dist(c_rptr, NextSlot(c_wptr))}
  BY DEF Pending, Dist
<1> QED
  BY <1>1, <1>3, <1>4 DEF Pending

(* The slot about to be written holds no command the modem still owes.     *)
LEMMA WptrNotPending == CmdTypeOK => c_wptr \notin Pending
BY CmdRingAssumption DEF CmdTypeOK, Pending, Dist, Slots

(* The modem consuming an entry removes exactly the slot at c_rptr.        *)
LEMMA ConsumeRemoves ==
  ASSUME CmdTypeOK, c_wptr' = c_wptr, c_rptr' = NextSlot(c_rptr),
         c_rptr # c_wptr
  PROVE  Pending' = Pending \ {c_rptr}
<1>1. c_wptr \in Slots /\ c_rptr \in Slots
  BY DEF CmdTypeOK
<1>2. NextSlot(c_rptr) = IF c_rptr = CMD_RING_SIZE - 1 THEN 0 ELSE c_rptr + 1
  BY <1>1, NextSlotValue
<1>3. ASSUME NEW i \in Slots
      PROVE  Dist(NextSlot(c_rptr), i) < Dist(NextSlot(c_rptr), c_wptr)
               <=> (Dist(c_rptr, i) < Dist(c_rptr, c_wptr) /\ i # c_rptr)
  BY <1>1, <1>2, CmdRingAssumption DEF Dist, Slots
<1>4. Pending' = {i \in Slots : Dist(NextSlot(c_rptr), i)
                                   < Dist(NextSlot(c_rptr), c_wptr)}
  BY DEF Pending, Dist
<1> QED
  BY <1>1, <1>3, <1>4 DEF Pending

-----------------------------------------------------------------------------
(* The ring's state is well typed, for any number of callers.              *)
LEMMA CmdTyping == CmdTypeOK /\ [CmdNext]_cmdVars => CmdTypeOK'
<1> SUFFICES ASSUME CmdTypeOK, [CmdNext]_cmdVars
             PROVE  CmdTypeOK'
  OBVIOUS
<1> USE DEF CmdTypeOK
<1>1. ASSUME NEW t \in Callers, NEW c \in Cmds, Execute(t, c)
      PROVE  CmdTypeOK'
  BY <1>1 DEF Execute, Return, CallerPc, Returns
<1>2. ASSUME NEW t \in Callers, WriteEntry(t)
      PROVE  CmdTypeOK'
  BY <1>2 DEF WriteEntry, CallerPc
<1>3. ASSUME NEW t \in Callers, Publish(t)
      PROVE  CmdTypeOK'
  BY <1>3, NextSlotValue DEF Publish, CallerPc
<1>4. ASSUME NEW t \in Callers, Ding(t)
      PROVE  CmdTypeOK'
  BY <1>4 DEF Ding, Poll, CallerPc
<1>5. ASSUME NEW t \in Callers, WaitDone(t) \/ WaitCut(t)
      PROVE  CmdTypeOK'
  BY <1>5 DEF WaitDone, WaitCut, Return, CallerPc, Returns
<1>6. CASE IrqPoll
  BY <1>6 DEF IrqPoll, Poll
<1>7. CASE ModemConsume
  BY <1>7, NextSlotValue DEF ModemConsume
<1>8. CASE ModemCrash
  BY <1>8 DEF ModemCrash
<1>9. CASE UNCHANGED cmdVars
  BY <1>9 DEF cmdVars
<1> QED
  BY <1>1, <1>2, <1>3, <1>4, <1>5, <1>6, <1>7, <1>8, <1>9
     DEF CmdNext, ExecuteStep

(* A step of a single caller, of the interrupt handler or of the modem     *)
(* preserves the invariant: what is written is the free slot at c_wptr,    *)
(* what is published is a slot already filled in.                          *)
LEMMA CmdInvStep ==
  ASSUME SingleCaller, CmdInv, [CmdNext]_cmdVars
  PROVE  CmdInv'
<1> USE DEF CmdInv, SlotInv
<1>0. CmdTypeOK'
  BY CmdTyping
<1>w. c_wptr \in Slots /\ c_wptr \notin Pending
  BY WptrNotPending DEF CmdTypeOK
<1>1. ASSUME NEW t \in Callers, NEW c \in Cmds, Execute(t, c)
      PROVE  CmdInv'
  <2>1. Pending' = Pending /\ c_ring' = c_ring /\ c_wptr' = c_wptr /\ c_rptr' = c_rptr
    BY <1>1 DEF Execute, Pending
  <2>2. SlotInv'
    BY <1>1, <2>1 DEF SingleCaller, Execute, Return, CmdTypeOK, NextSlot
  <2> QED
    BY <1>0, <2>1, <2>2
<1>2. ASSUME NEW t \in Callers, WriteEntry(t)
      PROVE  CmdInv'
  <2>1. Pending' = Pending /\ c_wptr' = c_wptr /\ c_rptr' = c_rptr
    BY <1>2 DEF WriteEntry, Pending
  <2>2. /\ slot[t] = c_wptr
        /\ c_ring' = [c_ring EXCEPT ![c_wptr] = cmd[t]]
    BY <1>2 DEF WriteEntry
  <2>3. SlotInv'
    BY <1>2, <2>1, <2>2, <1>w DEF SingleCaller, WriteEntry, CmdTypeOK, NextSlot
  <2>4. \A i \in Pending' : c_ring'[i] \in Cmds
    BY <2>1, <2>2, <1>w DEF CmdTypeOK, Pending
  <2> QED
    BY <1>0, <2>3, <2>4
<1>3. ASSUME NEW t \in Callers, Publish(t)
      PROVE  CmdInv'
  <2>1. /\ c_wptr' = NextSlot(c_wptr) /\ c_rptr' = c_rptr /\ c_ring' = c_ring
        /\ NextSlot(c_wptr) # c_rptr
        /\ c_ring[c_wptr] = cmd[t] /\ cmd[t] \in Cmds
    BY <1>3 DEF Publish
  <2>2. Pending' = Pending \cup {c_wptr}
    BY <2>1, PublishAdds
  <2>3. SlotInv'
    BY <1>3, <2>1 DEF SingleCaller, Publish, CmdTypeOK
  <2>4. \A i \in Pending' : c_ring'[i] \in Cmds
    BY <2>1, <2>2
  <2> QED
    BY <1>0, <2>3, <2>4
<1>4. ASSUME NEW t \in Callers, Ding(t) \/ WaitDone(t) \/ WaitCut(t)
      PROVE  CmdInv'
  <2>1. Pending' = Pending /\ c_ring' = c_ring /\ c_wptr' = c_wptr /\ c_rptr' = c_rptr
    BY <1>4 DEF Ding, WaitDone, WaitCut, Pending
  <2>2. SlotInv'
    BY <1>4, <2>1 DEF SingleCaller, Ding, WaitDone, WaitCut, Return, CmdTypeOK
  <2> QED
    BY <1>0, <2>1, <2>2
<1>5. CASE IrqPoll \/ ModemCrash \/ UNCHANGED cmdVars
  <2>1. /\ Pending' = Pending /\ c_ring' = c_ring /\ c_wptr' = c_wptr
        /\ c_rptr' = c_rptr /\ pc' = pc /\ slot' = slot /\ cmd' = cmd
    BY <1>5 DEF IrqPoll, ModemCrash, cmdVars, Pending
  <2> QED
    BY <1>0, <2>1 DEF NextSlot
<1>6. CASE ModemConsume
  <2>1. /\ c_wptr' = c_wptr /\ c_rptr' = NextSlot(c_rptr) /\ c_rptr # c_wptr
        /\ c_ring' = c_ring /\ pc' = pc /\ slot' = slot /\ cmd' = cmd
    BY <1>6 DEF ModemConsume
  <2>2. Pending' = Pending \ {c_rptr}
    BY <2>1, ConsumeRemoves
  <2>3. NextSlot(c_wptr) # NextSlot(c_rptr)
    BY <2>1, NextSlotValue, CmdRingAssumption DEF CmdTypeOK, Slots
  <2>4. SlotInv'
    BY <2>1, <2>3 DEF NextSlot
  <2> QED
    BY <1>0, <2>1, <2>2, <2>4
<1> QED
  BY <1>1, <1>2, <1>3, <1>4, <1>5, <1>6 DEF CmdNext, ExecuteStep

(* The invariant holds of the empty ring.                                  *)
LEMMA CmdInvInit == CmdInit => CmdInv
<1> SUFFICES ASSUME CmdInit
             PROVE  CmdInv
  OBVIOUS
<1>0. 0 \in Slots
  BY CmdRingAssumption DEF Slots
<1>1. CmdTypeOK
  BY <1>0 DEF CmdInit, CmdTypeOK, CallerPc, Returns
<1>s. SlotInv
  BY DEF CmdInit, SlotInv
<1>2. Pending = {}
  BY CmdRingAssumption DEF CmdInit, Pending, Dist, Slots
<1> QED
  BY <1>1, <1>s, <1>2 DEF CmdInv

-----------------------------------------------------------------------------
(* With one caller, every command the modem fetches is one that was        *)
(* executed, whole and its caller's own, until it is consumed.             *)
THEOREM CommandsKept ==
  ASSUME SingleCaller
  PROVE  CmdSpec => [](CmdTypeOK /\ CommandKept)
<1>1. CmdInit => CmdInv
  BY CmdInvInit
<1>2. CmdInv /\ [CmdNext]_cmdVars => CmdInv'
  BY CmdInvStep
<1>3. CmdInv => CmdTypeOK /\ CommandKept
  BY DEF CmdInv, SlotInv, CommandKept
<1> QED
  BY <1>1, <1>2, <1>3, PTL DEF CmdSpec

(* With one caller, a published command is never rewritten or withdrawn:   *)
(* it stays pending until the modem consumes it.                           *)
THEOREM PublishedCommandsStay ==
  ASSUME SingleCaller
  PROVE  CmdSpec => PublishedStays
<1> DEFINE Stays == \A i \in Pending :
              \/ i \in Pending' /\ c_ring'[i] = c_ring[i]
              \/ i = c_rptr /\ c_rptr' = NextSlot(i)
<1>1. CmdInit => CmdInv
  BY CmdInvInit
<1>2. CmdInv /\ [CmdNext]_cmdVars => CmdInv'
  BY CmdInvStep
<1>3. CmdInv /\ [CmdNext]_cmdVars => [Stays]_cmdVars
  <2> SUFFICES ASSUME CmdInv, CmdNext
               PROVE  Stays
    OBVIOUS
  <2> USE DEF CmdInv, SlotInv
  <2>1. ASSUME NEW t \in Callers, WriteEntry(t)
        PROVE  Stays
    <3>1. Pending' = Pending /\ c_wptr \notin Pending
      BY <2>1, WptrNotPending DEF WriteEntry, Pending
    <3>2. c_ring' = [c_ring EXCEPT ![c_wptr] = cmd[t]]
      BY <2>1 DEF WriteEntry
    <3> QED
      BY <3>1, <3>2 DEF CmdTypeOK, Pending
  <2>2. ASSUME NEW t \in Callers, Publish(t)
        PROVE  Stays
    <3>1. Pending' = Pending \cup {c_wptr} /\ c_ring' = c_ring
      BY <2>2, PublishAdds DEF Publish
    <3> QED
      BY <3>1
  <2>3. CASE ModemConsume
    <3>1. Pending' = Pending \ {c_rptr} /\ c_ring' = c_ring /\ c_rptr' = NextSlot(c_rptr)
      BY <2>3, ConsumeRemoves DEF ModemConsume
    <3> QED
      BY <3>1
  <2>4. CASE \/ \E t \in Callers, c \in Cmds : Execute(t, c)
             \/ \E t \in Callers : Ding(t) \/ WaitDone(t) \/ WaitCut(t)
             \/ IrqPoll
             \/ ModemCrash
    <3>1. Pending' = Pending /\ c_ring' = c_ring
      BY <2>4 DEF Execute, Ding, WaitDone, WaitCut, IrqPoll, ModemCrash, Pending
    <3> QED
      BY <3>1
  <2> QED
    BY <2>1, <2>2, <2>3, <2>4 DEF CmdNext, ExecuteStep
<1> QED
  BY <1>1, <1>2, <1>3, PTL DEF CmdSpec, PublishedStays

-----------------------------------------------------------------------------
(* The control of the queue pairs.                                         *)

(* A thread inside qp_start or qp_stop has the mutex of its queue pair and *)
(* is at one of its rings; only such a thread is in a command.             *)
MutexInv ==
  /\ \A t \in Callers : stage[t] # "out" =>
       /\ job[t] \in Jobs /\ job[t].ring \in {TxRing(job[t].qp), RxRing(job[t].qp)}
       /\ lock[job[t].qp] = t
  /\ \A t \in Callers : pc[t] # "idle" => stage[t] \in {"opening", "closing"}

(* What the rings of a queue pair are like while a thread works on it ...  *)
Free(r) == depth[r] = 0 /\ ~mem[r]

Starting(s, q, r) ==
  /\ qp_open[q] /\ ~held[q]
  /\ s \in IF r = TxRing(q) THEN {"create", "alloc", "opening"}
                            ELSE {"create", "alloc", "opening", "fill"}
  /\ IF r = TxRing(q) THEN Free(RxRing(q)) ELSE depth[TxRing(q)] # 0
  /\ IF s = "create" THEN Free(r) ELSE depth[r] # 0
  /\ s \in {"opening", "fill"} => mem[r]

Undoing(s, q, r) ==
  /\ qp_open[q] /\ ~held[q] /\ s \in {"destroy", "closing"}
  /\ r = TxRing(q) /\ depth[r] # 0 /\ depth[RxRing(q)] # 0

Stopping(s, q, r) ==
  /\ ~qp_open[q] /\ ~held[q] /\ s \in {"destroy", "closing"}
  /\ depth[r] # 0
  /\ IF r = TxRing(q) THEN depth[RxRing(q)] # 0 ELSE Free(TxRing(q))

(* ... in create_net's qp_stop, which finds one of the two rings only, ... *)
OneLeft(q) ==
  \/ depth[TxRing(q)] # 0 /\ Free(RxRing(q))
  \/ Free(TxRing(q)) /\ depth[RxRing(q)] # 0

GivingUp(s, q, r) ==
  /\ ~qp_open[q] /\ ~held[q] /\ s \in {"destroy", "closing"} /\ q \in NetQps
  /\ s = "closing" => depth[r] # 0
  /\ IF r = TxRing(q) THEN OneLeft(q)
     ELSE Free(TxRing(q)) /\ (depth[r] = 0 => Free(r))

Working(t) ==
  LET q == job[t].qp  r == job[t].ring IN
  /\ job[t].op = "start" => Starting(stage[t], q, r)
  /\ job[t].op = "undo" => Undoing(stage[t], q, r)
  /\ job[t].op = "stop" => Stopping(stage[t], q, r)
  /\ job[t].op = "giveup" => GivingUp(stage[t], q, r)

(* ... and while nobody does.                                              *)
Resting(q) ==
  /\ ~qp_open[q] => Free(TxRing(q)) /\ Free(RxRing(q))
  /\ held[q] => qp_open[q] /\ depth[TxRing(q)] # 0 /\ depth[RxRing(q)] # 0
  /\ qp_open[q] /\ ~held[q] => OneLeft(q)

RingInv ==
  /\ \A t \in Callers : stage[t] # "out" => Working(t)
  /\ \A q \in QPs : lock[q] = NoOne => Resting(q)

-----------------------------------------------------------------------------
(* What a driver-wide mutex would give: one thread at a time.              *)
Serial == \A p, q \in QPs : lock[p] # NoOne /\ lock[q] # NoOne => p = q

(* When td_ring_destroy is about to send its CMD_RING_CLOSE there is a     *)
(* slot for it: cmd_ring_execute will not return -EAGAIN.                  *)
Room ==
  \A t \in Callers : stage[t] = "destroy" /\ depth[job[t].ring] # 0 => NextSlot(c_wptr) # c_rptr

OpenCmd(r)  == [op |-> "OPEN", ring |-> r]
CloseCmd(r) == [op |-> "CLOSE", ring |-> r]

(* The command of the thread that is in one: it is the last of the ring,   *)
(* and when the modem has consumed everything it has consumed it too.      *)
Commanding(t) ==
  /\ cmd[t] = IF stage[t] = "opening" THEN OpenCmd(job[t].ring) ELSE CloseCmd(job[t].ring)
  /\ pc[t] \in {"write", "publish"} => slot[t] = c_wptr /\ NextSlot(c_wptr) # c_rptr
  /\ pc[t] # "write" => c_ring[slot[t]] = cmd[t]
  /\ pc[t] \in {"ding", "wait"} =>
       /\ c_wptr = NextSlot(slot[t])
       /\ c_rptr = c_wptr => modem_ring[job[t].ring] = (stage[t] = "opening")

(* The modem has the ring open and has not been asked to close it.         *)
StaysOpen(r) == modem_ring[r] /\ \A i \in Pending : c_ring[i] # CloseCmd(r)

ThreadOpen(t) ==
  LET q == job[t].qp  r == job[t].ring IN
  /\ pc[t] # "idle" => Commanding(t)
  /\ stage[t] = "opening" /\ pc[t] = "idle" /\ ret[t] = "ok" => StaysOpen(r)
  /\ stage[t] # "out" /\ job[t].op = "start" /\ r = RxRing(q) => StaysOpen(TxRing(q))
  /\ stage[t] = "fill" => StaysOpen(r)

HeldOpen == \A q \in QPs : held[q] => StaysOpen(TxRing(q)) /\ StaysOpen(RxRing(q))

OpenInv == (\A t \in Callers : ThreadOpen(t)) /\ HeldOpen

(* When the modem has consumed every command, it has the ring closed.      *)
EndsClosed(r) ==
  \/ ~modem_ring[r] /\ \A i \in Pending : c_ring[i] # OpenCmd(r)
  \/ \E i \in Pending :
       /\ c_ring[i] = CloseCmd(r)
       /\ \A j \in Pending : c_ring[j] = OpenCmd(r) => Dist(c_rptr, j) < Dist(c_rptr, i)

CloseInv ==
  /\ error => modem = "crashed"
  /\ modem = "ok" => \A r \in Rings : ~mem[r] => EndsClosed(r)
  /\ modem = "ok" => \A t \in Callers :
       stage[t] = "closing" /\ pc[t] \in {"ding", "wait", "idle"} => EndsClosed(job[t].ring)

(* With one queue pair, at most three commands are ever pending: two       *)
(* CMD_RING_CLOSE that timed out and the CMD_RING_OPEN that does so too,   *)
(* or, with the network interface's, the CMD_RING_OPEN of its second ring  *)
(* and the CMD_RING_CLOSE of both.                                         *)
Before(t) ==
  LET q == job[t].qp  first == job[t].ring = TxRing(job[t].qp) IN
  IF job[t].op = "start" THEN IF first /\ q \notin NetQps THEN 2 ELSE 0
  ELSE IF job[t].op = "undo" THEN 1
  ELSE IF job[t].op = "stop" THEN IF first THEN 0 ELSE 1
  ELSE IF first /\ depth[TxRing(q)] # 0 THEN 1 ELSE 2

Sent(t) == stage[t] \in {"opening", "closing"} /\ pc[t] \notin {"write", "publish"}

ThreadBound(t) ==
  /\ Dist(c_rptr, c_wptr) <= Before(t) + IF Sent(t) THEN 1 ELSE 0
  /\ stage[t] = "opening" /\ pc[t] = "idle" /\ ret[t] = "ok" => c_rptr = c_wptr
  /\ job[t].qp \in NetQps => job[t].qp \in created

RestBound(q) ==
  LET n == Dist(c_rptr, c_wptr) IN
  /\ n <= 3
  /\ held[q] => n = 0
  /\ q \notin NetQps /\ ~qp_open[q] => n <= 2
  /\ q \in NetQps \ created => n = 0 /\ ~qp_open[q]
  /\ qp_open[q] /\ q \in NetQps => n <= IF depth[TxRing(q)] # 0 THEN 1 ELSE 2

BoundInv ==
  /\ \A t \in Callers : stage[t] # "out" => ThreadBound(t)
  /\ \A q \in QPs : lock[q] = NoOne => RestBound(q)

-----------------------------------------------------------------------------
(* Ring numbers: two per queue pair, all different.                        *)
LEMMA RingNumbers ==
  /\ \A q \in QPs : TxRing(q) \in Rings /\ RxRing(q) \in Rings
  /\ \A p, q \in QPs : TxRing(p) # RxRing(q)
  /\ \A p, q \in QPs : (TxRing(p) = TxRing(q) \/ RxRing(p) = RxRing(q)) => p = q
<1>1. QPs \subseteq Nat
  BY QpControlAssumption
<1>2. \A q \in QPs : TxRing(q) \in Rings /\ RxRing(q) \in Rings
  BY DEF Rings
<1>3. \A p, q \in Nat : 2 * p # 2 * q + 1
  OBVIOUS
<1>4. \A p, q \in Nat : (2 * p = 2 * q \/ 2 * p + 1 = 2 * q + 1) => p = q
  OBVIOUS
<1> QED
  BY <1>1, <1>2, <1>3, <1>4 DEF TxRing, RxRing

(* The types of the control state proper, and of the rings.                *)
LockTypes ==
  /\ qp_open \in [QPs -> BOOLEAN] /\ held \in [QPs -> BOOLEAN]
  /\ created \subseteq NetQps
  /\ lock \in [QPs -> Callers \cup {NoOne}]
  /\ stage \in [Callers -> Stages] /\ job \in [Callers -> Jobs \cup {NoJob}]

RingTypes ==
  /\ depth \in [Rings -> {0, TD_DEPTH}] /\ mem \in [Rings -> BOOLEAN]
  /\ s_wptr \in [Rings -> Index] /\ s_rptr \in [Rings -> Index]
  /\ last_handled \in [Rings -> Index]
  /\ modem_ring \in [Rings -> BOOLEAN] /\ irq \in BOOLEAN

(* The parts are the type invariant.                                       *)
LEMMA CtlTypesSplit == CtlTypeOK <=> CmdTypeOK /\ LockTypes /\ RingTypes
  BY Zenon DEF CtlTypeOK, LockTypes, RingTypes

(* A step on the queue pairs is a step on the command ring or leaves it.   *)
LEMMA CmdPart ==
  ASSUME LockTypes, MutexInv, [CtlNext]_ctlVars
  PROVE  [CmdNext]_cmdVars
<1>1. ASSUME NEW t \in Callers, NEW q \in QPs, QpStart(t, q) \/ QpStop(t, q) \/ CreateNetFails(t, q)
      PROVE  UNCHANGED cmdVars
  BY <1>1 DEF QpStart, QpStop, CreateNetFails
<1>2. ASSUME NEW t \in Callers, ThreadStep(t)
      PROVE  [CmdNext]_cmdVars
  <2>r. stage[t] # "out" => job[t].ring \in Rings
    BY RingNumbers DEF MutexInv, Jobs
  <2>1. CASE TdRingClear(t) \/ Opened(t) \/ TdRingEmpty(t) \/ TdRingFree(t)
    BY <2>1 DEF TdRingClear, Opened, TdRingEmpty, TdRingFree
  <2>2. CASE TdRingAlloc(t)
    <3>1. [op |-> "OPEN", ring |-> job[t].ring] \in Cmds
      BY <2>r, <2>2, QpControlAssumption DEF TdRingAlloc, RingCmds
    <3>2. Execute(t, [op |-> "OPEN", ring |-> job[t].ring])
      BY <2>2 DEF TdRingAlloc
    <3> QED
      BY <3>1, <3>2 DEF CmdNext
  <2>3. CASE TdRingClose(t)
    <3>1. [op |-> "CLOSE", ring |-> job[t].ring] \in Cmds
      BY <2>r, <2>3, QpControlAssumption DEF TdRingClose, RingCmds
    <3>2. Execute(t, [op |-> "CLOSE", ring |-> job[t].ring])
      BY <2>3 DEF TdRingClose
    <3> QED
      BY <3>1, <3>2 DEF CmdNext
  <2>4. CASE FillRx(t)
    <3>1. IrqPoll
      BY <2>4 DEF FillRx, IrqPoll
    <3> QED
      BY <3>1 DEF CmdNext
  <2>5. CASE CommandStep(t)
    BY <2>5 DEF CommandStep, CmdNext
  <2> QED
    BY <1>2, <2>1, <2>2, <2>3, <2>4, <2>5 DEF ThreadStep
<1>3. CASE IrqHandler
  <2>1. IrqPoll
    BY <1>3 DEF IrqHandler, IrqPoll
  <2> QED
    BY <2>1 DEF CmdNext
<1>4. CASE ModemExecute \/ ModemDies
  BY <1>4 DEF ModemExecute, ModemDies, CmdNext
<1>5. ASSUME NEW q \in QPs, ModemFill(q) PROVE UNCHANGED cmdVars
  BY <1>5 DEF ModemFill
<1>6. CASE UNCHANGED ctlVars
  BY <1>6 DEF ctlVars
<1> QED
  BY <1>1, <1>2, <1>3, <1>4, <1>5, <1>6 DEF CtlNext

(* The job of a thread that is in qp_start or qp_stop, and its part of the *)
(* lock; nobody else works on the same queue pair.                         *)
LEMMA JobOf ==
  ASSUME MutexInv, NEW t \in Callers, stage[t] # "out"
  PROVE  /\ job[t] \in Jobs /\ job[t].qp \in QPs /\ job[t].ring \in Rings
         /\ job[t].ring \in {TxRing(job[t].qp), RxRing(job[t].qp)}
         /\ lock[job[t].qp] = t
         /\ \A u \in Callers \ {t} : stage[u] # "out" => job[u].qp # job[t].qp
  BY DEF MutexInv, Jobs

(* The places a thread goes to keep its types and the mutex.               *)
LEMMA GoesOn ==
  ASSUME LockTypes, MutexInv, NEW t \in Callers, stage[t] # "out",
         NEW s \in Stages, NEW op \in {"start", "undo", "stop", "giveup"},
         NEW r \in {TxRing(job[t].qp), RxRing(job[t].qp)},
         GoTo(t, s, op, job[t].qp, r), UNCHANGED <<lock, qp_open, held, created, pc>>,
         pc[t] = "idle"
  PROVE  LockTypes' /\ MutexInv'
<1>1. [op |-> op, qp |-> job[t].qp, ring |-> r] \in Jobs
  BY JobOf, RingNumbers DEF Jobs
<1>2. LockTypes'
  BY <1>1 DEF LockTypes, GoTo
<1>3. /\ job'[t] = [op |-> op, qp |-> job[t].qp, ring |-> r]
      /\ job'[t].qp = job[t].qp /\ job'[t].ring = r
      /\ \A u \in Callers \ {t} : job'[u] = job[u] /\ stage'[u] = stage[u]
  BY DEF GoTo, LockTypes
<1>4. MutexInv'
  BY <1>1, <1>3, JobOf DEF MutexInv
<1> QED
  BY <1>2, <1>4

(* A thread that returns gives the mutex back.                             *)
LEMMA Leaves ==
  ASSUME LockTypes, MutexInv, NEW t \in Callers, stage[t] # "out", pc[t] = "idle",
         Leave(t), UNCHANGED <<qp_open, created, pc>>, held' \in [QPs -> BOOLEAN]
  PROVE  LockTypes' /\ MutexInv'
<1>1. LockTypes'
  BY JobOf DEF LockTypes, Leave, Stages
<1>2. /\ stage'[t] = "out" /\ lock' = [lock EXCEPT ![job[t].qp] = NoOne]
      /\ \A u \in Callers \ {t} : job'[u] = job[u] /\ stage'[u] = stage[u]
  BY DEF Leave, LockTypes
<1>3. ASSUME NEW u \in Callers, stage'[u] # "out"
      PROVE  /\ job'[u] \in Jobs /\ job'[u].ring \in {TxRing(job'[u].qp), RxRing(job'[u].qp)}
             /\ lock'[job'[u].qp] = u
  <2>1. u # t /\ job'[u] = job[u] /\ stage[u] # "out"
    BY <1>2, <1>3
  <2>2. job[u].qp # job[t].qp /\ job[u].qp \in QPs /\ lock[job[u].qp] = u
    BY <2>1, JobOf
  <2>3. job[u] \in Jobs /\ job[u].ring \in {TxRing(job[u].qp), RxRing(job[u].qp)}
    BY <2>1, JobOf
  <2>4. lock'[job[u].qp] = lock[job[u].qp]
    BY <1>2, <2>2 DEF LockTypes
  <2> QED
    BY <2>1, <2>2, <2>3, <2>4
<1>4. ASSUME NEW u \in Callers, pc'[u] # "idle" PROVE stage'[u] \in {"opening", "closing"}
  BY <1>2, <1>4 DEF MutexInv
<1> QED
  BY <1>1, <1>3, <1>4 DEF MutexInv

(* A thread takes a free mutex.                                            *)
LEMMA Enters ==
  ASSUME LockTypes, MutexInv, NEW t \in Callers, NEW q \in QPs, stage[t] = "out",
         lock[q] = NoOne, NEW s \in Stages, NEW op \in {"start", "undo", "stop", "giveup"},
         GoTo(t, s, op, q, TxRing(q)), lock' = [lock EXCEPT ![q] = t],
         qp_open' \in [QPs -> BOOLEAN], held' \in [QPs -> BOOLEAN], created' \subseteq NetQps,
         UNCHANGED pc
  PROVE  LockTypes' /\ MutexInv'
<1>0. NoOne \notin Callers
  BY QpControlAssumption
<1>1. [op |-> op, qp |-> q, ring |-> TxRing(q)] \in Jobs
  BY RingNumbers DEF Jobs
<1>2. LockTypes'
  BY <1>1 DEF LockTypes, GoTo
<1>3. /\ job'[t] = [op |-> op, qp |-> q, ring |-> TxRing(q)]
      /\ job'[t].qp = q /\ job'[t].ring = TxRing(q) /\ lock'[q] = t
      /\ \A u \in Callers \ {t} : job'[u] = job[u] /\ stage'[u] = stage[u]
      /\ \A p \in QPs \ {q} : lock'[p] = lock[p]
  BY DEF GoTo, LockTypes
<1>4. ASSUME NEW u \in Callers \ {t}, stage[u] # "out" PROVE job[u].qp \in QPs \ {q}
  BY <1>0, <1>4, JobOf
<1>5. pc[t] = "idle"
  BY DEF MutexInv
<1> QED
  BY <1>1, <1>2, <1>3, <1>4, <1>5, JobOf DEF MutexInv

(* Ring indices stay indices.                                              *)
LEMMA IndexFacts ==
  /\ 0 \in Index
  /\ \A i \in Index : NextTd(i) \in Index
  /\ \A i \in Index : \E k \in Index : NextTd(k) = i
  /\ \A i \in Index, n \in Nat : (i + n) % TD_DEPTH \in Index
<1>0. TD_DEPTH \in Nat /\ TD_DEPTH > 1
  BY QpControlAssumption
<1>1. \A k \in Nat : k % TD_DEPTH \in Index
  BY <1>0 DEF Index
<1>2. \A i \in Index, n \in Nat : (i + n) % TD_DEPTH \in Index
  <2> TAKE i \in Index, n \in Nat
  <2>1. i + n \in Nat
    BY DEF Index
  <2> QED
    BY <1>1, <2>1
<1>3. ASSUME NEW i \in Index PROVE \E k \in Index : NextTd(k) = i
  <2>1. CASE i = 0
    <3>1. TD_DEPTH - 1 \in Index /\ NextTd(TD_DEPTH - 1) = 0
      BY <1>0 DEF Index, NextTd
    <3> QED
      BY <2>1, <3>1
  <2>2. CASE i # 0
    <3>1. i - 1 \in Index /\ NextTd(i - 1) = i
      BY <1>0, <2>2 DEF Index, NextTd
    <3> QED
      BY <3>1
  <2> QED
    BY <2>1, <2>2
<1>4. \A i \in Index : NextTd(i) \in Index
  BY <1>2 DEF NextTd
<1> QED
  BY <1>0, <1>2, <1>3, <1>4 DEF Index

(* The number of descriptors a read finds is a number.                     *)
LEMMA CountType ==
  ASSUME NEW S, S \subseteq Index
  PROVE  Cardinality(S) \in Nat
<1>1. IsFiniteSet(Index)
  BY FS_Interval, QpControlAssumption DEF Index
<1> QED
  BY <1>1, FS_Subset, FS_CardinalityType

(* At first no thread is in a call and no mutex is held.                   *)
LEMMA BaseInit == CtlInit => CtlTypeOK /\ MutexInv
<1> SUFFICES ASSUME CtlInit PROVE CtlTypeOK /\ MutexInv
  OBVIOUS
<1>1. CmdTypeOK
  BY CmdInvInit DEF CtlInit, CmdInv
<1>2. LockTypes
  BY DEF CtlInit, LockTypes, Stages
<1>3. RingTypes
  BY IndexFacts DEF CtlInit, RingTypes
<1>4. MutexInv
  BY DEF CtlInit, CmdInit, MutexInv
<1> QED
  BY <1>1, <1>2, <1>3, <1>4, CtlTypesSplit

(* Every step keeps the types and the mutex.                               *)
LEMMA BaseStep ==
  ASSUME CtlTypeOK, MutexInv, [CtlNext]_ctlVars
  PROVE  CtlTypeOK' /\ MutexInv'
<1>t. CmdTypeOK /\ LockTypes /\ RingTypes
  BY CtlTypesSplit
<1>c. CmdTypeOK'
  BY <1>t, CmdPart, CmdTyping
<1>s. SUFFICES LockTypes' /\ MutexInv' /\ RingTypes'
  BY <1>c, CtlTypesSplit, PTL
<1> USE DEF cmdVars, ringVars, qpVars
<1>1. ASSUME NEW t \in Callers, NEW q \in QPs, QpStart(t, q)
      PROVE  LockTypes' /\ MutexInv' /\ RingTypes'
  <2>1. LockTypes' /\ MutexInv'
    <3>1. created' \subseteq NetQps
      BY <1>t, <1>1 DEF QpStart, LockTypes
    <3> QED
      BY <1>t, <1>1, <3>1, Enters DEF QpStart, LockTypes, Stages
  <2>2. RingTypes'
    BY <1>t, <1>1 DEF QpStart, RingTypes
  <2> QED
    BY <2>1, <2>2
<1>2. ASSUME NEW t \in Callers, NEW q \in QPs, QpStop(t, q) \/ CreateNetFails(t, q)
      PROVE  LockTypes' /\ MutexInv' /\ RingTypes'
  <2>1. LockTypes' /\ MutexInv'
    <3>1. CASE QpStop(t, q)
      BY <1>t, <3>1, Enters DEF QpStop, LockTypes, Stages
    <3>2. CASE CreateNetFails(t, q)
      BY <1>t, <3>2, Enters DEF CreateNetFails, LockTypes, Stages
    <3> QED
      BY <1>2, <3>1, <3>2
  <2>2. RingTypes'
    BY <1>t, <1>2 DEF QpStop, CreateNetFails, RingTypes
  <2> QED
    BY <2>1, <2>2
<1>3. ASSUME NEW t \in Callers, TdRingClear(t)
      PROVE  LockTypes' /\ MutexInv' /\ RingTypes'
  <2>1. LockTypes'
    BY <1>t, <1>3 DEF TdRingClear, LockTypes, Stages
  <2>2. MutexInv'
    BY <1>t, <1>3 DEF TdRingClear, MutexInv, LockTypes
  <2>3. RingTypes'
    BY <1>t, <1>3, IndexFacts DEF TdRingClear, RingTypes
  <2> QED
    BY <2>1, <2>2, <2>3
<1>4. ASSUME NEW t \in Callers, TdRingAlloc(t)
      PROVE  LockTypes' /\ MutexInv' /\ RingTypes'
  <2>1. LockTypes'
    BY <1>t, <1>4 DEF TdRingAlloc, LockTypes, Stages
  <2>2. \A u \in Callers \ {t} : pc'[u] = pc[u] /\ stage'[u] = stage[u]
    BY <1>t, <1>4 DEF TdRingAlloc, Execute, Return, CmdTypeOK, LockTypes
  <2>3. stage[t] = "alloc" /\ stage'[t] = "opening" /\ UNCHANGED <<lock, job>>
    BY <1>t, <1>4 DEF TdRingAlloc, LockTypes
  <2>4. MutexInv'
    BY <2>2, <2>3 DEF MutexInv
  <2>5. RingTypes'
    BY <1>t, <1>4, IndexFacts DEF TdRingAlloc, RingTypes
  <2> QED
    BY <2>1, <2>4, <2>5
<1>5. ASSUME NEW t \in Callers, TdRingClose(t)
      PROVE  LockTypes' /\ MutexInv' /\ RingTypes'
  <2>1. LockTypes'
    BY <1>t, <1>5 DEF TdRingClose, LockTypes, Stages
  <2>2. \A u \in Callers \ {t} : pc'[u] = pc[u] /\ stage'[u] = stage[u]
    BY <1>t, <1>5 DEF TdRingClose, Execute, Return, CmdTypeOK, LockTypes
  <2>3. stage[t] = "destroy" /\ stage'[t] = "closing" /\ UNCHANGED <<lock, job>>
    BY <1>t, <1>5 DEF TdRingClose, LockTypes
  <2>4. MutexInv'
    BY <2>2, <2>3 DEF MutexInv
  <2>5. RingTypes'
    BY <1>t, <1>5 DEF TdRingClose, RingTypes
  <2> QED
    BY <2>1, <2>4, <2>5
<1>6. ASSUME NEW t \in Callers, Opened(t)
      PROVE  LockTypes' /\ MutexInv' /\ RingTypes'
  <2>1. stage[t] # "out" /\ pc[t] = "idle" /\ UNCHANGED <<qp_open, held, created, pc>>
    BY <1>6 DEF Opened
  <2>2. ASSUME Leave(t) PROVE LockTypes' /\ MutexInv'
    BY <1>t, <2>1, <2>2, Leaves DEF LockTypes
  <2>3. ASSUME NEW s \in Stages, NEW op \in {"start", "undo", "stop", "giveup"},
               NEW r \in {TxRing(job[t].qp), RxRing(job[t].qp)},
               GoTo(t, s, op, job[t].qp, r), UNCHANGED lock
        PROVE  LockTypes' /\ MutexInv'
    BY <1>t, <2>1, <2>3, GoesOn
  <2>4. RingTypes'
    BY <1>t, <1>6 DEF Opened, RingTypes
  <2> QED
    BY <1>6, <2>2, <2>3, <2>4 DEF Opened, Stages
<1>7. ASSUME NEW t \in Callers, FillRx(t)
      PROVE  LockTypes' /\ MutexInv' /\ RingTypes'
  <2>1. /\ stage[t] # "out" /\ pc[t] = "idle" /\ Leave(t)
        /\ UNCHANGED <<qp_open, created, pc>>
    BY <1>7 DEF FillRx, MutexInv
  <2>2. LockTypes' /\ MutexInv'
    BY <1>t, <1>7, <2>1, Leaves DEF LockTypes, FillRx
  <2>3. RingTypes'
    <3>1. s_rptr[job[t].ring] \in Index
      BY <1>t, <2>1, JobOf DEF RingTypes
    <3>2. (CHOOSE i \in Index : NextTd(i) = s_rptr[job[t].ring]) \in Index
      BY <3>1, IndexFacts
    <3> QED
      BY <1>t, <1>7, <3>2 DEF FillRx, RingTypes
  <2> QED
    BY <2>2, <2>3
<1>8. ASSUME NEW t \in Callers, TdRingFree(t) \/ TdRingEmpty(t)
      PROVE  LockTypes' /\ MutexInv' /\ RingTypes'
  <2>1. /\ stage[t] # "out" /\ pc[t] = "idle" /\ Destroyed(t)
        /\ UNCHANGED <<qp_open, held, created, pc>>
    BY <1>8 DEF TdRingFree, TdRingEmpty, MutexInv
  <2>2. ASSUME Leave(t) PROVE LockTypes' /\ MutexInv'
    BY <1>t, <2>1, <2>2, Leaves DEF LockTypes
  <2>3. ASSUME GoTo(t, "destroy", job[t].op, job[t].qp, RxRing(job[t].qp)), UNCHANGED lock
        PROVE  LockTypes' /\ MutexInv'
    <3>1. job[t].op \in {"start", "undo", "stop", "giveup"}
      BY <2>1, JobOf DEF Jobs
    <3> QED
      BY <1>t, <2>1, <2>3, <3>1, GoesOn DEF Stages
  <2>4. RingTypes'
    BY <1>t, <1>8 DEF TdRingFree, TdRingEmpty, RingTypes
  <2> QED
    BY <2>1, <2>2, <2>3, <2>4 DEF Destroyed
<1>9. ASSUME NEW t \in Callers, CommandStep(t)
      PROVE  LockTypes' /\ MutexInv' /\ RingTypes'
  <2>1. \A u \in Callers \ {t} : pc'[u] = pc[u]
    BY <1>t, <1>9
       DEF CommandStep, ExecuteStep, WriteEntry, Publish, Ding, WaitDone, WaitCut, Return, CmdTypeOK
  <2>2. UNCHANGED qpVars /\ stage[t] \in {"opening", "closing"}
    BY <1>9 DEF CommandStep
  <2>3. LockTypes' /\ RingTypes'
    BY <1>t, <2>2 DEF LockTypes, RingTypes
  <2>4. MutexInv'
    BY <2>1, <2>2 DEF MutexInv
  <2> QED
    BY <2>3, <2>4
<1>10. CASE IrqHandler
  <2>1. LockTypes' /\ MutexInv'
    BY <1>t, <1>10 DEF IrqHandler, LockTypes, MutexInv
  <2>2. \A r \in Rings :
          (s_wptr[r] + Cardinality({i \in Index : (i - last_handled[r]) % TD_DEPTH
                                               < (s_rptr[r] - last_handled[r]) % TD_DEPTH}))
             % TD_DEPTH \in Index
    BY <1>t, CountType, IndexFacts DEF RingTypes
  <2>3. s_wptr' \in [Rings -> Index]
    BY <1>t, <1>10, <2>2 DEF IrqHandler, RingTypes
  <2>4. last_handled' \in [Rings -> Index]
    BY <1>t, <1>10 DEF IrqHandler, RingTypes
  <2>5. RingTypes'
    BY <1>t, <1>10, <2>3, <2>4 DEF IrqHandler, RingTypes
  <2> QED
    BY <2>1, <2>5
<1>11. CASE ModemExecute
  <2>1. LockTypes' /\ MutexInv'
    BY <1>t, <1>11 DEF ModemExecute, ModemConsume, LockTypes, MutexInv
  <2>2. modem_ring' \in [Rings -> BOOLEAN]
    BY <1>t, <1>11 DEF ModemExecute, RingTypes
  <2>3. RingTypes'
    BY <1>t, <1>11, <2>2 DEF ModemExecute, RingTypes
  <2> QED
    BY <2>1, <2>3
<1>12. ASSUME NEW q \in QPs, ModemFill(q)
       PROVE  LockTypes' /\ MutexInv' /\ RingTypes'
  <2>1. LockTypes' /\ MutexInv'
    BY <1>t, <1>12 DEF ModemFill, LockTypes, MutexInv
  <2>2. s_rptr' \in [Rings -> Index]
    BY <1>t, <1>12, RingNumbers, IndexFacts DEF ModemFill, RingTypes
  <2>3. RingTypes'
    BY <1>t, <1>12, <2>2 DEF ModemFill, RingTypes
  <2> QED
    BY <2>1, <2>3
<1>13. CASE ModemDies \/ UNCHANGED ctlVars
  BY <1>t, <1>13 DEF ModemDies, ModemCrash, ctlVars, LockTypes, MutexInv, RingTypes
<1> QED
  BY <1>1, <1>2, <1>3, <1>4, <1>5, <1>6, <1>7, <1>8, <1>9, <1>10, <1>11, <1>12, <1>13
     DEF CtlNext, ThreadStep

-----------------------------------------------------------------------------
(* A step of one thread on one queue pair disturbs no other.               *)
LEMMA OthersKeep ==
  ASSUME MutexInv, RingInv, NEW t \in Callers, NEW p \in QPs,
         \A u \in Callers \ {t} : /\ stage'[u] = stage[u] /\ job'[u] = job[u]
                                  /\ stage[u] # "out" => job[u].qp # p,
         \A q \in QPs \ {p} : /\ qp_open'[q] = qp_open[q] /\ held'[q] = held[q]
                              /\ lock'[q] = lock[q],
         \A r \in Rings \ {TxRing(p), RxRing(p)} : depth'[r] = depth[r] /\ mem'[r] = mem[r],
         stage'[t] # "out" => Working(t)',
         lock'[p] = NoOne => Resting(p)'
  PROVE  RingInv'
<1>1. ASSUME NEW q \in QPs \ {p}
      PROVE  /\ \A r \in {TxRing(q), RxRing(q)} : depth'[r] = depth[r] /\ mem'[r] = mem[r]
             /\ qp_open'[q] = qp_open[q] /\ held'[q] = held[q] /\ lock'[q] = lock[q]
  BY RingNumbers
<1>2. ASSUME NEW u \in Callers \ {t}, stage'[u] # "out" PROVE Working(u)'
  <2>1. /\ stage'[u] = stage[u] /\ job'[u] = job[u] /\ job[u].qp \in QPs \ {p}
        /\ job[u].ring \in {TxRing(job[u].qp), RxRing(job[u].qp)}
        /\ Working(u)
    BY <1>2, JobOf DEF RingInv
  <2>2. /\ \A r \in {TxRing(job[u].qp), RxRing(job[u].qp)} :
             depth'[r] = depth[r] /\ mem'[r] = mem[r]
        /\ qp_open'[job[u].qp] = qp_open[job[u].qp] /\ held'[job[u].qp] = held[job[u].qp]
    BY <1>1, <2>1
  <2> QED
    BY <2>1, <2>2 DEF Working, Starting, Undoing, Stopping, GivingUp, OneLeft, Free
<1>3. ASSUME NEW q \in QPs \ {p}, lock'[q] = NoOne PROVE Resting(q)'
  BY <1>1, <1>3 DEF RingInv, Resting, OneLeft, Free
<1> QED
  BY <1>2, <1>3 DEF RingInv

(* At first every ring is free.                                            *)
LEMMA RingInit == CtlInit => RingInv
  BY RingNumbers DEF CtlInit, RingInv, Resting, Free

(* Every step keeps the rings' bookkeeping.                                *)
LEMMA RingStep ==
  ASSUME CtlTypeOK, MutexInv, RingInv, [CtlNext]_ctlVars
  PROVE  RingInv'
<1>t. CmdTypeOK /\ LockTypes /\ RingTypes
  BY CtlTypesSplit
<1>d. TD_DEPTH # 0
  BY QpControlAssumption
<1> USE DEF ringVars, qpVars
<1>1. ASSUME NEW t \in Callers, NEW q \in QPs, QpStart(t, q) PROVE RingInv'
  <2>1. Resting(q) /\ ~held[q]
    BY <1>1 DEF QpStart, RingInv, Resting
  <2>2. /\ stage'[t] = "create" /\ job'[t] = [op |-> "start", qp |-> q, ring |-> TxRing(q)]
        /\ qp_open'[q] = TRUE /\ lock'[q] = t /\ UNCHANGED <<held, depth, mem>>
        /\ \A u \in Callers \ {t} : stage'[u] = stage[u] /\ job'[u] = job[u]
        /\ \A p \in QPs \ {q} : qp_open'[p] = qp_open[p] /\ lock'[p] = lock[p]
    BY <1>t, <1>1 DEF QpStart, GoTo, LockTypes
  <2>3. \A u \in Callers \ {t} : stage[u] # "out" => job[u].qp # q
    BY <1>1, JobOf, QpControlAssumption DEF QpStart
  <2>4. Working(t)'
    BY <1>1, <2>1, <2>2, RingNumbers DEF QpStart, Working, Starting, Resting, Free
  <2>5. lock'[q] # NoOne
    BY <2>2, QpControlAssumption
  <2> QED
    BY <2>2, <2>3, <2>4, <2>5, OthersKeep
<1>2. ASSUME NEW t \in Callers, NEW q \in QPs, QpStop(t, q) PROVE RingInv'
  <2>1. Resting(q) /\ held[q]
    BY <1>2 DEF QpStop, RingInv
  <2>2. /\ stage'[t] = "destroy" /\ job'[t] = [op |-> "stop", qp |-> q, ring |-> TxRing(q)]
        /\ qp_open'[q] = FALSE /\ held'[q] = FALSE /\ lock'[q] = t /\ UNCHANGED <<depth, mem>>
        /\ \A u \in Callers \ {t} : stage'[u] = stage[u] /\ job'[u] = job[u]
        /\ \A p \in QPs \ {q} : /\ qp_open'[p] = qp_open[p] /\ held'[p] = held[p]
                                /\ lock'[p] = lock[p]
    BY <1>t, <1>2 DEF QpStop, GoTo, LockTypes
  <2>3. \A u \in Callers \ {t} : stage[u] # "out" => job[u].qp # q
    BY <1>2, JobOf, QpControlAssumption DEF QpStop
  <2>4. Working(t)'
    BY <2>1, <2>2 DEF Working, Stopping, Resting
  <2>5. lock'[q] # NoOne
    BY <2>2, QpControlAssumption
  <2> QED
    BY <2>2, <2>3, <2>4, <2>5, OthersKeep
<1>n. ASSUME NEW t \in Callers, NEW q \in QPs, CreateNetFails(t, q) PROVE RingInv'
  <2>1. OneLeft(q) /\ ~held[q] /\ q \in NetQps
    BY <1>n DEF CreateNetFails, RingInv, Resting
  <2>2. /\ stage'[t] = "destroy" /\ job'[t] = [op |-> "giveup", qp |-> q, ring |-> TxRing(q)]
        /\ qp_open'[q] = FALSE /\ lock'[q] = t /\ UNCHANGED <<held, depth, mem>>
        /\ \A u \in Callers \ {t} : stage'[u] = stage[u] /\ job'[u] = job[u]
        /\ \A p \in QPs \ {q} : qp_open'[p] = qp_open[p] /\ lock'[p] = lock[p]
    BY <1>t, <1>n DEF CreateNetFails, GoTo, LockTypes
  <2>3. \A u \in Callers \ {t} : stage[u] # "out" => job[u].qp # q
    BY <1>n, JobOf, QpControlAssumption DEF CreateNetFails
  <2>4. Working(t)'
    BY <2>1, <2>2 DEF Working, GivingUp, OneLeft, Free
  <2>5. lock'[q] # NoOne
    BY <2>2, QpControlAssumption
  <2> QED
    BY <2>2, <2>3, <2>4, <2>5, OthersKeep
<1>3. ASSUME NEW t \in Callers, ThreadStep(t) PROVE RingInv'
  <2>0. stage[t] # "out"
    BY <1>3
       DEF ThreadStep, TdRingClear, TdRingAlloc, Opened, FillRx, TdRingEmpty, TdRingClose,
           TdRingFree,
           CommandStep
  <2>q. PICK q \in QPs, r \in Rings : q = job[t].qp /\ r = job[t].ring
    BY <2>0, JobOf
  <2>j. /\ job[t] \in Jobs /\ q = job[t].qp /\ r = job[t].ring /\ r \in {TxRing(q), RxRing(q)}
        /\ lock[q] = t /\ lock[q] # NoOne
        /\ \A u \in Callers \ {t} : stage[u] # "out" => job[u].qp # q
    BY <2>0, <2>q, JobOf, QpControlAssumption
  <2>w. Working(t) /\ TxRing(q) # RxRing(q) /\ job[t].op \in {"start", "undo", "stop", "giveup"}
    BY <2>0, <2>j, RingNumbers DEF RingInv, Jobs
  <2>1. CASE TdRingClear(t)
    <3>1. /\ stage[t] = "create" /\ stage'[t] = "alloc" /\ depth'[r] = TD_DEPTH /\ mem'[r] = FALSE
          /\ UNCHANGED <<qp_open, held, lock, job>>
          /\ \A u \in Callers \ {t} : stage'[u] = stage[u]
          /\ \A o \in Rings \ {r} : depth'[o] = depth[o] /\ mem'[o] = mem[o]
      BY <1>t, <2>1, <2>j DEF TdRingClear, LockTypes, RingTypes
    <3>2. Working(t)'
      BY <1>d, <2>j, <2>w, <3>1, RingNumbers
         DEF Working, Starting, Undoing, Stopping, GivingUp, OneLeft, Free
    <3> QED
      BY <2>j, <3>1, <3>2, OthersKeep
  <2>2. CASE TdRingAlloc(t)
    <3>1. /\ stage[t] = "alloc" /\ stage'[t] = "opening" /\ mem'[r] = TRUE
          /\ UNCHANGED <<qp_open, held, lock, job, depth>>
          /\ \A u \in Callers \ {t} : stage'[u] = stage[u]
          /\ \A o \in Rings \ {r} : mem'[o] = mem[o]
      BY <1>t, <2>2, <2>j DEF TdRingAlloc, LockTypes, RingTypes
    <3>2. Working(t)'
      BY <2>j, <2>w, <3>1, RingNumbers
         DEF Working, Starting, Undoing, Stopping, GivingUp, OneLeft, Free
    <3> QED
      BY <2>j, <3>1, <3>2, OthersKeep
  <2>3. CASE Opened(t)
    <3>1. /\ stage[t] = "opening" /\ UNCHANGED <<qp_open, held, depth, mem>>
          /\ \A u \in Callers \ {t} : stage'[u] = stage[u] /\ job'[u] = job[u]
          /\ \A p \in QPs \ {q} : lock'[p] = lock[p]
          /\ \/ /\ r = TxRing(q) /\ stage'[t] = "create" /\ lock' = lock
                /\ job'[t] = [op |-> "start", qp |-> q, ring |-> RxRing(q)]
             \/ /\ r = RxRing(q) /\ stage'[t] = "fill" /\ lock' = lock
                /\ job'[t] = [op |-> "start", qp |-> q, ring |-> r]
             \/ r = TxRing(q) /\ stage'[t] = "out"
             \/ /\ r = RxRing(q) /\ stage'[t] = "destroy" /\ lock' = lock
                /\ job'[t] = [op |-> "undo", qp |-> q, ring |-> TxRing(q)]
      BY <1>t, <2>3, <2>j DEF Opened, GoTo, Leave, LockTypes
    <3>2. Starting("opening", q, r)
      BY <2>j, <2>w, <3>1 DEF Working, Undoing, Stopping, GivingUp
    <3>3. ASSUME stage'[t] # "out" PROVE Working(t)'
      <4>1. ASSUME r = TxRing(q), stage'[t] = "create",
                   job'[t] = [op |-> "start", qp |-> q, ring |-> RxRing(q)]
            PROVE  Working(t)'
        <5>1. Starting("create", q, RxRing(q))'
          BY <2>w, <3>1, <3>2, <4>1 DEF Starting, Free
        <5> QED
          BY <4>1, <5>1 DEF Working
      <4>2. ASSUME r = RxRing(q), stage'[t] = "fill",
                   job'[t] = [op |-> "start", qp |-> q, ring |-> r]
            PROVE  Working(t)'
        <5>1. Starting("fill", q, r)'
          BY <2>w, <3>1, <3>2, <4>2 DEF Starting, Free
        <5> QED
          BY <4>2, <5>1 DEF Working
      <4>3. ASSUME r = RxRing(q), stage'[t] = "destroy",
                   job'[t] = [op |-> "undo", qp |-> q, ring |-> TxRing(q)]
            PROVE  Working(t)'
        <5>1. Undoing("destroy", q, TxRing(q))'
          BY <2>w, <3>1, <3>2, <4>3 DEF Starting, Undoing
        <5> QED
          BY <4>3, <5>1 DEF Working
      <4> QED
        BY <3>1, <3>3, <4>1, <4>2, <4>3
    <3>4. Resting(q)' \/ lock' = lock
      BY <2>w, <3>1, <3>2 DEF Starting, Resting, OneLeft, Free
    <3> QED
      BY <2>j, <3>1, <3>3, <3>4, OthersKeep
  <2>4. CASE FillRx(t)
    <3>1. /\ stage[t] = "fill" /\ stage'[t] = "out" /\ held'[q] = TRUE
          /\ UNCHANGED <<qp_open, depth, mem>>
          /\ \A u \in Callers \ {t} : stage'[u] = stage[u] /\ job'[u] = job[u]
          /\ \A p \in QPs \ {q} : lock'[p] = lock[p] /\ held'[p] = held[p]
      BY <1>t, <2>4, <2>j DEF FillRx, Leave, LockTypes
    <3>2. Resting(q)'
      BY <2>j, <2>w, <3>1 DEF Working, Starting, Undoing, Stopping, GivingUp, Resting
    <3> QED
      BY <2>j, <3>1, <3>2, OthersKeep
  <2>5. CASE TdRingClose(t)
    <3>1. /\ stage[t] = "destroy" /\ stage'[t] = "closing"
          /\ UNCHANGED <<qp_open, held, lock, job, depth, mem>> /\ depth[r] # 0
          /\ \A u \in Callers \ {t} : stage'[u] = stage[u]
      BY <1>t, <2>5, <2>j DEF TdRingClose, LockTypes
    <3>2. Working(t)'
      BY <2>j, <2>w, <3>1 DEF Working, Starting, Undoing, Stopping, GivingUp, OneLeft, Free
    <3> QED
      BY <2>j, <3>1, <3>2, OthersKeep
  <2>e. CASE TdRingEmpty(t)
    <3>1. /\ stage[t] = "destroy" /\ UNCHANGED <<qp_open, held, depth, mem>> /\ depth[r] = 0
          /\ \A u \in Callers \ {t} : stage'[u] = stage[u] /\ job'[u] = job[u]
          /\ \A p \in QPs \ {q} : lock'[p] = lock[p]
          /\ IF job[t].op # "undo" /\ r = TxRing(q)
             THEN /\ stage'[t] = "destroy" /\ lock' = lock
                  /\ job'[t] = [op |-> job[t].op, qp |-> q, ring |-> RxRing(q)]
             ELSE stage'[t] = "out"
      BY <1>t, <2>e, <2>j DEF TdRingEmpty, Destroyed, GoTo, Leave, LockTypes
    <3>2. job[t].op = "giveup" /\ GivingUp("destroy", q, r)
      BY <2>j, <2>w, <3>1 DEF Working, Starting, Undoing, Stopping
    <3>3. ASSUME stage'[t] # "out" PROVE Working(t)'
      <4>1. /\ r = TxRing(q) /\ stage'[t] = "destroy"
            /\ job'[t] = [op |-> "giveup", qp |-> q, ring |-> RxRing(q)]
        BY <3>1, <3>2, <3>3
      <4>2. GivingUp("destroy", q, RxRing(q))'
        BY <2>w, <3>1, <3>2, <4>1 DEF GivingUp, OneLeft, Free
      <4> QED
        BY <4>1, <4>2 DEF Working
    <3>4. stage'[t] = "out" => Resting(q)'
      BY <2>j, <2>w, <3>1, <3>2 DEF GivingUp, Resting, Free
    <3> QED
      BY <2>j, <3>1, <3>3, <3>4, OthersKeep
  <2>6. CASE TdRingFree(t)
    <3>1. /\ stage[t] = "closing" /\ UNCHANGED <<qp_open, held>>
          /\ depth'[r] = 0 /\ mem'[r] = FALSE
          /\ \A u \in Callers \ {t} : stage'[u] = stage[u] /\ job'[u] = job[u]
          /\ \A p \in QPs \ {q} : lock'[p] = lock[p]
          /\ \A o \in Rings \ {r} : depth'[o] = depth[o] /\ mem'[o] = mem[o]
          /\ IF job[t].op # "undo" /\ r = TxRing(q)
             THEN /\ stage'[t] = "destroy" /\ lock' = lock
                  /\ job'[t] = [op |-> job[t].op, qp |-> q, ring |-> RxRing(q)]
             ELSE stage'[t] = "out"
      BY <1>t, <2>6, <2>j DEF TdRingFree, Destroyed, GoTo, Leave, LockTypes, RingTypes
    <3>2. \/ job[t].op = "undo" /\ Undoing("closing", q, r)
          \/ job[t].op = "stop" /\ Stopping("closing", q, r)
          \/ job[t].op = "giveup" /\ GivingUp("closing", q, r)
      BY <2>j, <2>w, <3>1 DEF Working, Starting
    <3>3. ASSUME stage'[t] # "out" PROVE Working(t)'
      <4>1. /\ r = TxRing(q) /\ stage'[t] = "destroy" /\ job[t].op \in {"stop", "giveup"}
            /\ job'[t] = [op |-> job[t].op, qp |-> q, ring |-> RxRing(q)]
        BY <3>1, <3>2, <3>3
      <4>2. ASSUME job[t].op = "stop" PROVE Stopping("destroy", q, RxRing(q))'
        BY <2>w, <3>1, <3>2, <4>1, <4>2, RingNumbers DEF Stopping, Free
      <4>3. ASSUME job[t].op = "giveup" PROVE GivingUp("destroy", q, RxRing(q))'
        BY <2>w, <3>1, <3>2, <4>1, <4>3, RingNumbers DEF GivingUp, OneLeft, Free
      <4> QED
        BY <4>1, <4>2, <4>3 DEF Working
    <3>4. stage'[t] = "out" => Resting(q)'
      BY <2>j, <2>w, <3>1, <3>2, RingNumbers
         DEF Undoing, Stopping, GivingUp, OneLeft, Resting, Free
    <3> QED
      BY <2>j, <3>1, <3>3, <3>4, OthersKeep
  <2>7. CASE CommandStep(t)
    BY <2>7
       DEF CommandStep, RingInv, Working, Starting, Undoing, Stopping, GivingUp, OneLeft, Resting,
           Free
  <2> QED
    BY <1>3, <2>1, <2>2, <2>3, <2>4, <2>5, <2>e, <2>6, <2>7 DEF ThreadStep
<1>4. CASE \/ IrqHandler \/ ModemExecute \/ (\E q \in QPs : ModemFill(q)) \/ ModemDies
           \/ UNCHANGED ctlVars
  <2>1. UNCHANGED <<qp_open, held, lock, stage, job, depth, mem>>
    BY <1>4 DEF IrqHandler, ModemExecute, ModemFill, ModemDies, ctlVars
  <2> QED
    BY <2>1 DEF RingInv, Working, Starting, Undoing, Stopping, GivingUp, OneLeft, Resting, Free
<1> QED
  BY <1>1, <1>2, <1>n, <1>3, <1>4 DEF CtlNext

-----------------------------------------------------------------------------
(* The invariant of opening and closing, for any number of threads and of  *)
(* queue pairs: nothing here needs the command ring to be sound.           *)
CtlInv == CtlTypeOK /\ MutexInv /\ RingInv

(* The inductive invariant holds, for any number of threads and pairs.     *)
LEMMA CtlInvHolds == CtlSpec => []CtlInv
<1>1. CtlInit => CtlInv
  BY BaseInit, RingInit DEF CtlInv
<1>2. CtlInv /\ [CtlNext]_ctlVars => CtlInv'
  BY BaseStep, RingStep DEF CtlInv
<1> QED
  BY <1>1, <1>2, PTL DEF CtlSpec

(* The control state keeps its types: no ring number, ring index or queue  *)
(* pair out of range, whatever the modem and the signals do.               *)
THEOREM CtlTypesHold == CtlSpec => []CtlTypeOK
<1>1. CtlInv => CtlTypeOK
  BY DEF CtlInv
<1> QED
  BY <1>1, CtlInvHolds, PTL

(* For any number of queue pairs and threads and after any history of      *)
(* failed opens, timeouts and signals, BUG_ON(ring->depth) of              *)
(* td_ring_create is unreachable, and "Tried destroying empty ring!" of    *)
(* td_ring_destroy is reached by create_net's qp_stop after a failed       *)
(* qp_start only, for exactly one of the two rings.                        *)
THEOREM AssertionsHold == CtlSpec => []RingAssertions
<1>1. CtlInv => RingAssertions
  <2> SUFFICES ASSUME CtlInv, NEW t \in Callers, stage[t] \in {"create", "destroy"}
               PROVE  /\ stage[t] = "create" => depth[job[t].ring] = 0
                      /\ stage[t] = "destroy" /\ job[t].op # "giveup" => depth[job[t].ring] # 0
                      /\ stage[t] = "destroy" /\ job[t].op = "giveup"
                           /\ job[t].ring = TxRing(job[t].qp) =>
                           (depth[job[t].ring] # 0 <=> depth[RxRing(job[t].qp)] = 0)
    BY Zenon DEF RingAssertions
  <2>1. Working(t) /\ job[t].op \in {"start", "undo", "stop", "giveup"}
    BY JobOf DEF CtlInv, RingInv, Jobs
  <2> QED
    BY <2>1 DEF Working, Starting, Undoing, Stopping, GivingUp, OneLeft, Free
<1> QED
  BY <1>1, CtlInvHolds, PTL

(* A queue pair that nobody works on and that is not marked open has no    *)
(* ring and no pages left: qp_start may create its rings again, and        *)
(* nothing has leaked.                                                     *)
THEOREM ClosedPairsAreFree == CtlSpec => []ClosedIsFree
<1>1. CtlInv => ClosedIsFree
  BY DEF CtlInv, RingInv, Resting, ClosedIsFree, Free
<1> QED
  BY <1>1, CtlInvHolds, PTL

(* Opening and closing queue pairs uses the command ring as CmdRing says:  *)
(* every behaviour of the queue pairs is one of the command ring.          *)
THEOREM ControlUsesCmdRing == CtlSpec => CmdSpec
<1>1. CtlInit => CmdInit
  BY DEF CtlInit
<1>2. CtlInv /\ [CtlNext]_ctlVars => [CmdNext]_cmdVars
  BY CmdPart, CtlTypesSplit DEF CtlInv
<1> QED
  BY <1>1, <1>2, CtlInvHolds, PTL DEF CtlSpec, CmdSpec

-----------------------------------------------------------------------------
(* Under Serial a thread inside qp_start or qp_stop is the only one.       *)
LEMMA Alone ==
  ASSUME CtlInv, Serial, NEW t \in Callers, stage[t] # "out"
  PROVE  /\ \A u \in Callers \ {t} : stage[u] = "out" /\ pc[u] = "idle"
         /\ \A p \in QPs : p # job[t].qp => lock[p] = NoOne
<1>0. MutexInv /\ LockTypes /\ NoOne \notin Callers
  BY CtlTypesSplit, QpControlAssumption DEF CtlInv
<1>1. job[t].qp \in QPs /\ lock[job[t].qp] = t
  BY <1>0, JobOf
<1>2. \A p \in QPs : p # job[t].qp => lock[p] = NoOne
  BY <1>0, <1>1 DEF Serial
<1>3. ASSUME NEW u \in Callers \ {t} PROVE stage[u] = "out"
  <2> SUFFICES ASSUME stage[u] # "out" PROVE FALSE
    OBVIOUS
  <2>1. job[u].qp \in QPs /\ lock[job[u].qp] = u
    BY <1>0, JobOf
  <2> QED
    BY <1>0, <1>1, <1>2, <2>1
<1> QED
  BY <1>0, <1>2, <1>3 DEF MutexInv

(* So what a step does to one thread and to the open queue pairs is all.   *)
LEMMA OpenOf ==
  ASSUME NEW t \in Callers, \A u \in Callers \ {t} : stage'[u] = "out" /\ pc'[u] = "idle",
         ThreadOpen(t)', HeldOpen'
  PROVE  OpenInv'
  BY DEF OpenInv, ThreadOpen

(* Slots have one predecessor.                                             *)
LEMMA NextSlotInjective ==
  ASSUME NEW i \in Slots, NEW j \in Slots, NextSlot(i) = NextSlot(j)
  PROVE  i = j
  BY NextSlotValue, CmdRingAssumption DEF Slots

(* A ring stays open while nothing happens to the command ring, ...        *)
LEMMA StaysSame ==
  ASSUME UNCHANGED <<c_wptr, c_rptr, c_ring, modem_ring>>
  PROVE  /\ Pending' = Pending
         /\ \A r \in Rings : StaysOpen(r)' <=> StaysOpen(r)
  BY DEF StaysOpen, Pending, Dist

(* ... when an entry that is not published is filled in, ...               *)
LEMMA StaysFilled ==
  ASSUME CmdTypeOK, UNCHANGED <<c_wptr, c_rptr, modem_ring>>,
         NEW c, c_ring' = [c_ring EXCEPT ![c_wptr] = c]
  PROVE  /\ Pending' = Pending
         /\ \A i \in Pending : c_ring'[i] = c_ring[i]
         /\ \A r \in Rings : StaysOpen(r)' <=> StaysOpen(r)
<1>1. Pending' = Pending /\ Pending \subseteq Slots /\ c_wptr \notin Pending
  BY WptrNotPending DEF Pending, Dist
<1>2. \A i \in Pending : c_ring'[i] = c_ring[i]
  BY <1>1 DEF CmdTypeOK
<1> QED
  BY <1>1, <1>2 DEF StaysOpen

(* ... when anything but its CMD_RING_CLOSE is published, ...              *)
LEMMA StaysPublished ==
  ASSUME CmdTypeOK, UNCHANGED <<c_rptr, c_ring, modem_ring>>,
         c_wptr' = NextSlot(c_wptr), NextSlot(c_wptr) # c_rptr,
         NEW r \in Rings, c_ring[c_wptr] # CloseCmd(r), StaysOpen(r)
  PROVE  StaysOpen(r)'
  BY PublishAdds DEF StaysOpen

(* ... and when the modem executes the next command.                       *)
LEMMA StaysExecuted ==
  ASSUME CtlTypeOK, ModemExecute, NEW r \in Rings, StaysOpen(r)
  PROVE  StaysOpen(r)'
<1>0. CmdTypeOK /\ RingTypes
  BY CtlTypesSplit
<1>1. /\ Pending' = Pending \ {c_rptr} /\ c_rptr \in Pending /\ c_ring' = c_ring
      /\ c_ring[c_rptr] \in Cmds \cup {NoCmd}
  <2>1. c_rptr \in Slots /\ c_wptr \in Slots /\ c_rptr # c_wptr
    BY <1>0 DEF CmdTypeOK, ModemExecute, ModemConsume
  <2>2. c_rptr \in Pending
    BY <2>1, CmdRingAssumption DEF Pending, Dist, Slots
  <2>3. Pending' = Pending \ {c_rptr} /\ c_ring' = c_ring
    BY <1>0, ConsumeRemoves DEF ModemExecute, ModemConsume
  <2> QED
    BY <1>0, <2>1, <2>2, <2>3 DEF CmdTypeOK
<1>2. c_ring[c_rptr] # CloseCmd(r) /\ modem_ring[r] = TRUE
  BY <1>0, <1>1 DEF StaysOpen, RingTypes
<1>3. modem_ring'[r] = TRUE
  <2>1. CASE c_ring[c_rptr] = NoCmd
    BY <1>2, <2>1 DEF ModemExecute
  <2>2. CASE c_ring[c_rptr] # NoCmd
    <3>1. c_ring[c_rptr] \in RingCmds
      BY <1>1, <2>2, QpControlAssumption
    <3>2. PICK op \in {"OPEN", "CLOSE"}, o \in Rings : c_ring[c_rptr] = [op |-> op, ring |-> o]
      BY <3>1 DEF RingCmds
    <3>3. modem_ring' = [modem_ring EXCEPT ![o] = (op = "OPEN")]
      BY <2>2, <3>2 DEF ModemExecute
    <3>4. o = r => op = "OPEN"
      BY <1>2, <3>2 DEF CloseCmd
    <3> QED
      BY <1>0, <1>2, <3>3, <3>4 DEF RingTypes
  <2> QED
    BY <2>1, <2>2
<1> QED
  BY <1>1, <1>3 DEF StaysOpen

(* No ring is open in the initial state, and no command under way.         *)
LEMMA OpenInit == CtlInit => OpenInv
  BY DEF CtlInit, CmdInit, OpenInv, ThreadOpen, HeldOpen

(* Entering qp_start or qp_stop, and the steps outside a command, leave    *)
(* the command ring alone; starting a command finds the free slot.         *)
LEMMA OpenEnters ==
  ASSUME CtlInv, OpenInv, NEW t \in Callers, NEW q \in QPs,
         QpStart(t, q) \/ QpStop(t, q) \/ CreateNetFails(t, q)
  PROVE  OpenInv'
<1>0. LockTypes /\ MutexInv /\ HeldOpen
  BY CtlTypesSplit DEF CtlInv, OpenInv
<1>1. /\ stage[t] = "out" /\ stage'[t] \in {"create", "destroy"}
      /\ job'[t].ring = TxRing(q) /\ job'[t].qp = q
      /\ \A u \in Callers \ {t} : stage'[u] = stage[u] /\ job'[u] = job[u]
      /\ UNCHANGED <<c_wptr, c_rptr, c_ring, modem_ring, pc, cmd, slot, ret>>
      /\ \A p \in QPs : held'[p] => held[p]
  BY <1>0 DEF QpStart, QpStop, CreateNetFails, GoTo, LockTypes, cmdVars
<1>2. HeldOpen'
  BY <1>0, <1>1, StaysSame, RingNumbers DEF HeldOpen
<1>3. ASSUME NEW u \in Callers \ {t} PROVE ThreadOpen(u)'
  <2>1. ThreadOpen(u) /\ Pending' = Pending
    BY <1>1, StaysSame DEF OpenInv
  <2>2. Commanding(u)' <=> Commanding(u)
    BY <1>1 DEF Commanding, NextSlot
  <2> QED
    BY <1>1, <2>1, <2>2 DEF ThreadOpen, StaysOpen
<1>4. ThreadOpen(t)'
  BY <1>0, <1>1, RingNumbers DEF ThreadOpen, MutexInv
<1> QED
  BY <1>2, <1>3, <1>4 DEF OpenInv

(* The steps of open and close around their commands keep OpenInv.         *)
LEMMA OpenMoves ==
  ASSUME CtlInv, Serial, OpenInv, NEW t \in Callers,
         \/ TdRingClear(t) \/ TdRingAlloc(t) \/ Opened(t) \/ FillRx(t)
         \/ TdRingEmpty(t) \/ TdRingClose(t) \/ TdRingFree(t)
  PROVE  OpenInv'
<1>0. /\ CmdTypeOK /\ LockTypes /\ MutexInv /\ ThreadOpen(t) /\ HeldOpen
      /\ stage[t] # "out" /\ pc[t] = "idle"
  BY CtlTypesSplit
     DEF CtlInv, OpenInv, MutexInv, TdRingClear, TdRingAlloc, Opened, FillRx, TdRingEmpty,
         TdRingClose, TdRingFree
<1>q. PICK q \in QPs, r \in Rings : q = job[t].qp /\ r = job[t].ring /\ r \in {TxRing(q), RxRing(q)}
  BY <1>0, JobOf
<1>w. Working(t) /\ job[t].op \in {"start", "undo", "stop", "giveup"} /\ TxRing(q) # RxRing(q)
  BY <1>0, JobOf, RingNumbers DEF CtlInv, RingInv, Jobs
<1>1. UNCHANGED <<c_wptr, c_rptr, c_ring, modem_ring>>
  BY DEF TdRingClear, TdRingAlloc, Opened, FillRx, TdRingEmpty, TdRingClose, TdRingFree, Execute,
         cmdVars, ringVars
<1>s. \A o \in Rings : StaysOpen(o)' <=> StaysOpen(o)
  BY <1>1, StaysSame
<1>2. \A u \in Callers \ {t} : stage'[u] = "out" /\ pc'[u] = "idle"
  <2>1. \A u \in Callers \ {t} : stage[u] = "out" /\ pc[u] = "idle"
    BY <1>0, Alone
  <2>2. \A u \in Callers \ {t} : stage'[u] = stage[u]
    BY <1>0
       DEF TdRingClear, TdRingAlloc, Opened, FillRx, TdRingEmpty, TdRingClose, TdRingFree,
           Destroyed, GoTo, Leave, LockTypes
  <2>3. \A u \in Callers \ {t} : pc'[u] = pc[u]
    BY <1>0
       DEF TdRingClear, TdRingAlloc, Opened, FillRx, TdRingEmpty, TdRingClose, TdRingFree,
           Execute, Return,
           cmdVars, CmdTypeOK
  <2> QED
    BY <2>1, <2>2, <2>3
<1>3. ASSUME held' = held PROVE HeldOpen'
  BY <1>0, <1>s, <1>3, RingNumbers DEF HeldOpen
<1>4. CASE TdRingClear(t)
  <2>1. stage[t] = "create" /\ stage'[t] = "alloc" /\ UNCHANGED <<job, pc, held>>
    BY <1>0, <1>4 DEF TdRingClear, LockTypes, cmdVars
  <2>2. ThreadOpen(t)'
    BY <1>0, <1>q, <1>s, <2>1, RingNumbers DEF ThreadOpen
  <2> QED
    BY <1>2, <1>3, <2>1, <2>2, OpenOf
<1>5. CASE TdRingAlloc(t)
  <2>1. stage[t] = "alloc" /\ stage'[t] = "opening" /\ UNCHANGED <<job, held>>
    BY <1>0, <1>5 DEF TdRingAlloc, LockTypes
  <2>2. /\ cmd'[t] = OpenCmd(r) /\ slot'[t] = c_wptr
        /\ \/ pc'[t] = "idle" /\ ret'[t] # "ok"
           \/ pc'[t] = "write" /\ NextSlot(c_wptr) # c_rptr
    BY <1>0, <1>q, <1>5 DEF TdRingAlloc, Execute, Return, CmdTypeOK, OpenCmd
  <2>3. pc'[t] # "idle" => Commanding(t)'
    BY <1>1, <1>q, <2>1, <2>2 DEF Commanding, NextSlot
  <2>4. ThreadOpen(t)'
    BY <1>0, <1>q, <1>s, <2>1, <2>2, <2>3, RingNumbers DEF ThreadOpen
  <2> QED
    BY <1>2, <1>3, <2>1, <2>4, OpenOf
<1>6. CASE Opened(t)
  <2>1. /\ stage[t] = "opening" /\ UNCHANGED <<pc, held>>
        /\ \/ /\ ret[t] = "ok" /\ r = TxRing(q) /\ stage'[t] = "create"
              /\ job'[t] = [op |-> "start", qp |-> q, ring |-> RxRing(q)]
           \/ /\ ret[t] = "ok" /\ r = RxRing(q) /\ stage'[t] = "fill"
              /\ job'[t] = [op |-> "start", qp |-> q, ring |-> RxRing(q)]
           \/ stage'[t] = "out"
           \/ stage'[t] = "destroy" /\ job'[t] = [op |-> "undo", qp |-> q, ring |-> TxRing(q)]
    BY <1>0, <1>q, <1>6 DEF Opened, GoTo, Leave, LockTypes, cmdVars
  <2>2. job[t].op = "start"
    BY <1>w, <2>1 DEF Working, Undoing, Stopping, GivingUp
  <2>3. ret[t] = "ok" => StaysOpen(r) /\ (r = RxRing(q) => StaysOpen(TxRing(q)))
    BY <1>0, <1>q, <2>1, <2>2 DEF ThreadOpen
  <2>4. ThreadOpen(t)'
    BY <1>0, <1>q, <1>s, <2>1, <2>3, RingNumbers DEF ThreadOpen
  <2> QED
    BY <1>2, <1>3, <2>1, <2>4, OpenOf
<1>7. CASE FillRx(t)
  <2>1. /\ stage[t] = "fill" /\ stage'[t] = "out" /\ UNCHANGED pc
        /\ \A p \in QPs \ {q} : held'[p] = held[p]
    BY <1>0, <1>q, <1>7 DEF FillRx, Leave, LockTypes
  <2>2. job[t].op = "start" /\ r = RxRing(q)
    BY <1>q, <1>w, <2>1 DEF Working, Starting, Undoing, Stopping, GivingUp
  <2>3. StaysOpen(TxRing(q)) /\ StaysOpen(RxRing(q))
    BY <1>0, <1>q, <2>1, <2>2 DEF ThreadOpen
  <2>4. HeldOpen'
    BY <1>0, <1>s, <2>1, <2>3, RingNumbers DEF HeldOpen
  <2>5. ThreadOpen(t)'
    BY <1>0, <2>1 DEF ThreadOpen
  <2> QED
    BY <1>2, <2>4, <2>5, OpenOf
<1>8. CASE TdRingClose(t)
  <2>1. stage[t] = "destroy" /\ stage'[t] = "closing" /\ UNCHANGED <<job, held>>
    BY <1>0, <1>8 DEF TdRingClose, LockTypes
  <2>2. /\ cmd'[t] = CloseCmd(r) /\ slot'[t] = c_wptr
        /\ \/ pc'[t] = "idle"
           \/ pc'[t] = "write" /\ NextSlot(c_wptr) # c_rptr
    BY <1>0, <1>q, <1>8 DEF TdRingClose, Execute, Return, CmdTypeOK, CloseCmd
  <2>3. pc'[t] # "idle" => Commanding(t)'
    BY <1>1, <1>q, <2>1, <2>2 DEF Commanding, NextSlot
  <2>4. job[t].op # "start"
    BY <1>q, <1>w, <2>1 DEF Working, Starting
  <2>5. ThreadOpen(t)'
    BY <2>1, <2>3, <2>4 DEF ThreadOpen
  <2> QED
    BY <1>2, <1>3, <2>1, <2>5, OpenOf
<1>9. CASE TdRingEmpty(t) \/ TdRingFree(t)
  <2>1. /\ stage[t] \in {"destroy", "closing"}
        /\ stage'[t] \in {"out", "destroy"} /\ UNCHANGED <<pc, held>>
        /\ stage'[t] = "destroy" => job'[t] = [op |-> job[t].op, qp |-> q, ring |-> RxRing(q)]
    BY <1>0, <1>q, <1>9 DEF TdRingEmpty, TdRingFree, Destroyed, GoTo, Leave, LockTypes, cmdVars
  <2>2. job[t].op # "start"
    BY <1>q, <1>w, <2>1 DEF Working, Starting
  <2>3. ThreadOpen(t)'
    BY <1>0, <2>1, <2>2 DEF ThreadOpen
  <2> QED
    BY <1>2, <1>3, <2>1, <2>3, OpenOf
<1> QED
  BY <1>4, <1>5, <1>6, <1>7, <1>8, <1>9

(* The thread's command goes through the ring.  What it may close is the   *)
(* ring of a queue pair that is not open.                                  *)
LEMMA OpenCommands ==
  ASSUME CtlInv, Serial, OpenInv, NEW t \in Callers, CommandStep(t)
  PROVE  OpenInv'
<1>0. /\ CmdTypeOK /\ LockTypes /\ MutexInv /\ ThreadOpen(t) /\ HeldOpen
      /\ stage[t] \in {"opening", "closing"} /\ ExecuteStep(t)
      /\ UNCHANGED <<qp_open, held, stage, job, modem_ring>>
  BY CtlTypesSplit DEF CtlInv, OpenInv, CommandStep, qpVars
<1>q. PICK q \in QPs, r \in Rings : q = job[t].qp /\ r = job[t].ring /\ r \in {TxRing(q), RxRing(q)}
  BY <1>0, JobOf
<1>w. Working(t) /\ job[t].op \in {"start", "undo", "stop", "giveup"}
  BY <1>0, JobOf DEF CtlInv, RingInv, Jobs
<1>c. /\ ~held[q]
      /\ stage[t] = "closing" => job[t].op # "start"
  BY <1>0, <1>q, <1>w DEF Working, Starting, Undoing, Stopping, GivingUp
<1>d. pc[t] # "idle" /\ Commanding(t)
  BY <1>0 DEF ThreadOpen, ExecuteStep, WriteEntry, Publish, Ding, WaitDone, WaitCut
<1>2. \A u \in Callers \ {t} : stage'[u] = "out" /\ pc'[u] = "idle"
  <2>1. \A u \in Callers \ {t} : stage[u] = "out" /\ pc[u] = "idle"
    BY <1>0, Alone
  <2>2. \A u \in Callers \ {t} : pc'[u] = pc[u]
    BY <1>0
       DEF ExecuteStep, WriteEntry, Publish, Ding, WaitDone, WaitCut, Return, CmdTypeOK
  <2> QED
    BY <1>0, <2>1, <2>2
<1>3. ASSUME \A o \in Rings : StaysOpen(o) /\ (stage[t] = "closing" => o # r) => StaysOpen(o)',
             pc'[t] # "idle" => Commanding(t)',
             stage[t] = "opening" /\ pc'[t] = "idle" /\ ret'[t] = "ok" => StaysOpen(r)'
      PROVE  OpenInv'
  <2>1. HeldOpen'
    <3> SUFFICES ASSUME NEW p \in QPs, held[p] PROVE StaysOpen(TxRing(p))' /\ StaysOpen(RxRing(p))'
      BY <1>0 DEF HeldOpen
    <3>1. p # q /\ r # TxRing(p) /\ r # RxRing(p)
      BY <1>q, <1>c, RingNumbers
    <3> QED
      BY <1>0, <1>3, <3>1, RingNumbers DEF HeldOpen
  <2>2. ThreadOpen(t)'
    BY <1>0, <1>q, <1>c, <1>3, RingNumbers DEF ThreadOpen
  <2> QED
    BY <1>2, <2>1, <2>2, OpenOf
<1>4. CASE WriteEntry(t)
  <2>1. /\ slot[t] = c_wptr /\ c_ring' = [c_ring EXCEPT ![c_wptr] = cmd[t]]
        /\ UNCHANGED <<c_wptr, c_rptr, slot, cmd>> /\ pc'[t] = "publish"
        /\ NextSlot(c_wptr) # c_rptr
    BY <1>0, <1>d, <1>4 DEF WriteEntry, Commanding, CmdTypeOK
  <2>2. \A o \in Rings : StaysOpen(o)' <=> StaysOpen(o)
    BY <1>0, <2>1, StaysFilled
  <2>3. Commanding(t)'
    BY <1>0, <1>d, <2>1 DEF Commanding, CmdTypeOK, NextSlot
  <2> QED
    BY <1>3, <2>1, <2>2, <2>3
<1>5. CASE Publish(t)
  <2>1. /\ slot[t] = c_wptr /\ c_wptr' = NextSlot(c_wptr)
        /\ UNCHANGED <<c_ring, c_rptr, slot, cmd>> /\ pc'[t] = "ding"
        /\ NextSlot(c_wptr) # c_rptr /\ c_ring[c_wptr] = cmd[t]
    BY <1>0, <1>d, <1>5 DEF Publish, Commanding, CmdTypeOK
  <2>2. \A o \in Rings : stage[t] = "closing" /\ o # r => c_ring[c_wptr] # CloseCmd(o)
    BY <1>d, <1>q, <2>1 DEF Commanding, CloseCmd
  <2>3. stage[t] # "closing" => \A o \in Rings : c_ring[c_wptr] # CloseCmd(o)
    BY <1>0, <1>d, <2>1 DEF Commanding, CloseCmd, OpenCmd
  <2>4. ASSUME NEW o \in Rings, StaysOpen(o), stage[t] = "closing" => o # r PROVE StaysOpen(o)'
    BY <1>0, <2>1, <2>2, <2>3, <2>4, StaysPublished
  <2>5. Commanding(t)'
    BY <1>0, <1>d, <2>1 DEF Commanding, NextSlot
  <2> QED
    BY <1>3, <2>1, <2>4, <2>5
<1>6. CASE Ding(t)
  <2>1. UNCHANGED <<c_wptr, c_rptr, c_ring, slot, cmd>> /\ pc[t] = "ding" /\ pc'[t] = "wait"
    BY <1>0, <1>6 DEF Ding, CmdTypeOK
  <2>2. Commanding(t)'
    BY <1>0, <1>d, <2>1 DEF Commanding, NextSlot
  <2> QED
    BY <1>0, <1>3, <2>1, <2>2, StaysSame
<1>7. CASE WaitDone(t) \/ WaitCut(t)
  <2>1. /\ UNCHANGED <<c_wptr, c_rptr, c_ring>> /\ pc[t] = "wait" /\ pc'[t] = "idle"
        /\ ret'[t] = "ok" => c_rptr = c_wptr
    BY <1>0, <1>7 DEF WaitDone, WaitCut, WaitCond, Return, CmdTypeOK
  <2>2. ASSUME stage[t] = "opening", ret'[t] = "ok" PROVE StaysOpen(r)
    <3>1. Pending = {}
      BY <1>0, <2>1, <2>2, CmdRingAssumption DEF Pending, Dist, Slots, CmdTypeOK
    <3>2. modem_ring[r]
      BY <1>d, <1>q, <2>1, <2>2 DEF Commanding
    <3> QED
      BY <3>1, <3>2 DEF StaysOpen
  <2> QED
    BY <1>0, <1>3, <2>1, <2>2, StaysSame
<1> QED
  BY <1>0, <1>4, <1>5, <1>6, <1>7 DEF ExecuteStep

(* The modem gets to the command last published only by executing it.      *)
LEMMA OpenModem ==
  ASSUME CtlInv, OpenInv, ModemExecute
  PROVE  OpenInv'
<1>0. /\ CmdTypeOK /\ LockTypes /\ RingTypes /\ MutexInv /\ HeldOpen /\ CtlTypeOK
      /\ UNCHANGED <<c_wptr, c_ring, pc, slot, cmd, ret, held, stage, job>>
      /\ c_rptr' = NextSlot(c_rptr) /\ c_rptr # c_wptr
  BY CtlTypesSplit DEF CtlInv, OpenInv, ModemExecute, ModemConsume
<1>1. \A r \in Rings : StaysOpen(r) => StaysOpen(r)'
  BY <1>0, StaysExecuted
<1>2. HeldOpen'
  BY <1>0, <1>1, RingNumbers DEF HeldOpen
<1>3. ASSUME NEW t \in Callers PROVE ThreadOpen(t)'
  <2>0. ThreadOpen(t) /\ (pc[t] # "idle" => stage[t] # "out")
    BY <1>0 DEF OpenInv, MutexInv
  <2>1. CASE stage[t] = "out"
    BY <1>0, <2>0, <2>1 DEF ThreadOpen
  <2>2. CASE stage[t] # "out"
    <3>q. PICK q \in QPs, r \in Rings : q = job[t].qp /\ r = job[t].ring
      BY <1>0, <2>2, JobOf
    <3>1. ASSUME pc[t] # "idle" PROVE Commanding(t)'
      <4>0. Commanding(t) /\ stage[t] \in {"opening", "closing"}
        BY <1>0, <2>0, <3>1 DEF ThreadOpen, MutexInv
      <4>1. NextSlot(c_wptr) # NextSlot(c_rptr)
        BY <1>0, NextSlotInjective DEF CmdTypeOK
      <4>2. ASSUME pc[t] \in {"ding", "wait"}, c_rptr' = c_wptr
            PROVE  modem_ring'[r] = (stage[t] = "opening")
        <5>1. NextSlot(c_rptr) = NextSlot(slot[t]) /\ c_ring[slot[t]] = cmd[t]
          BY <1>0, <4>0, <4>2 DEF Commanding
        <5>2. c_ring[c_rptr] = cmd[t]
          BY <1>0, <5>1, NextSlotInjective DEF CmdTypeOK
        <5>3. cmd[t] = [op |-> IF stage[t] = "opening" THEN "OPEN" ELSE "CLOSE", ring |-> r]
          BY <3>q, <4>0 DEF Commanding, OpenCmd, CloseCmd
        <5>4. cmd[t] \in Cmds /\ cmd[t] # NoCmd
          BY <5>3, QpControlAssumption, CmdRingAssumption DEF RingCmds
        <5>5. modem_ring' = [modem_ring EXCEPT ![r] = (cmd[t].op = "OPEN")]
          BY <5>2, <5>3, <5>4 DEF ModemExecute
        <5> QED
          BY <1>0, <5>3, <5>5 DEF RingTypes
      <4> QED
        BY <1>0, <3>q, <4>0, <4>1, <4>2 DEF Commanding, NextSlot
    <3> QED
      BY <1>0, <1>1, <2>0, <2>2, <3>q, <3>1, RingNumbers DEF ThreadOpen
  <2> QED
    BY <2>1, <2>2
<1> QED
  BY <1>2, <1>3 DEF OpenInv

(* Every step keeps OpenInv while one thread at a time is at work.         *)
LEMMA OpenStep ==
  ASSUME CtlInv, Serial, OpenInv, [CtlNext]_ctlVars
  PROVE  OpenInv'
<1>1. ASSUME NEW t \in Callers, ThreadStep(t) PROVE OpenInv'
  BY <1>1, OpenMoves, OpenCommands DEF ThreadStep
<1>2. CASE IrqHandler \/ (\E q \in QPs : ModemFill(q)) \/ ModemDies \/ UNCHANGED ctlVars
  <2>1. UNCHANGED <<c_wptr, c_rptr, c_ring, pc, slot, cmd, ret, modem_ring, held, stage, job>>
    BY <1>2 DEF IrqHandler, ModemFill, ModemDies, ModemCrash, ctlVars, cmdVars, qpVars
  <2>2. Pending' = Pending
    BY <2>1, StaysSame
  <2> QED
    BY <2>1, <2>2 DEF OpenInv, ThreadOpen, HeldOpen, Commanding, StaysOpen, NextSlot
<1> QED
  BY <1>1, <1>2, OpenEnters, OpenModem DEF CtlNext

(* When one thread at a time opens or closes a queue pair, qp_start        *)
(* returning success means that the modem has opened both rings, for any   *)
(* number of queue pairs, whatever timed out or was interrupted before.    *)
(* The driver has one mutex per queue pair and so does not ensure Serial   *)
(* itself: MCQpTwoPairs shows what two threads do to each other.           *)
THEOREM SerialOpenMeansOpen == CtlSpec /\ []Serial => []OpenMeansOpen
<1>1. CtlInit => OpenInv
  BY OpenInit
<1>2. CtlInv /\ Serial /\ OpenInv /\ [CtlNext]_ctlVars => OpenInv'
  BY OpenStep
<1>3. OpenInv => OpenMeansOpen
  BY DEF OpenInv, HeldOpen, StaysOpen, OpenMeansOpen
<1> QED
  BY <1>1, <1>2, <1>3, CtlInvHolds, PTL DEF CtlSpec

-----------------------------------------------------------------------------
(* A ring that ends closed does so still while nothing happens to the      *)
(* command ring, ...                                                       *)
LEMMA EndsSame ==
  ASSUME UNCHANGED <<c_wptr, c_rptr, c_ring, modem_ring>>
  PROVE  \A r \in Rings : EndsClosed(r)' <=> EndsClosed(r)
  BY DEF EndsClosed, Pending, Dist

(* ... when an entry that is not published is filled in, ...               *)
LEMMA EndsFilled ==
  ASSUME CmdTypeOK, UNCHANGED <<c_wptr, c_rptr, modem_ring>>,
         NEW c, c_ring' = [c_ring EXCEPT ![c_wptr] = c]
  PROVE  \A r \in Rings : EndsClosed(r) => EndsClosed(r)'
<1>1. Pending' = Pending /\ \A i \in Pending : c_ring'[i] = c_ring[i]
  BY StaysFilled
<1> QED
  BY <1>1 DEF EndsClosed, Dist

(* ... when anything but its CMD_RING_OPEN is published; publishing its    *)
(* CMD_RING_CLOSE makes it so.                                             *)
LEMMA EndsPublished ==
  ASSUME CmdTypeOK, UNCHANGED <<c_rptr, c_ring, modem_ring>>,
         c_wptr' = NextSlot(c_wptr), NextSlot(c_wptr) # c_rptr,
         NEW r \in Rings, c_ring[c_wptr] # OpenCmd(r),
         EndsClosed(r) \/ c_ring[c_wptr] = CloseCmd(r)
  PROVE  EndsClosed(r)'
<1>1. Pending' = Pending \cup {c_wptr}
  BY PublishAdds
<1>2. PICK w \in Slots : w = c_wptr
  BY DEF CmdTypeOK
<1>3. \A i \in Slots : Dist(c_rptr, i)' = Dist(c_rptr, i)
  BY DEF Dist
<1>4. Pending \subseteq Slots
  BY DEF Pending
<1>5. CASE c_ring[c_wptr] = CloseCmd(r)
  <2>1. \A j \in Pending : Dist(c_rptr, j) < Dist(c_rptr, w)
    BY <1>2 DEF Pending
  <2>2. \A j \in Pending' : c_ring'[j] = OpenCmd(r) => Dist(c_rptr, j)' < Dist(c_rptr, w)'
    BY <1>1, <1>2, <1>3, <1>4, <2>1
  <2> QED
    BY <1>1, <1>2, <1>5, <2>2 DEF EndsClosed
<1>6. CASE EndsClosed(r)
  BY <1>1, <1>3, <1>4, <1>6 DEF EndsClosed
<1> QED
  BY <1>5, <1>6

(* ... and when the modem executes the next command: it leaves the order   *)
(* of the others as it is.                                                 *)
LEMMA ConsumeKeepsOrder ==
  ASSUME CmdTypeOK, c_rptr # c_wptr, c_rptr' = NextSlot(c_rptr),
         NEW i \in Slots, NEW j \in Slots, i # c_rptr, j # c_rptr,
         Dist(c_rptr, j) < Dist(c_rptr, i)
  PROVE  Dist(c_rptr', j) < Dist(c_rptr', i)
<1>1. c_rptr \in Slots
  BY DEF CmdTypeOK
<1>2. NextSlot(c_rptr) = IF c_rptr = CMD_RING_SIZE - 1 THEN 0 ELSE c_rptr + 1
  BY <1>1, NextSlotValue
<1> QED
  BY <1>1, <1>2, CmdRingAssumption DEF Dist, Slots

(* The modem executing a command cannot reopen a ring that is to end       *)
(* closed.                                                                 *)
LEMMA EndsExecuted ==
  ASSUME CtlTypeOK, ModemExecute, NEW r \in Rings, EndsClosed(r)
  PROVE  EndsClosed(r)'
<1>0. CmdTypeOK /\ RingTypes
  BY CtlTypesSplit
<1>1. /\ c_rptr \in Slots /\ c_wptr \in Slots /\ c_rptr # c_wptr
      /\ c_rptr' = NextSlot(c_rptr) /\ UNCHANGED <<c_wptr, c_ring>>
      /\ c_ring[c_rptr] \in Cmds \cup {NoCmd}
  BY <1>0 DEF CmdTypeOK, ModemExecute, ModemConsume
<1>2. c_rptr \in Pending /\ Pending \subseteq Slots
  BY <1>1, CmdRingAssumption DEF Pending, Dist, Slots
<1>3. Pending' = Pending \ {c_rptr}
  BY <1>0, <1>1, ConsumeRemoves
<1>4. /\ c_ring[c_rptr] = CloseCmd(r) => modem_ring'[r] = FALSE
      /\ c_ring[c_rptr] # OpenCmd(r) /\ modem_ring[r] = FALSE => modem_ring'[r] = FALSE
  <2>1. CASE c_ring[c_rptr] = NoCmd
    <3>1. CloseCmd(r) \in Cmds
      BY QpControlAssumption DEF RingCmds, CloseCmd
    <3>2. modem_ring' = modem_ring
      BY <2>1 DEF ModemExecute
    <3> QED
      BY <2>1, <3>1, <3>2, CmdRingAssumption
  <2>2. CASE c_ring[c_rptr] # NoCmd
    <3>1. c_ring[c_rptr] \in RingCmds
      BY <1>1, <2>2, QpControlAssumption
    <3>2. PICK op \in {"OPEN", "CLOSE"}, o \in Rings : c_ring[c_rptr] = [op |-> op, ring |-> o]
      BY <3>1 DEF RingCmds
    <3>3. modem_ring' = [modem_ring EXCEPT ![o] = (op = "OPEN")]
      BY <2>2, <3>2 DEF ModemExecute
    <3>4. c_ring[c_rptr] = CloseCmd(r) => o = r /\ op = "CLOSE"
      BY <3>2 DEF CloseCmd
    <3>5. c_ring[c_rptr] # OpenCmd(r) => o # r \/ op = "CLOSE"
      BY <3>2 DEF OpenCmd
    <3> QED
      BY <1>0, <3>3, <3>4, <3>5 DEF RingTypes
  <2> QED
    BY <2>1, <2>2
<1>5. ASSUME ~modem_ring[r], \A i \in Pending : c_ring[i] # OpenCmd(r)
      PROVE  EndsClosed(r)'
  <2>1. modem_ring[r] = FALSE
    BY <1>0, <1>5 DEF RingTypes
  <2> QED
    BY <1>1, <1>2, <1>3, <1>4, <1>5, <2>1 DEF EndsClosed
<1>6. ASSUME NEW i \in Pending, c_ring[i] = CloseCmd(r),
             \A j \in Pending : c_ring[j] = OpenCmd(r) => Dist(c_rptr, j) < Dist(c_rptr, i)
      PROVE  EndsClosed(r)'
  <2>1. CASE i = c_rptr
    <3>1. \A j \in Slots : ~(Dist(c_rptr, j) < Dist(c_rptr, c_rptr))
      BY <1>1, CmdRingAssumption DEF Dist, Slots
    <3>2. \A j \in Pending' : c_ring'[j] # OpenCmd(r)
      BY <1>1, <1>2, <1>3, <1>6, <2>1, <3>1
    <3>3. modem_ring'[r] = FALSE
      BY <1>4, <1>6, <2>1
    <3> QED
      BY <3>2, <3>3 DEF EndsClosed
  <2>2. CASE i # c_rptr
    <3>1. ASSUME NEW j \in Pending', c_ring'[j] = OpenCmd(r)
          PROVE  Dist(c_rptr', j) < Dist(c_rptr', i)
      BY <1>0, <1>1, <1>2, <1>3, <1>6, <2>2, <3>1, ConsumeKeepsOrder
    <3>2. i \in Pending' /\ c_ring'[i] = CloseCmd(r)
      BY <1>1, <1>3, <1>6, <2>2
    <3> QED
      BY <3>1, <3>2 DEF EndsClosed, Dist
  <2> QED
    BY <2>1, <2>2
<1> QED
  BY <1>5, <1>6 DEF EndsClosed

(* Nothing is open in the initial state.                                   *)
LEMMA CloseInit == CtlInit => CloseInv
<1> SUFFICES ASSUME CtlInit PROVE CloseInv
  OBVIOUS
<1>1. Pending = {}
  BY CmdRingAssumption DEF CtlInit, CmdInit, Pending, Dist, Slots
<1>2. \A r \in Rings : EndsClosed(r)
  BY <1>1 DEF CtlInit, EndsClosed
<1> QED
  BY <1>2 DEF CtlInit, CmdInit, CloseInv

(* Steps outside a command: memory goes only in td_ring_destroy, after the *)
(* command, and a command is refused only in error.                        *)
LEMMA CloseMoves ==
  ASSUME CtlInv, Serial, Room, CloseInv, NEW t \in Callers,
         \/ TdRingClear(t) \/ TdRingAlloc(t) \/ Opened(t) \/ FillRx(t)
         \/ TdRingEmpty(t) \/ TdRingClose(t) \/ TdRingFree(t)
  PROVE  CloseInv'
<1>0. /\ CmdTypeOK /\ LockTypes /\ RingTypes /\ MutexInv
      /\ stage[t] # "out" /\ pc[t] = "idle"
  BY CtlTypesSplit
     DEF CtlInv, MutexInv, TdRingClear, TdRingAlloc, Opened, FillRx, TdRingEmpty, TdRingClose,
         TdRingFree
<1>q. PICK q \in QPs, r \in Rings : q = job[t].qp /\ r = job[t].ring /\ r \in {TxRing(q), RxRing(q)}
  BY <1>0, JobOf
<1>w. Working(t) /\ job[t].op \in {"start", "undo", "stop", "giveup"}
  BY <1>0, JobOf DEF CtlInv, RingInv, Jobs
<1>1. /\ UNCHANGED <<c_wptr, c_rptr, c_ring, modem_ring, modem>>
      /\ error' => error \/ modem = "crashed"
  BY <1>0
     DEF TdRingClear, TdRingAlloc, Opened, FillRx, TdRingEmpty, TdRingClose, TdRingFree, Execute,
         cmdVars,
         ringVars, Poll, CmdTypeOK
<1>s. \A o \in Rings : EndsClosed(o)' <=> EndsClosed(o)
  BY <1>1, EndsSame
<1>2. \A u \in Callers \ {t} : stage'[u] = "out"
  <2>1. \A u \in Callers \ {t} : stage[u] = "out"
    BY <1>0, Alone
  <2>2. \A u \in Callers \ {t} : stage'[u] = stage[u]
    BY <1>0
       DEF TdRingClear, TdRingAlloc, Opened, FillRx, TdRingEmpty, TdRingClose, TdRingFree,
           Destroyed, GoTo, Leave, LockTypes
  <2> QED
    BY <2>1, <2>2
<1>3. ASSUME \A o \in Rings : ~mem'[o] /\ modem = "ok" => EndsClosed(o),
             stage'[t] = "closing" /\ pc'[t] \in {"ding", "wait", "idle"} => modem # "ok"
      PROVE  CloseInv'
  <2>1. error' => modem' = "crashed"
    BY <1>1 DEF CloseInv
  <2> QED
    BY <1>1, <1>2, <1>3, <1>s, <2>1 DEF CloseInv
<1>4. CASE TdRingClear(t)
  <2>1. /\ stage[t] = "create" /\ stage'[t] = "alloc"
        /\ \A o \in Rings \ {r} : mem'[o] = mem[o]
    BY <1>0, <1>q, <1>4 DEF TdRingClear, LockTypes, RingTypes
  <2>2. ~mem[r]
    BY <1>q, <1>w, <2>1 DEF Working, Starting, Undoing, Stopping, GivingUp, OneLeft, Free
  <2> QED
    BY <1>3, <2>1, <2>2 DEF CloseInv
<1>5. CASE TdRingAlloc(t)
  <2>1. stage'[t] = "opening" /\ \A o \in Rings : mem[o] => mem'[o]
    BY <1>0, <1>q, <1>5 DEF TdRingAlloc, LockTypes, RingTypes
  <2> QED
    BY <1>3, <2>1 DEF CloseInv
<1>6. CASE Opened(t) \/ FillRx(t) \/ TdRingEmpty(t)
  <2>1. stage'[t] # "closing" /\ mem' = mem
    BY <1>0, <1>6 DEF Opened, FillRx, TdRingEmpty, Destroyed, GoTo, Leave, LockTypes, ringVars
  <2> QED
    BY <1>3, <2>1 DEF CloseInv
<1>7. CASE TdRingClose(t)
  <2>1. mem' = mem
    BY <1>7 DEF TdRingClose, ringVars
  <2>2. pc'[t] \in {"ding", "wait", "idle"} => error
    BY <1>0, <1>7 DEF TdRingClose, Execute, Return, CmdTypeOK, Room
  <2>3. error => modem # "ok"
    BY DEF CloseInv
  <2> QED
    BY <1>3, <2>1, <2>2, <2>3 DEF CloseInv
<1>8. CASE TdRingFree(t)
  <2>1. /\ stage[t] = "closing" /\ stage'[t] # "closing"
        /\ \A o \in Rings \ {r} : mem'[o] = mem[o]
    BY <1>0, <1>q, <1>8 DEF TdRingFree, Destroyed, GoTo, Leave, LockTypes, RingTypes
  <2>2. modem = "ok" => EndsClosed(r)
    BY <1>0, <1>q, <2>1 DEF CloseInv
  <2> QED
    BY <1>3, <2>1, <2>2 DEF CloseInv
<1> QED
  BY <1>4, <1>5, <1>6, <1>7, <1>8

(* The command of td_ring_destroy makes its ring end closed; the command   *)
(* of td_ring_create is for a ring that is allocated.                      *)
LEMMA CloseCommands ==
  ASSUME CtlInv, Serial, OpenInv, CloseInv, NEW t \in Callers, CommandStep(t)
  PROVE  CloseInv'
<1>0. /\ CmdTypeOK /\ LockTypes /\ RingTypes /\ MutexInv
      /\ stage[t] \in {"opening", "closing"} /\ ExecuteStep(t)
      /\ UNCHANGED <<stage, job, mem, modem_ring>> /\ ThreadOpen(t)
  BY CtlTypesSplit DEF CtlInv, CommandStep, qpVars, ringVars, OpenInv
<1>q. PICK q \in QPs, r \in Rings : q = job[t].qp /\ r = job[t].ring /\ r \in {TxRing(q), RxRing(q)}
  BY <1>0, JobOf
<1>w. Working(t) /\ job[t].op \in {"start", "undo", "stop", "giveup"}
  BY <1>0, JobOf DEF CtlInv, RingInv, Jobs
<1>m. stage[t] = "opening" => mem[r]
  BY <1>q, <1>w DEF Working, Starting, Undoing, Stopping, GivingUp
<1>d. pc[t] # "idle" /\ Commanding(t)
  BY <1>0 DEF ThreadOpen, ExecuteStep, WriteEntry, Publish, Ding, WaitDone, WaitCut
<1>1. \A u \in Callers \ {t} : stage'[u] = "out"
  BY <1>0, Alone
<1>2. modem' = modem /\ (error' => error \/ modem = "crashed")
  BY <1>0 DEF ExecuteStep, WriteEntry, Publish, Ding, Poll, WaitDone, WaitCut, CmdTypeOK
<1>3. ASSUME \A o \in Rings : EndsClosed(o) /\ o # r => EndsClosed(o)',
             ~mem[r] /\ EndsClosed(r) => EndsClosed(r)',
             stage[t] = "closing" /\ pc'[t] \in {"ding", "wait", "idle"} /\ modem = "ok"
               => EndsClosed(r)'
      PROVE  CloseInv'
  <2>1. error' => modem' = "crashed"
    BY <1>2 DEF CloseInv
  <2>2. modem' = "ok" => \A o \in Rings : ~mem'[o] => EndsClosed(o)'
    BY <1>0, <1>2, <1>3 DEF CloseInv
  <2>3. modem' = "ok" => \A u \in Callers :
          stage'[u] = "closing" /\ pc'[u] \in {"ding", "wait", "idle"} => EndsClosed(job[u].ring)'
    BY <1>0, <1>1, <1>2, <1>3, <1>q
  <2> QED
    BY <1>0, <2>1, <2>2, <2>3 DEF CloseInv
<1>4. CASE WriteEntry(t)
  <2>1. /\ c_ring' = [c_ring EXCEPT ![c_wptr] = cmd[t]]
        /\ UNCHANGED <<c_wptr, c_rptr>> /\ pc'[t] = "publish"
    BY <1>0, <1>d, <1>4 DEF WriteEntry, Commanding, CmdTypeOK
  <2> QED
    BY <1>0, <1>3, <2>1, EndsFilled
<1>5. CASE Publish(t)
  <2>1. /\ c_wptr' = NextSlot(c_wptr) /\ UNCHANGED <<c_ring, c_rptr>> /\ pc'[t] = "ding"
        /\ NextSlot(c_wptr) # c_rptr
        /\ c_ring[c_wptr] = IF stage[t] = "opening" THEN OpenCmd(r) ELSE CloseCmd(r)
    BY <1>0, <1>d, <1>q, <1>5 DEF Publish, Commanding, CmdTypeOK
  <2>2. \A o \in Rings : o # r => c_ring[c_wptr] # OpenCmd(o)
    BY <2>1 DEF OpenCmd, CloseCmd
  <2>3. \A o \in Rings : EndsClosed(o) /\ o # r => EndsClosed(o)'
    BY <1>0, <2>1, <2>2, EndsPublished
  <2>4. stage[t] = "closing" => c_ring[c_wptr] = CloseCmd(r) /\ c_ring[c_wptr] # OpenCmd(r)
    BY <2>1 DEF OpenCmd, CloseCmd
  <2>5. stage[t] = "closing" => EndsClosed(r)'
    BY <1>0, <2>1, <2>4, EndsPublished
  <2> QED
    BY <1>0, <1>3, <1>m, <2>3, <2>5
<1>6. CASE Ding(t) \/ WaitDone(t) \/ WaitCut(t)
  <2>1. UNCHANGED <<c_wptr, c_rptr, c_ring>> /\ pc[t] \in {"ding", "wait"}
    BY <1>6 DEF Ding, WaitDone, WaitCut
  <2>2. stage[t] = "closing" /\ modem = "ok" => EndsClosed(r)
    BY <1>q, <2>1 DEF CloseInv
  <2> QED
    BY <1>0, <1>3, <2>1, <2>2, EndsSame
<1> QED
  BY <1>0, <1>4, <1>5, <1>6 DEF ExecuteStep

(* Every step keeps CloseInv while one thread at a time is at work and     *)
(* td_ring_destroy finds room in the command ring.                         *)
LEMMA CloseStep ==
  ASSUME CtlInv, Serial, Room, OpenInv, CloseInv, [CtlNext]_ctlVars
  PROVE  CloseInv'
<1>t. CtlTypeOK /\ CmdTypeOK /\ LockTypes /\ MutexInv
  BY CtlTypesSplit DEF CtlInv
<1>1. ASSUME NEW t \in Callers, ThreadStep(t) PROVE CloseInv'
  BY <1>1, CloseMoves, CloseCommands DEF ThreadStep
<1>2. ASSUME NEW t \in Callers, NEW q \in QPs,
             QpStart(t, q) \/ QpStop(t, q) \/ CreateNetFails(t, q)
      PROVE  CloseInv'
  <2>1. /\ UNCHANGED <<c_wptr, c_rptr, c_ring, modem_ring, modem, error, mem, pc>>
        /\ stage'[t] # "closing"
        /\ \A u \in Callers \ {t} : stage'[u] = stage[u] /\ job'[u] = job[u]
    BY <1>t, <1>2 DEF QpStart, QpStop, CreateNetFails, GoTo, LockTypes, cmdVars, ringVars
  <2>2. ASSUME NEW u \in Callers \ {t}, stage'[u] = "closing", pc'[u] \in {"ding", "wait", "idle"},
               modem' = "ok"
        PROVE  EndsClosed(job[u].ring)'
    <3>1. PICK r \in Rings : r = job[u].ring /\ EndsClosed(r)
      BY <1>t, <2>1, <2>2, JobOf DEF CloseInv
    <3>2. EndsClosed(r)'
      BY <2>1, <3>1, EndsSame
    <3> QED
      BY <2>1, <3>1, <3>2
  <2> QED
    BY <2>1, <2>2, EndsSame DEF CloseInv
<1>3. CASE IrqHandler \/ (\E q \in QPs : ModemFill(q)) \/ ModemDies \/ UNCHANGED ctlVars
  <2>1. /\ UNCHANGED <<c_wptr, c_rptr, c_ring, pc, modem_ring, stage, job, mem>>
        /\ modem' = modem \/ modem' = "crashed"
        /\ error' => error \/ modem = "crashed"
    BY <1>3, <1>t
       DEF IrqHandler, ModemFill, ModemDies, ModemCrash, Poll, CmdTypeOK, ctlVars, cmdVars, qpVars,
           ringVars
  <2>2. error' => modem' = "crashed"
    BY <2>1 DEF CloseInv
  <2>3. Pending' = Pending
    BY <2>1, StaysSame
  <2> QED
    BY <2>1, <2>2, <2>3 DEF CloseInv, EndsClosed, Dist
<1>4. CASE ModemExecute
  <2>1. UNCHANGED <<pc, stage, job, mem, modem, error>>
    BY <1>4 DEF ModemExecute, ModemConsume, ringVars
  <2>2. \A r \in Rings : EndsClosed(r) => EndsClosed(r)'
    BY <1>t, <1>4, EndsExecuted
  <2>3. ASSUME NEW t \in Callers, stage[t] = "closing", EndsClosed(job[t].ring)
        PROVE  EndsClosed(job[t].ring)'
    <3>1. PICK r \in Rings : r = job[t].ring
      BY <1>t, <2>3, JobOf
    <3>2. EndsClosed(r)'
      BY <2>2, <2>3, <3>1
    <3> QED
      BY <2>1, <3>1, <3>2
  <2> QED
    BY <2>1, <2>2, <2>3 DEF CloseInv
<1> QED
  BY <1>1, <1>2, <1>3, <1>4 DEF CtlNext

(* td_ring_destroy frees a ring whatever its CMD_RING_CLOSE returned.  When*)
(* one thread at a time is at work and the command finds a free slot, the  *)
(* modem has a freed ring open at most until it gets to a CMD_RING_CLOSE   *)
(* already published, however many commands timed out.                     *)
THEOREM SerialCloseBeforeFree == CtlSpec /\ []Serial /\ []Room => []CloseBeforeFree
<1>1. CtlInit => OpenInv /\ CloseInv
  BY OpenInit, CloseInit
<1>2. CtlInv /\ Serial /\ OpenInv /\ [CtlNext]_ctlVars => OpenInv'
  BY OpenStep
<1>3. CtlInv /\ Serial /\ Room /\ OpenInv /\ CloseInv /\ [CtlNext]_ctlVars => CloseInv'
  BY CloseStep
<1>4. CloseInv => CloseBeforeFree
  BY DEF CloseInv, EndsClosed, CloseBeforeFree, CloseCmd
<1> QED
  BY <1>1, <1>2, <1>3, <1>4, CtlInvHolds, PTL DEF CtlSpec

-----------------------------------------------------------------------------
(* The driver as far as it does serialise: one queue pair, one mutex.      *)
OnePair == \A p, q \in QPs : p = q

(* With one pair, its mutex alone serialises the callers.                  *)
LEMMA OneIsSerial == OnePair => Serial
  BY DEF OnePair, Serial

(* Publishing adds one pending command, consuming removes one; there is    *)
(* room as long as one slot stays free behind the next.                    *)
LEMMA DistFacts ==
  ASSUME CmdTypeOK
  PROVE  /\ Dist(c_rptr, c_wptr) \in Nat
         /\ Dist(c_rptr, c_wptr) = 0 <=> c_rptr = c_wptr
         /\ NextSlot(c_wptr) # c_rptr =>
              Dist(c_rptr, NextSlot(c_wptr)) = Dist(c_rptr, c_wptr) + 1
         /\ c_rptr # c_wptr =>
              Dist(NextSlot(c_rptr), c_wptr) = Dist(c_rptr, c_wptr) - 1
         /\ Dist(c_rptr, c_wptr) + 1 < CMD_RING_SIZE => NextSlot(c_wptr) # c_rptr
<1>1. c_wptr \in Slots /\ c_rptr \in Slots
  BY DEF CmdTypeOK
<1>2. /\ NextSlot(c_wptr) = IF c_wptr = CMD_RING_SIZE - 1 THEN 0 ELSE c_wptr + 1
      /\ NextSlot(c_rptr) = IF c_rptr = CMD_RING_SIZE - 1 THEN 0 ELSE c_rptr + 1
  BY <1>1, NextSlotValue
<1> QED
  BY <1>1, <1>2, CmdRingAssumption DEF Dist, Slots

(* No command is pending in the initial state.                             *)
LEMMA BoundInit == CtlInit => BoundInv
  BY CmdRingAssumption DEF CtlInit, CmdInit, BoundInv, RestBound, Dist

(* With one pair, what a thread's step does to itself and to the pair is   *)
(* all there is.                                                           *)
LEMMA BoundOf ==
  ASSUME OnePair, NEW t \in Callers, NEW q \in QPs,
         \A u \in Callers \ {t} : stage'[u] = "out",
         stage'[t] # "out" => ThreadBound(t)',
         lock'[q] = NoOne => RestBound(q)'
  PROVE  BoundInv'
  BY DEF OnePair, BoundInv

(* Entering a call: the thread owes all its commands.                      *)
LEMMA BoundEnters ==
  ASSUME OnePair, CtlInv, BoundInv, NEW t \in Callers, NEW q \in QPs,
         QpStart(t, q) \/ QpStop(t, q) \/ CreateNetFails(t, q)
  PROVE  BoundInv'
<1>0. CmdTypeOK /\ LockTypes /\ MutexInv /\ RingInv /\ NoOne \notin Callers
  BY CtlTypesSplit, QpControlAssumption DEF CtlInv
<1>1. stage[t] = "out" /\ pc[t] = "idle" /\ lock[q] = NoOne /\ Resting(q) /\ RestBound(q)
  BY <1>0 DEF QpStart, QpStop, CreateNetFails, MutexInv, RingInv, BoundInv
<1>2. \A u \in Callers : stage[u] = "out"
  <2>1. ASSUME NEW u \in Callers, stage[u] # "out" PROVE FALSE
    <3>1. job[u].qp \in QPs /\ lock[job[u].qp] = u
      BY <1>0, <2>1, JobOf
    <3> QED
      BY <1>0, <1>1, <3>1 DEF OnePair
  <2> QED
    BY <2>1, Zenon
<1>3. \A u \in Callers \ {t} : stage'[u] = "out"
  BY <1>0, <1>2 DEF QpStart, QpStop, CreateNetFails, GoTo, LockTypes
<1>4. /\ UNCHANGED <<c_wptr, c_rptr, depth>> /\ lock'[q] = t
      /\ stage'[t] \in {"create", "destroy"} /\ job'[t].ring = TxRing(q) /\ job'[t].qp = q
      /\ \/ /\ job'[t].op = "start" /\ ~qp_open[q] /\ q \notin created
            /\ created' = created \cup ({q} \cap NetQps)
         \/ job'[t].op = "stop" /\ held[q] /\ UNCHANGED created
         \/ job'[t].op = "giveup" /\ q \in NetQps /\ qp_open[q] /\ UNCHANGED created
  BY <1>0 DEF QpStart, QpStop, CreateNetFails, GoTo, LockTypes, cmdVars, ringVars
<1>n. PICK n \in Nat : n = Dist(c_rptr, c_wptr)
  BY <1>0, DistFacts
<1>5. n <= Before(t)' /\ Before(t)' \in Nat /\ (q \in NetQps => q \in created')
  <2>1. CASE job'[t].op = "start" /\ ~qp_open[q] /\ q \notin created
               /\ created' = created \cup ({q} \cap NetQps)
    <3>1. n <= IF q \in NetQps THEN 0 ELSE 2
      BY <1>n, <1>1, <2>1 DEF RestBound
    <3> QED
      BY <1>4, <2>1, <3>1 DEF Before
  <2>2. CASE job'[t].op = "stop" /\ held[q] /\ UNCHANGED created
    <3>1. n = 0 /\ (q \in NetQps => q \in created)
      BY <1>n, <1>1, <2>2 DEF RestBound, Resting
    <3> QED
      BY <1>4, <2>2, <3>1 DEF Before
  <2>3. CASE job'[t].op = "giveup" /\ q \in NetQps /\ qp_open[q] /\ UNCHANGED created
    <3>1. n <= (IF depth[TxRing(q)] # 0 THEN 1 ELSE 2) /\ q \in created
      BY <1>n, <1>1, <2>3 DEF RestBound
    <3> QED
      BY <1>4, <2>3, <3>1 DEF Before
  <2> QED
    BY <1>4, <2>1, <2>2, <2>3
<1>6. ThreadBound(t)'
  <2>1. ~Sent(t)'
    BY <1>4 DEF Sent
  <2>2. Dist(c_rptr, c_wptr)' = n
    BY <1>4, <1>n DEF Dist
  <2> QED
    BY <1>4, <1>5, <2>1, <2>2 DEF ThreadBound
<1> QED
  BY <1>0, <1>3, <1>4, <1>6, BoundOf

(* A thread that starts its command accounts for it; when it goes on, the  *)
(* bound of its next ring covers what the command may have left.           *)
LEMMA BoundMoves ==
  ASSUME OnePair, CtlInv, BoundInv, NEW t \in Callers,
         \/ TdRingClear(t) \/ TdRingAlloc(t) \/ Opened(t) \/ FillRx(t)
         \/ TdRingEmpty(t) \/ TdRingClose(t) \/ TdRingFree(t)
  PROVE  BoundInv'
<1>0. /\ CmdTypeOK /\ LockTypes /\ RingTypes /\ MutexInv /\ stage[t] # "out" /\ pc[t] = "idle"
      /\ NoOne \notin Callers
  BY CtlTypesSplit, QpControlAssumption
     DEF CtlInv, MutexInv, TdRingClear, TdRingAlloc, Opened, FillRx, TdRingEmpty, TdRingClose,
         TdRingFree
<1>q. PICK q \in QPs, r \in Rings : q = job[t].qp /\ r = job[t].ring /\ r \in {TxRing(q), RxRing(q)}
  BY <1>0, JobOf
<1>w. /\ Working(t) /\ job[t].op \in {"start", "undo", "stop", "giveup"}
      /\ TxRing(q) # RxRing(q) /\ lock[q] = t /\ ThreadBound(t)
  BY <1>0, <1>q, JobOf, RingNumbers DEF CtlInv, RingInv, Jobs, BoundInv
<1>n. PICK n \in Nat : n = Dist(c_rptr, c_wptr)
  BY <1>0, DistFacts
<1>1. UNCHANGED <<c_wptr, c_rptr, created>> /\ Dist(c_rptr, c_wptr)' = n
  BY <1>n
     DEF TdRingClear, TdRingAlloc, Opened, FillRx, TdRingEmpty, TdRingClose, TdRingFree,
         Execute, cmdVars, Dist
<1>c. q \in NetQps => q \in created
  BY <1>q, <1>w DEF ThreadBound
<1>2. \A u \in Callers \ {t} : stage'[u] = "out"
  <2>1. \A u \in Callers \ {t} : stage[u] = "out"
    BY <1>0, Alone, OneIsSerial
  <2>2. \A u \in Callers \ {t} : stage'[u] = stage[u]
    BY <1>0
       DEF TdRingClear, TdRingAlloc, Opened, FillRx, TdRingEmpty, TdRingClose, TdRingFree,
           Destroyed, GoTo, Leave, LockTypes
  <2> QED
    BY <2>1, <2>2
<1>3. CASE TdRingClear(t)
  <2>1. stage[t] = "create" /\ stage'[t] = "alloc" /\ UNCHANGED <<job, lock>>
    BY <1>0, <1>3 DEF TdRingClear, LockTypes
  <2>2. job[t].op = "start"
    BY <1>w, <2>1 DEF Working, Undoing, Stopping, GivingUp
  <2>3. n <= Before(t) /\ Before(t)' = Before(t) /\ Before(t) \in Nat
    BY <1>n, <1>w, <2>1, <2>2 DEF ThreadBound, Sent, Before
  <2>4. ThreadBound(t)'
    BY <1>1, <1>c, <1>q, <2>1, <2>3 DEF ThreadBound, Sent
  <2> QED
    BY <1>0, <1>2, <1>w, <2>1, <2>4, BoundOf
<1>4. CASE TdRingAlloc(t) \/ TdRingClose(t)
  <2>1. /\ stage[t] \in {"alloc", "destroy"} /\ stage'[t] \in {"opening", "closing"}
        /\ UNCHANGED <<job, lock, depth>>
        /\ pc'[t] = "idle" => ret'[t] # "ok"
    BY <1>0, <1>4 DEF TdRingAlloc, TdRingClose, Execute, Return, LockTypes, CmdTypeOK, ringVars
  <2>2. n <= Before(t) /\ Before(t)' = Before(t) /\ Before(t) \in Nat
    BY <1>n, <1>w, <2>1 DEF ThreadBound, Sent, Before
  <2>3. ThreadBound(t)'
    BY <1>1, <1>c, <1>q, <2>1, <2>2 DEF ThreadBound
  <2> QED
    BY <1>0, <1>2, <1>w, <2>1, <2>3, BoundOf
<1>5. CASE Opened(t)
  <2>1. /\ stage[t] = "opening" /\ UNCHANGED <<qp_open, held, depth>>
        /\ \/ /\ ret[t] = "ok" /\ stage'[t] \in {"create", "fill"} /\ UNCHANGED lock
              /\ job'[t] = [op |-> "start", qp |-> q, ring |-> RxRing(q)]
           \/ r = TxRing(q) /\ stage'[t] = "out"
           \/ /\ r = RxRing(q) /\ stage'[t] = "destroy" /\ UNCHANGED lock
              /\ job'[t] = [op |-> "undo", qp |-> q, ring |-> TxRing(q)]
    BY <1>0, <1>q, <1>5 DEF Opened, GoTo, Leave, LockTypes, ringVars
  <2>2. job[t].op = "start" /\ Starting("opening", q, r)
    BY <1>q, <1>w, <2>1 DEF Working, Undoing, Stopping, GivingUp
  <2>3. /\ n <= 3 /\ (r = RxRing(q) \/ q \in NetQps => n <= 1)
        /\ ret[t] = "ok" => n = 0
    BY <1>0, <1>n, <1>q, <1>w, <2>1, <2>2, DistFacts DEF ThreadBound, Before
  <2>4. ASSUME stage'[t] # "out" PROVE ThreadBound(t)'
    <3>1. n <= Before(t)' /\ Before(t)' \in Nat
      BY <1>w, <2>1, <2>3, <2>4 DEF Before
    <3> QED
      BY <1>1, <1>c, <2>1, <2>4, <3>1 DEF ThreadBound, Sent
  <2>5. stage'[t] = "out" => RestBound(q)'
    BY <1>1, <1>c, <1>w, <2>1, <2>2, <2>3 DEF RestBound, Starting
  <2>6. stage'[t] # "out" => lock'[q] # NoOne
    BY <1>0, <1>w, <2>1
  <2> QED
    BY <1>2, <2>4, <2>5, <2>6, BoundOf
<1>6. CASE FillRx(t)
  <2>1. stage[t] = "fill" /\ stage'[t] = "out" /\ UNCHANGED qp_open
    BY <1>0, <1>6 DEF FillRx, Leave, LockTypes
  <2>2. job[t].op = "start" /\ r = RxRing(q)
    BY <1>q, <1>w, <2>1 DEF Working, Starting, Undoing, Stopping, GivingUp
  <2>3. n = 0
    BY <1>n, <1>q, <1>w, <2>1, <2>2 DEF ThreadBound, Before, Sent
  <2>4. RestBound(q)'
    BY <1>1, <1>c, <2>3 DEF RestBound
  <2> QED
    BY <1>2, <2>1, <2>4, BoundOf
<1>7. CASE TdRingFree(t) \/ TdRingEmpty(t)
  <2>1. /\ stage[t] \in {"closing", "destroy"} /\ UNCHANGED <<qp_open, held>>
        /\ depth'[r] = 0 /\ \A o \in Rings \ {r} : depth'[o] = depth[o]
        /\ stage[t] = "destroy" => depth[r] = 0
        /\ IF job[t].op # "undo" /\ r = TxRing(q)
           THEN /\ stage'[t] = "destroy" /\ UNCHANGED lock
                /\ job'[t] = [op |-> job[t].op, qp |-> q, ring |-> RxRing(q)]
           ELSE stage'[t] = "out"
    BY <1>0, <1>q, <1>7
       DEF TdRingFree, TdRingEmpty, Destroyed, GoTo, Leave, LockTypes, RingTypes, ringVars
  <2>2. /\ job[t].op \in {"undo", "stop", "giveup"} /\ ~held[q]
        /\ job[t].op = "undo" => r = TxRing(q) /\ stage[t] = "closing"
        /\ job[t].op = "stop" => ~qp_open[q] /\ stage[t] = "closing"
        /\ job[t].op = "giveup" => ~qp_open[q] /\ q \in NetQps
    BY <1>q, <1>w, <2>1 DEF Working, Starting, Undoing, Stopping, GivingUp
  <2>3. /\ n <= 3 /\ (job[t].op # "giveup" => n <= 2)
        /\ job[t].op = "stop" /\ r = TxRing(q) => n <= 1
        /\ job[t].op = "giveup" /\ r = TxRing(q) => n <= 2
    <3>1. job[t].op = "giveup" /\ r = TxRing(q) /\ stage[t] = "closing" => depth[r] # 0
      BY <1>q, <1>w DEF Working, GivingUp
    <3>2. n <= Before(t) + IF stage[t] = "closing" THEN 1 ELSE 0
      BY <1>0, <1>n, <1>w, <2>1 DEF ThreadBound, Sent
    <3> QED
      BY <1>n, <1>q, <2>1, <2>2, <3>1, <3>2 DEF Before
  <2>4. ASSUME stage'[t] # "out" PROVE ThreadBound(t)'
    <3>1. n <= Before(t)' /\ Before(t)' \in Nat
      BY <1>w, <2>1, <2>2, <2>3, <2>4 DEF Before
    <3> QED
      BY <1>1, <1>c, <2>1, <2>4, <3>1 DEF ThreadBound, Sent
  <2>5. stage'[t] = "out" => RestBound(q)'
    BY <1>1, <1>c, <2>1, <2>2, <2>3 DEF RestBound
  <2>6. stage'[t] # "out" => lock'[q] # NoOne
    BY <1>0, <1>w, <2>1
  <2> QED
    BY <1>2, <2>4, <2>5, <2>6, BoundOf
<1> QED
  BY <1>3, <1>4, <1>5, <1>6, <1>7

(* A command step of either call.                                          *)
LEMMA BoundCommands ==
  ASSUME OnePair, CtlInv, OpenInv, BoundInv, NEW t \in Callers, CommandStep(t)
  PROVE  BoundInv'
<1>0. /\ CmdTypeOK /\ LockTypes /\ MutexInv /\ ThreadOpen(t) /\ NoOne \notin Callers
      /\ stage[t] \in {"opening", "closing"} /\ ExecuteStep(t)
      /\ UNCHANGED <<stage, job, lock, depth, created>>
  BY CtlTypesSplit, QpControlAssumption DEF CtlInv, CommandStep, qpVars, ringVars, OpenInv
<1>q. PICK q \in QPs : q = job[t].qp /\ lock[q] = t
  BY <1>0, JobOf
<1>n. PICK n \in Nat : n = Dist(c_rptr, c_wptr)
  BY <1>0, DistFacts
<1>d. pc[t] # "idle" /\ Commanding(t) /\ ThreadBound(t)
  BY <1>0
     DEF ThreadOpen, ExecuteStep, WriteEntry, Publish, Ding, WaitDone, WaitCut, BoundInv
<1>b. Before(t) \in Nat /\ Before(t)' = Before(t)
  BY <1>0 DEF Before
<1>1. \A u \in Callers \ {t} : stage'[u] = "out"
  BY <1>0, Alone, OneIsSerial
<1>2. ThreadBound(t)'
  <2>1. CASE WriteEntry(t)
    <3>1. UNCHANGED <<c_wptr, c_rptr>> /\ pc[t] = "write" /\ pc'[t] = "publish"
      BY <1>0, <2>1 DEF WriteEntry, CmdTypeOK
    <3>2. Dist(c_rptr, c_wptr)' = n /\ ~Sent(t) /\ ~Sent(t)'
      BY <1>n, <3>1 DEF Dist, Sent
    <3> QED
      BY <1>0, <1>b, <1>d, <1>n, <3>1, <3>2 DEF ThreadBound
  <2>2. CASE Publish(t)
    <3>1. /\ c_wptr' = NextSlot(c_wptr) /\ UNCHANGED c_rptr /\ NextSlot(c_wptr) # c_rptr
          /\ pc[t] = "publish" /\ pc'[t] = "ding"
      BY <1>0, <1>d, <2>2 DEF Publish, CmdTypeOK, Commanding
    <3>2. Dist(c_rptr, c_wptr)' = n + 1 /\ ~Sent(t) /\ Sent(t)'
      BY <1>0, <1>n, <3>1, DistFacts DEF Sent, Dist
    <3> QED
      BY <1>0, <1>b, <1>d, <1>n, <3>1, <3>2 DEF ThreadBound
  <2>3. CASE Ding(t)
    <3>1. UNCHANGED <<c_wptr, c_rptr>> /\ pc[t] = "ding" /\ pc'[t] = "wait"
      BY <1>0, <2>3 DEF Ding, CmdTypeOK
    <3>2. Dist(c_rptr, c_wptr)' = n /\ Sent(t) /\ Sent(t)'
      BY <1>0, <1>n, <3>1 DEF Dist, Sent
    <3> QED
      BY <1>0, <1>b, <1>d, <1>n, <3>1, <3>2 DEF ThreadBound
  <2>4. CASE WaitDone(t) \/ WaitCut(t)
    <3>1. /\ UNCHANGED <<c_wptr, c_rptr>> /\ pc[t] = "wait" /\ pc'[t] = "idle"
          /\ ret'[t] = "ok" => c_rptr = c_wptr
      BY <1>0, <2>4 DEF WaitDone, WaitCut, WaitCond, Return, CmdTypeOK
    <3>2. Dist(c_rptr, c_wptr)' = n /\ Sent(t) /\ Sent(t)'
      BY <1>0, <1>n, <3>1 DEF Dist, Sent
    <3> QED
      BY <1>0, <1>b, <1>d, <1>n, <3>1, <3>2 DEF ThreadBound
  <2> QED
    BY <1>0, <2>1, <2>2, <2>3, <2>4 DEF ExecuteStep
<1> QED
  BY <1>0, <1>1, <1>2, <1>q, BoundOf

(* Every step keeps the commands under way within what one pair can owe.   *)
LEMMA BoundStep ==
  ASSUME OnePair, CtlInv, OpenInv, BoundInv, [CtlNext]_ctlVars
  PROVE  BoundInv'
<1>t. CmdTypeOK /\ LockTypes
  BY CtlTypesSplit DEF CtlInv
<1>1. ASSUME NEW t \in Callers, ThreadStep(t) PROVE BoundInv'
  BY <1>1, BoundMoves, BoundCommands DEF ThreadStep
<1>2. CASE IrqHandler \/ (\E q \in QPs : ModemFill(q)) \/ ModemDies \/ UNCHANGED ctlVars
  <2>1. UNCHANGED <<c_wptr, c_rptr, pc, ret, held, qp_open, lock, stage, job, depth, created>>
    BY <1>2 DEF IrqHandler, ModemFill, ModemDies, ModemCrash, ctlVars, cmdVars, qpVars, ringVars
  <2>2. Dist(c_rptr, c_wptr)' = Dist(c_rptr, c_wptr)
    BY <2>1 DEF Dist
  <2> QED
    BY <2>1, <2>2 DEF BoundInv, ThreadBound, RestBound, Before, Sent
<1>3. CASE ModemExecute
  <2>1. /\ UNCHANGED <<c_wptr, pc, ret, held, qp_open, lock, stage, job, depth, created>>
        /\ c_rptr # c_wptr /\ c_rptr' = NextSlot(c_rptr)
    BY <1>3 DEF ModemExecute, ModemConsume, ringVars
  <2>2. /\ Dist(c_rptr, c_wptr) \in Nat
        /\ Dist(c_rptr, c_wptr)' = Dist(c_rptr, c_wptr) - 1
    BY <1>t, <2>1, DistFacts DEF Dist
  <2>3. ASSUME NEW t \in Callers, stage[t] # "out" PROVE ThreadBound(t)'
    <3>1. ThreadBound(t)
      BY <2>3 DEF BoundInv
    <3>2. Before(t)' = Before(t) /\ Sent(t)' = Sent(t) /\ Before(t) \in Nat
      BY <2>1 DEF Before, Sent
    <3> QED
      BY <2>1, <2>2, <3>1, <3>2 DEF ThreadBound
  <2>4. ASSUME NEW q \in QPs, lock[q] = NoOne PROVE RestBound(q)'
    <3>1. RestBound(q)
      BY <2>4 DEF BoundInv
    <3>2. PICK n \in Nat : n = Dist(c_rptr, c_wptr) /\ Dist(c_rptr, c_wptr)' = n - 1 /\ n > 0
      BY <1>t, <2>1, <2>2, DistFacts
    <3> QED
      BY <2>1, <3>1, <3>2 DEF RestBound
  <2> QED
    BY <2>1, <2>3, <2>4 DEF BoundInv
<1> QED
  BY <1>1, <1>2, <1>3, BoundEnters DEF CtlNext

(* The size the command ring needs for that: one entry more with the       *)
(* network interface's pair, whose failed opening closes twice.            *)
RoomyRing == CMD_RING_SIZE > IF NetQps = {} THEN 2 ELSE 3

(* So td_ring_destroy finds a slot: at most one command is pending then,   *)
(* two in create_net's qp_stop.                                            *)
LEMMA BoundGivesRoom ==
  ASSUME CtlInv, BoundInv, RoomyRing
  PROVE  Room
<1> SUFFICES ASSUME NEW t \in Callers, stage[t] = "destroy", depth[job[t].ring] # 0
             PROVE  NextSlot(c_wptr) # c_rptr
  BY DEF Room
<1>0. CmdTypeOK /\ MutexInv
  BY CtlTypesSplit DEF CtlInv
<1>n. PICK n \in Nat : n = Dist(c_rptr, c_wptr)
  BY <1>0, DistFacts
<1>1. ThreadBound(t) /\ Working(t) /\ job[t].op \in {"start", "undo", "stop", "giveup"}
  BY <1>0, JobOf DEF BoundInv, CtlInv, RingInv, Jobs
<1>2. Before(t) \in IF NetQps = {} THEN {0, 1} ELSE {0, 1, 2}
  BY <1>1 DEF Before, Working, Starting, GivingUp
<1>3. n <= IF NetQps = {} THEN 1 ELSE 2
  BY <1>n, <1>1, <1>2 DEF ThreadBound, Sent
<1> QED
  BY <1>0, <1>n, <1>3, DistFacts, CmdRingAssumption DEF RoomyRing

(* One queue pair, with any number of threads that open and close it, any  *)
(* timeouts, signals and crashes, and a command ring of at least three     *)
(* entries, four for the network interface's pair (the driver's has 128):  *)
(* no hypothesis on the schedule is left.  A successful qp_start has both  *)
(* rings open in the modem, and the modem never keeps a freed ring open    *)
(* unless its CMD_RING_CLOSE is on the way.                                *)
THEOREM OnePairIsSafe ==
  ASSUME OnePair, RoomyRing
  PROVE  CtlSpec => [](OpenMeansOpen /\ CloseBeforeFree)
<1> DEFINE Inv == OpenInv /\ CloseInv /\ BoundInv
<1>1. CtlInit => Inv
  BY OpenInit, CloseInit, BoundInit
<1>2. CtlInv /\ Inv /\ [CtlNext]_ctlVars => Inv'
  BY OneIsSerial, BoundGivesRoom, OpenStep, CloseStep, BoundStep
<1>3. Inv => OpenMeansOpen /\ CloseBeforeFree
  BY DEF OpenInv, HeldOpen, StaysOpen, OpenMeansOpen, CloseInv, EndsClosed, CloseBeforeFree,
         CloseCmd
<1> QED
  BY <1>1, <1>2, <1>3, CtlInvHolds, PTL DEF CtlSpec

=============================================================================
