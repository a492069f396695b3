------------------------------ MODULE CmdRing ------------------------------
(***************************************************************************)
(* The command ring of the XMM7360 driver (xmm7360.c): the host writes a   *)
(* command in the slot at c_wptr, publishes it by advancing c_wptr, rings  *)
(* the doorbell and sleeps until the modem has consumed every command, the *)
(* device is in error, one second has passed or a signal arrives.          *)
(*                                                                         *)
(* Nothing in the driver serialises the callers of                         *)
(* xmm7360_cmd_ring_execute: qp_start and qp_stop hold the mutex of their  *)
(* own queue pair only.  Callers is therefore a set of threads; the ring   *)
(* is sound for one of them (the theorems CommandsKept and                 *)
(* PublishedCommandsStay of QpControlProofs), not for two (QpControl shows *)
(* what two queue pairs do to each other).                                 *)
(***************************************************************************)
EXTENDS Integers

CONSTANTS
  Callers,        \* threads that may execute a command
  CMD_RING_SIZE,  \* entries of the ring (0x80 in the driver)
  Cmds,           \* the commands they may execute
  NoCmd,          \* contents of an entry never written
  WaitCuts        \* what may end a wait early: a subset of {"timeout", "signal"}

ASSUME CmdRingAssumption ==
  /\ CMD_RING_SIZE \in Nat /\ CMD_RING_SIZE > 1
  /\ NoCmd \notin Cmds
  /\ WaitCuts \subseteq {"timeout", "signal"}

VARIABLES
  c_wptr, c_rptr,  \* write and read pointer in the control page
  c_ring,          \* the ring's entries in the control page
  modem,           \* "ok" | "crashed": what BAR2_STATUS / status.code show
  error,           \* xmm->error # 0
  pc,              \* where each caller is in cmd_ring_execute
  slot,            \* its local wptr
  cmd,             \* the command it executes
  ret              \* what its last cmd_ring_execute returned

cmdVars == <<c_wptr, c_rptr, c_ring, modem, error, pc, slot, cmd, ret>>

Slots    == 0 .. CMD_RING_SIZE - 1
CallerPc == {"idle", "write", "publish", "ding", "wait"}
Returns  == {"ok", "EAGAIN", "ETIMEDOUT", "ERESTARTSYS", "ENODEV"}

(* Broken variant: the write pointer does not wrap around.                 *)
NextSlotNoWrap(i) == i + 1

(* new_wptr of cmd_ring_execute.                                           *)
NextSlot(i) == (i + 1) % CMD_RING_SIZE

\* Number of entries published and not consumed, and which slots hold them.
Dist(from, to) == IF to >= from THEN to - from ELSE to - from + CMD_RING_SIZE
Pending        == {i \in Slots : Dist(c_rptr, i) < Dist(c_rptr, c_wptr)}

(* The ring after xmm7360_cmd_ring_init: the modem has booted, has found   *)
(* the control page and has been woken up (CMD_WAKEUP).                    *)
CmdInit ==
  /\ c_wptr = 0 /\ c_rptr = 0
  /\ c_ring = [i \in Slots |-> NoCmd]
  /\ modem = "ok"
  /\ error = FALSE
  /\ pc   = [t \in Callers |-> "idle"]
  /\ slot = [t \in Callers |-> 0]
  /\ cmd  = [t \in Callers |-> NoCmd]
  /\ ret  = [t \in Callers |-> "ok"]

-----------------------------------------------------------------------------
(* xmm7360_poll: a status other than 0x600df00d makes the error sticky.    *)

Poll == error' = (error \/ modem = "crashed")

(* The interrupt handler polls the status before anything else.            *)
IrqPoll ==
  /\ Poll
  /\ UNCHANGED <<c_wptr, c_rptr, c_ring, modem, pc, slot, cmd, ret>>

Return(t, r) ==
  /\ pc'  = [pc EXCEPT ![t] = "idle"]
  /\ ret' = [ret EXCEPT ![t] = r]

(* Broken variant: the ring-full test is missing.                          *)
ExecuteNoFullTest(t, c) ==
  /\ pc[t] = "idle"
  /\ cmd' = [cmd EXCEPT ![t] = c]
  /\ slot' = [slot EXCEPT ![t] = c_wptr]
  /\ \/ error /\ Return(t, "ENODEV")
     \/ ~error /\ pc' = [pc EXCEPT ![t] = "write"] /\ UNCHANGED ret
  /\ UNCHANGED <<c_wptr, c_rptr, c_ring, modem, error>>

(* xmm7360_cmd_ring_execute: read c_wptr, refuse in error or when full.    *)
Execute(t, c) ==
  /\ pc[t] = "idle"
  /\ cmd' = [cmd EXCEPT ![t] = c]
  /\ slot' = [slot EXCEPT ![t] = c_wptr]
  /\ \/ error /\ Return(t, "ENODEV")
     \/ ~error /\ NextSlot(c_wptr) = c_rptr /\ Return(t, "EAGAIN")
     \/ /\ ~error /\ NextSlot(c_wptr) # c_rptr
        /\ pc' = [pc EXCEPT ![t] = "write"]
        /\ UNCHANGED ret
  /\ UNCHANGED <<c_wptr, c_rptr, c_ring, modem, error>>

(* Broken variant: the entry is filled in one slot too far.                *)
WriteEntryNextSlot(t) ==
  /\ pc[t] = "write"
  /\ c_ring' = [c_ring EXCEPT ![NextSlot(slot[t])] = cmd[t]]
  /\ pc' = [pc EXCEPT ![t] = "publish"]
  /\ UNCHANGED <<c_wptr, c_rptr, modem, error, slot, cmd, ret>>

(* ... fill in the entry ...                                               *)
WriteEntry(t) ==
  /\ pc[t] = "write"
  /\ c_ring' = [c_ring EXCEPT ![slot[t]] = cmd[t]]
  /\ pc' = [pc EXCEPT ![t] = "publish"]
  /\ UNCHANGED <<c_wptr, c_rptr, modem, error, slot, cmd, ret>>

(* ... publish it ...                                                      *)
Publish(t) ==
  /\ pc[t] = "publish"
  /\ c_wptr' = NextSlot(slot[t])
  /\ pc' = [pc EXCEPT ![t] = "ding"]
  /\ UNCHANGED <<c_rptr, c_ring, modem, error, slot, cmd, ret>>

(* ... and xmm7360_ding(DOORBELL_CMD), which ends in xmm7360_poll.         *)
Ding(t) ==
  /\ pc[t] = "ding"
  /\ Poll
  /\ pc' = [pc EXCEPT ![t] = "wait"]
  /\ UNCHANGED <<c_wptr, c_rptr, c_ring, modem, slot, cmd, ret>>

(* xmm7360_cmd_ring_wait: the condition is looked at before the clock and  *)
(* before the signals, so a cut needs it to be false.                      *)
WaitCond == c_rptr = c_wptr \/ error

WaitDone(t) ==
  /\ pc[t] = "wait"
  /\ WaitCond
  /\ Return(t, IF error THEN "ENODEV" ELSE "ok")
  /\ UNCHANGED <<c_wptr, c_rptr, c_ring, modem, error, slot, cmd>>

(* Broken variant: the wait has no timeout.                                *)
WaitCutSignalOnly(t) ==
  /\ pc[t] = "wait"
  /\ ~WaitCond
  /\ "signal" \in WaitCuts
  /\ Return(t, "ERESTARTSYS")
  /\ UNCHANGED <<c_wptr, c_rptr, c_ring, modem, error, slot, cmd>>

WaitCut(t) ==
  /\ pc[t] = "wait"
  /\ ~WaitCond
  /\ \/ "timeout" \in WaitCuts /\ Return(t, "ETIMEDOUT")
     \/ "signal" \in WaitCuts /\ Return(t, "ERESTARTSYS")
  /\ UNCHANGED <<c_wptr, c_rptr, c_ring, modem, error, slot, cmd>>

ExecuteStep(t) ==
  WriteEntry(t) \/ Publish(t) \/ Ding(t) \/ WaitDone(t) \/ WaitCut(t)

-----------------------------------------------------------------------------
(* The modem (firmware, external): it consumes published entries in order, *)
(* at its own pace, and may crash.                                         *)

ModemConsume ==
  /\ modem = "ok"
  /\ c_rptr # c_wptr
  /\ c_rptr' = NextSlot(c_rptr)
  /\ UNCHANGED <<c_wptr, c_ring, modem, error, pc, slot, cmd, ret>>

ModemCrash ==
  /\ modem = "ok"
  /\ modem' = "crashed"
  /\ UNCHANGED <<c_wptr, c_rptr, c_ring, error, pc, slot, cmd, ret>>

CmdNext ==
  \/ \E t \in Callers, c \in Cmds : Execute(t, c)
  \/ \E t \in Callers : ExecuteStep(t)
  \/ IrqPoll
  \/ ModemConsume
  \/ ModemCrash

CmdSpec == CmdInit /\ [][CmdNext]_cmdVars

-----------------------------------------------------------------------------
(* Types of the command ring's state.                                      *)
CmdTypeOK ==
  /\ c_wptr \in Slots /\ c_rptr \in Slots
  /\ c_ring \in [Slots -> Cmds \cup {NoCmd}]
  /\ modem \in {"ok", "crashed"}
  /\ error \in BOOLEAN
  /\ pc   \in [Callers -> CallerPc]
  /\ slot \in [Callers -> Slots]
  /\ cmd  \in [Callers -> Cmds \cup {NoCmd}]
  /\ ret  \in [Callers -> Returns]

(* Every entry the modem can fetch is a command some caller executes, and  *)
(* the entry of a caller that has published stays its own command until    *)
(* the modem has consumed it (cmd_ring_execute's write order, and its full *)
(* test against the wrap-around).                                          *)
CommandKept ==
  /\ \A i \in Pending : c_ring[i] \in Cmds
  /\ \A t \in Callers :
       pc[t] \in {"ding", "wait"} /\ slot[t] \in Pending
         => c_ring[slot[t]] = cmd[t]

(* No step rewrites or withdraws a published command: it leaves the        *)
(* pending slots only by the modem consuming it (c_wptr and c_ring belong  *)
(* to the host, c_rptr to the modem).                                      *)
PublishedStays ==
  [][\A i \in Pending :
       \/ i \in Pending' /\ c_ring'[i] = c_ring[i]
       \/ i = c_rptr /\ c_rptr' = NextSlot(i)]_cmdVars

(* Whatever the modem does, a caller of cmd_ring_execute gets an answer:   *)
(* the one-second timeout of cmd_ring_wait covers a modem that never       *)
(* consumes the command or dies without an interrupt.                      *)
CallReturns == \A t \in Callers : pc[t] # "idle" ~> pc[t] = "idle"

=============================================================================
