----------------------------- MODULE QpControl -----------------------------
(***************************************************************************)
(* Opening and closing queue pairs (xmm7360_qp_start, xmm7360_qp_stop,     *)
(* xmm7360_td_ring_create, xmm7360_td_ring_destroy) on top of the command  *)
(* ring, next to the interrupt handler's tty polling and to the modem that *)
(* owns a ring's memory from CMD_RING_OPEN to CMD_RING_CLOSE.              *)
(*                                                                         *)
(* Queue pair q uses ring 2q towards the modem and ring 2q+1 from it.  A   *)
(* thread is in qp_start or qp_stop of one queue pair, holding its mutex;  *)
(* stage[t] says where, and pc[t] (CmdRing) where it is in a command.  The *)
(* callers are the open and release of a file (rpc, trace), the activation *)
(* and shutdown of a tty port, and create_net and destroy_net.             *)
(***************************************************************************)
EXTENDS CmdRing, FiniteSets

CONSTANTS
  QPs,       \* queue pair numbers
  TtyQps,    \* those behind a tty: the interrupt handler reads their ring
  NetQps,    \* that of the network interface, 0 in the driver
  TD_DEPTH,  \* descriptors per ring, a power of two
  NoOne      \* holder of a free mutex

TxRing(q) == 2 * q
RxRing(q) == 2 * q + 1
Rings     == {TxRing(q) : q \in QPs} \cup {RxRing(q) : q \in QPs}
RingCmds  == [op : {"OPEN", "CLOSE"}, ring : Rings]

ASSUME QpControlAssumption ==
  /\ QPs \subseteq Nat /\ TtyQps \subseteq QPs /\ NetQps \subseteq QPs
  /\ TD_DEPTH \in Nat /\ TD_DEPTH > 1
  /\ NoOne \notin Callers
  /\ Cmds = RingCmds

VARIABLES
  qp_open,       \* qp->open
  lock,          \* holder of qp->lock
  held,          \* a file, tty port or network interface of the pair is open
  created,       \* the network pairs create_net has got to
  stage, job,    \* each thread's position, and the queue pair and ring it is at
  depth,         \* ring->depth
  mem,           \* the ring's descriptors and pages are allocated
  s_wptr, s_rptr,  \* ring pointers in the control page
  last_handled,  \* ring->last_handled
  modem_ring,    \* the modem has the ring open and may DMA to its pages
  irq            \* an interrupt is pending

ringVars == <<depth, mem, s_wptr, s_rptr, last_handled>>
qpVars   == <<qp_open, lock, held, created, stage, job, modem_ring, irq, ringVars>>
ctlVars  == <<cmdVars, qpVars>>

Stages == {"out", "create", "alloc", "opening", "fill", "destroy", "closing"}
Index  == 0 .. TD_DEPTH - 1
Jobs   == [op : {"start", "undo", "stop", "giveup"}, qp : QPs, ring : Rings]
NoJob  == [op |-> "none"]

NextTd(i) == (i + 1) % TD_DEPTH

HasData(q) == s_rptr[RxRing(q)] # last_handled[RxRing(q)]

CtlInit ==
  /\ CmdInit
  /\ qp_open = [q \in QPs |-> FALSE]
  /\ lock = [q \in QPs |-> NoOne]
  /\ held = [q \in QPs |-> FALSE]
  /\ created = {}
  /\ stage = [t \in Callers |-> "out"]
  /\ job = [t \in Callers |-> NoJob]
  /\ depth = [r \in Rings |-> 0]
  /\ mem = [r \in Rings |-> FALSE]
  /\ s_wptr = [r \in Rings |-> 0]
  /\ s_rptr = [r \in Rings |-> 0]
  /\ last_handled = [r \in Rings |-> 0]
  /\ modem_ring = [r \in Rings |-> FALSE]
  /\ irq = FALSE

-----------------------------------------------------------------------------
(* The thread's next position in qp_start or qp_stop.                      *)

GoTo(t, s, op, q, r) ==
  /\ stage' = [stage EXCEPT ![t] = s]
  /\ job' = [job EXCEPT ![t] = [op |-> op, qp |-> q, ring |-> r]]

Leave(t) ==
  /\ stage' = [stage EXCEPT ![t] = "out"]
  /\ lock' = [lock EXCEPT ![job[t].qp] = NoOne]
  /\ job' = [job EXCEPT ![t] = NoJob]

(* xmm7360_qp_start: -EBUSY leaves no trace; otherwise the queue pair is   *)
(* marked open before any of its rings exists.  create_net runs once, at   *)
(* the end of dev_init: the other pairs may be in use by then.             *)
QpStart(t, q) ==
  /\ stage[t] = "out"
  /\ lock[q] = NoOne
  /\ ~qp_open[q]
  /\ q \notin created
  /\ created' = created \cup ({q} \cap NetQps)
  /\ qp_open' = [qp_open EXCEPT ![q] = TRUE]
  /\ lock' = [lock EXCEPT ![q] = t]
  /\ GoTo(t, "create", "start", q, TxRing(q))
  /\ UNCHANGED <<cmdVars, held, modem_ring, irq, ringVars>>

(* xmm7360_td_ring_create: clear the ring structure ...                    *)
TdRingClear(t) ==
  LET r == job[t].ring IN
  /\ stage[t] = "create"
  /\ depth' = [depth EXCEPT ![r] = TD_DEPTH]
  /\ last_handled' = [last_handled EXCEPT ![r] = 0]
  /\ mem' = [mem EXCEPT ![r] = FALSE]
  /\ stage' = [stage EXCEPT ![t] = "alloc"]
  /\ UNCHANGED <<cmdVars, qp_open, lock, held, created, job, s_wptr, s_rptr, modem_ring, irq>>

(* ... allocate it, reset its pointers, start CMD_RING_OPEN ...            *)
TdRingAlloc(t) ==
  LET r == job[t].ring IN
  /\ stage[t] = "alloc"
  /\ mem' = [mem EXCEPT ![r] = TRUE]
  /\ s_rptr' = [s_rptr EXCEPT ![r] = 0]
  /\ s_wptr' = [s_wptr EXCEPT ![r] = 0]
  /\ Execute(t, [op |-> "OPEN", ring |-> r])
  /\ stage' = [stage EXCEPT ![t] = "opening"]
  /\ UNCHANGED <<qp_open, lock, held, created, job, depth, last_handled, modem_ring, irq>>

(* Broken variant: qp_start does not look at td_ring_create's result.      *)
OpenedUnchecked(t) ==
  LET q == job[t].qp  r == job[t].ring IN
  /\ stage[t] = "opening"
  /\ pc[t] = "idle"
  /\ GoTo(t, IF r = TxRing(q) THEN "create" ELSE "fill", "start", q, RxRing(q))
  /\ UNCHANGED <<cmdVars, qp_open, lock, held, created, modem_ring, irq, ringVars>>

(* Broken variant: a failed qp_start marks the queue pair closed again but *)
(* leaves the ring structures as they are.                                 *)
OpenedReset(t) ==
  LET q == job[t].qp  r == job[t].ring IN
  /\ stage[t] = "opening"
  /\ pc[t] = "idle"
  /\ IF ret[t] = "ok"
       THEN /\ GoTo(t, IF r = TxRing(q) THEN "create" ELSE "fill",
                       "start", q, RxRing(q))
            /\ UNCHANGED <<lock, qp_open>>
       ELSE Leave(t) /\ qp_open' = [qp_open EXCEPT ![q] = FALSE]
  /\ UNCHANGED <<cmdVars, held, created, modem_ring, irq, ringVars>>

(* ... and return to qp_start with the command's result: on to the second  *)
(* ring, on to arming it, or out with an error.  A failure leaves qp->open *)
(* set, and after a failure of the second ring only the first is destroyed.*)
Opened(t) ==
  LET q == job[t].qp  r == job[t].ring IN
  /\ stage[t] = "opening"
  /\ pc[t] = "idle"
  /\ \/ /\ ret[t] = "ok" /\ r = TxRing(q)
        /\ GoTo(t, "create", "start", q, RxRing(q))
        /\ UNCHANGED lock
     \/ /\ ret[t] = "ok" /\ r = RxRing(q)
        /\ GoTo(t, "fill", "start", q, r)
        /\ UNCHANGED lock
     \/ /\ ret[t] # "ok" /\ r = TxRing(q)
        /\ Leave(t)
     \/ /\ ret[t] # "ok" /\ r = RxRing(q)
        /\ GoTo(t, "destroy", "undo", q, TxRing(q))
        /\ UNCHANGED lock
  /\ UNCHANGED <<cmdVars, qp_open, held, created, modem_ring, irq, ringVars>>

(* qp_start's last lines: hand descriptors to the modem until the ring is  *)
(* full, ring the bell (which polls the status), unlock, succeed.          *)
FillRx(t) ==
  LET q == job[t].qp  r == job[t].ring IN
  /\ stage[t] = "fill"
  /\ s_wptr' = [s_wptr EXCEPT ![r] = CHOOSE i \in Index : NextTd(i) = s_rptr[r]]
  /\ Poll
  /\ held' = [held EXCEPT ![q] = TRUE]
  /\ Leave(t)
  /\ UNCHANGED <<c_wptr, c_rptr, c_ring, modem, pc, slot, cmd, ret,
                 qp_open, created, depth, mem, s_rptr, last_handled, modem_ring, irq>>

(* xmm7360_qp_stop, called by the release of an open file, the shutdown of *)
(* a tty port, and destroy_net.                                            *)
QpStop(t, q) ==
  /\ stage[t] = "out"
  /\ held[q]
  /\ lock[q] = NoOne
  /\ held' = [held EXCEPT ![q] = FALSE]
  /\ qp_open' = [qp_open EXCEPT ![q] = FALSE]
  /\ lock' = [lock EXCEPT ![q] = t]
  /\ GoTo(t, "destroy", "stop", q, TxRing(q))
  /\ UNCHANGED <<cmdVars, created, modem_ring, irq, ringVars>>

(* xmm7360_create_net after a failed qp_start: it calls qp_stop all the    *)
(* same, which finds qp->open set and one of the two rings missing.  (It   *)
(* reads xn->qp after free_netdev; the model takes the read to find what   *)
(* was there.)                                                             *)
CreateNetFails(t, q) ==
  /\ q \in NetQps
  /\ stage[t] = "out"
  /\ qp_open[q] /\ ~held[q]
  /\ lock[q] = NoOne
  /\ qp_open' = [qp_open EXCEPT ![q] = FALSE]
  /\ lock' = [lock EXCEPT ![q] = t]
  /\ GoTo(t, "destroy", "giveup", q, TxRing(q))
  /\ UNCHANGED <<cmdVars, held, created, modem_ring, irq, ringVars>>

(* qp_stop goes on from its first ring to the second, qp_start's error     *)
(* path destroys the first only.                                           *)
Destroyed(t) ==
  LET q == job[t].qp IN
  IF job[t].op # "undo" /\ job[t].ring = TxRing(q)
    THEN GoTo(t, "destroy", job[t].op, q, RxRing(q)) /\ UNCHANGED lock
    ELSE Leave(t)

(* xmm7360_td_ring_destroy of a ring that does not exist: "Tried           *)
(* destroying empty ring!", and back to the caller.                        *)
TdRingEmpty(t) ==
  /\ stage[t] = "destroy"
  /\ depth[job[t].ring] = 0
  /\ Destroyed(t)
  /\ UNCHANGED <<cmdVars, qp_open, held, created, modem_ring, irq, ringVars>>

(* Broken variant: the ring is freed before CMD_RING_CLOSE is sent.        *)
TdRingCloseEarlyFree(t) ==
  /\ stage[t] = "destroy"
  /\ depth[job[t].ring] # 0
  /\ mem' = [mem EXCEPT ![job[t].ring] = FALSE]
  /\ Execute(t, [op |-> "CLOSE", ring |-> job[t].ring])
  /\ stage' = [stage EXCEPT ![t] = "closing"]
  /\ UNCHANGED <<qp_open, lock, held, created, job, modem_ring, irq,
                 depth, s_wptr, s_rptr, last_handled>>

(* xmm7360_td_ring_destroy: start CMD_RING_CLOSE, and when it has returned *)
(* - whatever it returned - free the ring.                                 *)
TdRingClose(t) ==
  /\ stage[t] = "destroy"
  /\ depth[job[t].ring] # 0
  /\ Execute(t, [op |-> "CLOSE", ring |-> job[t].ring])
  /\ stage' = [stage EXCEPT ![t] = "closing"]
  /\ UNCHANGED <<qp_open, lock, held, created, job, modem_ring, irq, ringVars>>

(* Broken variant: qp_stop destroys the first ring only.                   *)
TdRingFreeFirstOnly(t) ==
  LET r == job[t].ring IN
  /\ stage[t] = "closing"
  /\ pc[t] = "idle"
  /\ mem' = [mem EXCEPT ![r] = FALSE]
  /\ depth' = [depth EXCEPT ![r] = 0]
  /\ Leave(t)
  /\ UNCHANGED <<cmdVars, qp_open, held, created, s_wptr, s_rptr, last_handled,
                 modem_ring, irq>>

TdRingFree(t) ==
  LET r == job[t].ring IN
  /\ stage[t] = "closing"
  /\ pc[t] = "idle"
  /\ mem' = [mem EXCEPT ![r] = FALSE]
  /\ depth' = [depth EXCEPT ![r] = 0]
  /\ Destroyed(t)
  /\ UNCHANGED <<cmdVars, qp_open, held, created, s_wptr, s_rptr, last_handled,
                 modem_ring, irq>>

(* The command steps of a thread inside create or destroy.                 *)
CommandStep(t) ==
  /\ stage[t] \in {"opening", "closing"}
  /\ ExecuteStep(t)
  /\ UNCHANGED qpVars

-----------------------------------------------------------------------------
(* xmm7360_irq0: poll the status, then read every open tty's ring until it *)
(* has no data (xmm7360_tty_poll_qp).  Re-arming a descriptor of a ring    *)
(* with depth 0 is refused with a warning.                                 *)
IrqHandler ==
  /\ irq
  /\ irq' = FALSE
  /\ Poll
  /\ LET polled == {RxRing(q) : q \in {q \in TtyQps : qp_open[q] /\ HasData(q)}}
         read(r) == Cardinality({i \in Index : (i - last_handled[r]) % TD_DEPTH
                                             < (s_rptr[r] - last_handled[r]) % TD_DEPTH})
     IN /\ last_handled' = [r \in Rings |-> IF r \in polled THEN s_rptr[r]
                                                             ELSE last_handled[r]]
        /\ s_wptr' = [r \in Rings |-> IF r \in polled /\ depth[r] # 0
                                        THEN (s_wptr[r] + read(r)) % TD_DEPTH
                                        ELSE s_wptr[r]]
  /\ UNCHANGED <<c_wptr, c_rptr, c_ring, modem, pc, slot, cmd, ret,
                 qp_open, lock, held, created, stage, job, depth, mem, s_rptr, modem_ring>>

(* The modem (external): executes the next command, fills a descriptor of  *)
(* a ring it has open, or crashes.  The first two raise an interrupt.      *)
ModemExecute ==
  /\ ModemConsume
  /\ LET c == c_ring[c_rptr]
     IN modem_ring' = IF c = NoCmd THEN modem_ring
                      ELSE [modem_ring EXCEPT ![c.ring] = (c.op = "OPEN")]
  /\ irq' = TRUE
  /\ UNCHANGED <<qp_open, lock, held, created, stage, job, ringVars>>

ModemFill(q) ==
  LET r == RxRing(q) IN
  /\ modem = "ok" /\ modem_ring[r] /\ s_rptr[r] # s_wptr[r]
  /\ s_rptr' = [s_rptr EXCEPT ![r] = NextTd(s_rptr[r])]
  /\ irq' = TRUE
  /\ UNCHANGED <<cmdVars, qp_open, lock, held, created, stage, job, depth, mem,
                 s_wptr, last_handled, modem_ring>>

ModemDies == ModemCrash /\ UNCHANGED qpVars

ThreadStep(t) ==
  \/ TdRingClear(t) \/ TdRingAlloc(t) \/ Opened(t) \/ FillRx(t)
  \/ TdRingEmpty(t) \/ TdRingClose(t) \/ TdRingFree(t) \/ CommandStep(t)

CtlNext ==
  \/ \E t \in Callers, q \in QPs : QpStart(t, q) \/ QpStop(t, q) \/ CreateNetFails(t, q)
  \/ \E t \in Callers : ThreadStep(t)
  \/ IrqHandler
  \/ ModemExecute
  \/ \E q \in QPs : ModemFill(q)
  \/ ModemDies

CtlSpec == CtlInit /\ [][CtlNext]_ctlVars

(* Threads keep running and the one-second timer of a wait expires; nobody *)
(* owes a thread a signal, and the modem owes nothing.                     *)
Signalled(t) == pc[t] = "wait" /\ pc'[t] = "idle" /\ ret'[t] = "ERESTARTSYS"

CtlFairSpec ==
  /\ CtlSpec
  /\ \A t \in Callers : WF_ctlVars(ThreadStep(t) /\ ~Signalled(t))

-----------------------------------------------------------------------------
(* Types of the queue pairs' control state.                                *)
CtlTypeOK ==
  /\ CmdTypeOK
  /\ qp_open \in [QPs -> BOOLEAN] /\ held \in [QPs -> BOOLEAN]
  /\ created \subseteq NetQps
  /\ lock \in [QPs -> Callers \cup {NoOne}]
  /\ stage \in [Callers -> Stages] /\ job \in [Callers -> Jobs \cup {NoJob}]
  /\ depth \in [Rings -> {0, TD_DEPTH}] /\ mem \in [Rings -> BOOLEAN]
  /\ s_wptr \in [Rings -> Index] /\ s_rptr \in [Rings -> Index]
  /\ last_handled \in [Rings -> Index]
  /\ modem_ring \in [Rings -> BOOLEAN] /\ irq \in BOOLEAN

(* When qp_start has returned success, the modem has opened both rings: no *)
(* CMD_RING_OPEN of it was lost.                                           *)
OpenMeansOpen ==
  \A q \in QPs : held[q] /\ modem = "ok" => modem_ring[TxRing(q)] /\ modem_ring[RxRing(q)]

(* A queue pair nobody opens or closes, and that is not marked open, has   *)
(* no ring left: qp_start can create its rings again without running into  *)
(* BUG_ON(ring->depth), after any history of failed opens and closes.      *)
ClosedIsFree ==
  \A q \in QPs : ~qp_open[q] /\ lock[q] = NoOne =>
    \A r \in {TxRing(q), RxRing(q)} : depth[r] = 0 /\ ~mem[r]

(* BUG_ON(ring->depth) of td_ring_create is unreachable, after any history *)
(* of opens that failed half way, timeouts and signals.  td_ring_destroy's *)
(* "empty ring" warning is reached by create_net's qp_stop only, and there *)
(* for exactly one of the two rings: after a failed qp_start just one of   *)
(* them is left, the first (the first open failed) or the second.          *)
RingAssertions ==
  \A t \in Callers : LET q == job[t].qp  r == job[t].ring IN
    /\ stage[t] = "create" => depth[r] = 0
    /\ stage[t] = "destroy" /\ job[t].op # "giveup" => depth[r] # 0
    /\ stage[t] = "destroy" /\ job[t].op = "giveup" /\ r = TxRing(q) =>
         (depth[r] # 0 <=> depth[RxRing(q)] = 0)

(* The modem has a ring open whose pages are freed at most until it gets   *)
(* to a CMD_RING_CLOSE that is already in the command ring: td_ring_destroy*)
(* never frees a ring without having asked for its closing, even when      *)
(* earlier commands timed out.                                             *)
CloseBeforeFree ==
  \A r \in Rings : modem = "ok" /\ modem_ring[r] /\ ~mem[r] =>
    \E i \in Pending : c_ring[i] = [op |-> "CLOSE", ring |-> r]

(* qp_start and qp_stop end and release the mutex, whatever the modem does:*)
(* no caller of open() or close() sleeps forever.                          *)
MutexReleased == \A q \in QPs : lock[q] # NoOne ~> lock[q] = NoOne

(* Whenever the interrupt handler is about to poll a tty's ring, the ring  *)
(* exists (td_ring_read warns "read on disabled ring" otherwise).          *)
PollSafe ==
  \A q \in TtyQps : irq /\ qp_open[q] /\ HasData(q) => mem[RxRing(q)]

=============================================================================
