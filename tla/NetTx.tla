------------------------------- MODULE NetTx -------------------------------
(***************************************************************************)
(* The transmit side of the wwan interface (xmm7360.c): ndo_start_xmit     *)
(* queues packets, which leave together in one mux frame when no further   *)
(* packet fits or when the 100 us timer fires; the interrupt handler's     *)
(* net_poll restarts a stopped queue; ndo_open and ndo_stop.               *)
(*                                                                         *)
(* xn->lock is held within one step here, except in net_xmit between the   *)
(* look at the ring and netif_stop_queue: net_poll takes no lock and may   *)
(* run there.  The stack calls net_xmit from one context at a time.        *)
(* The ring towards the modem is the channel of QueuePair: at most RingCap *)
(* frames, in order.                                                       *)
(***************************************************************************)
EXTENDS MuxFrame, FiniteSets

CONSTANTS
  Lens,        \* packet lengths (at most the MTU)
  RingCap,     \* frames the ring holds (depth - 1)
  MaxPackets,  \* bound: packets handed to net_xmit
  MaxOpens     \* bound: times the interface is brought up

ASSUME NetTxAssumption ==
  /\ RingCap \in Nat /\ RingCap > 0
  /\ MaxPackets \in Nat /\ MaxOpens \in Nat
  /\ Lens \subseteq Nat \ {0} /\ Lens # {}
  /\ \A len \in Lens : ~MustFlush(0, 0, len)   \* a packet alone fits a frame
  /\ ControlFrame(0).ok                        \* and so does net_open's frame

VARIABLES
  queue,                         \* xn->queue
  queued_packets, queued_bytes,
  sequence,                      \* xn->sequence
  stopped,                       \* netif_queue_stopped
  timer,                         \* xn->deadline
  up, opc, opens,                \* interface up; position in net_open; calls of it
  xpc,                           \* position in net_xmit
  ring,                          \* frames published and not yet taken
  modem, error, irq,
  accepted,                      \* packets answered NETDEV_TX_OK
  delivered, lost                \* packets the modem took; packets dropped

qVars   == <<queue, queued_packets, queued_bytes>>
logVars == <<accepted, delivered, lost>>
devVars == <<modem, error, irq>>
upVars  == <<up, opc, opens>>
vars    == <<qVars, sequence, stopped, timer, upVars, xpc, ring, devVars, logVars>>

Packets   == [id : 1 .. MaxPackets, len : Lens]
Ids(q)    == {q[k].id : k \in DOMAIN q}
IdSeq(q)  == [k \in DOMAIN q |-> q[k].id]
LensOf(q) == [k \in DOMAIN q |-> q[k].len]
(* Broken variant: the ring is full one frame too late.                    *)
RingFullLate == Len(ring) > RingCap

(* ~xmm7360_qp_can_write                                                   *)
RingFull == Len(ring) >= RingCap

Init ==
  /\ queue = <<>> /\ queued_packets = 0 /\ queued_bytes = 0
  /\ sequence = 0
  /\ stopped = FALSE
  /\ timer = "idle"
  /\ up = FALSE /\ opc = "idle" /\ opens = 0 /\ xpc = "idle"
  /\ ring = <<>>
  /\ modem = "ok" /\ error = FALSE /\ irq = FALSE
  /\ accepted = 0 /\ delivered = <<>> /\ lost = {}

-----------------------------------------------------------------------------
Push(ids) == ring' = Append(ring, ids) /\ error' = (modem = "crashed")
Count(n, b) == queued_packets' = n /\ queued_bytes' = b

(* Broken variant: the counters are not reset after a frame was shipped.   *)
FlushNoReset(rest, n, b) ==
  /\ queue' = rest
  /\ Count(queued_packets + n, queued_bytes + b)
  /\ sequence' = sequence + 1
  /\ \/ (queue = <<>> \/ error \/ RingFull) /\ UNCHANGED <<ring, error, lost>>
     \/ queue # <<>> /\ ~error /\ ~RingFull /\ Push(IdSeq(queue)) /\ UNCHANGED lost

(* Broken variant: the packets shipped are not taken off the queue.        *)
FlushKeepQueue(rest, n, b) ==
  /\ queue' = queue \o rest
  /\ Count(n, b)
  /\ sequence' = sequence + 1
  /\ \/ (queue = <<>> \/ error \/ RingFull) /\ UNCHANGED <<ring, error, lost>>
     \/ queue # <<>> /\ ~error /\ ~RingFull /\ Push(IdSeq(queue)) /\ UNCHANGED lost

(* xmm7360_net_flush and mux_frame_push: empty the queue into one frame    *)
(* (which fits: FlushFits), leaving in it the packets rest, of n packets   *)
(* and b bytes, that net_xmit adds under the same lock.  qp_write refuses  *)
(* in error - the packets are dropped, the counters stay - and returns 0   *)
(* for a full ring, which frame_push takes for success.  A push ends in    *)
(* the doorbell and a poll.                                                *)
Flush(rest, n, b) ==
  /\ queue' = rest
  /\ sequence' = sequence + IF queue = <<>> THEN 0 ELSE 1
  /\ \/ /\ queue = <<>>
        /\ Count(queued_packets + n, queued_bytes + b)
        /\ UNCHANGED <<ring, error, lost>>
     \/ /\ queue # <<>> /\ error
        /\ Count(queued_packets + n, queued_bytes + b)
        /\ lost' = lost \cup Ids(queue)
        /\ UNCHANGED <<ring, error>>
     \/ /\ queue # <<>> /\ ~error /\ RingFull
        /\ Count(n, b)
        /\ lost' = lost \cup Ids(queue)
        /\ UNCHANGED <<ring, error>>
     \/ /\ queue # <<>> /\ ~error /\ ~RingFull
        /\ Count(n, b)
        /\ Push(IdSeq(queue))
        /\ UNCHANGED lost

(* xmm7360_net_xmit, its locked part: queue the packet if it fits ...      *)
XmitBegin(len) ==
  up /\ ~stopped /\ xpc = "idle" /\ accepted < MaxPackets /\ len \in Lens

XmitQueue(len) ==
  /\ XmitBegin(len)
  /\ ~MustFlush(queued_packets, queued_bytes, len)
  /\ accepted' = accepted + 1
  /\ queue' = Append(queue, [id |-> accepted + 1, len |-> len])
  /\ Count(queued_packets + 1, queued_bytes + Padding + len)
  /\ xpc' = "arm"
  /\ UNCHANGED <<sequence, stopped, timer, upVars, ring, devVars, delivered, lost>>

(* Broken variant: net_xmit flushes without looking at the ring.           *)
XmitFlushUnchecked(len) ==
  /\ XmitBegin(len)
  /\ MustFlush(queued_packets, queued_bytes, len)
  /\ accepted' = accepted + 1
  /\ Flush(<<[id |-> accepted + 1, len |-> len]>>, 1, Padding + len)
  /\ xpc' = "arm"
  /\ UNCHANGED <<stopped, timer, upVars, modem, irq, delivered>>

(* ... after a flush if it does not ...                                    *)
XmitFlush(len) ==
  /\ XmitBegin(len)
  /\ MustFlush(queued_packets, queued_bytes, len)
  /\ ~RingFull
  /\ accepted' = accepted + 1
  /\ Flush(<<[id |-> accepted + 1, len |-> len]>>, 1, Padding + len)
  /\ xpc' = "arm"
  /\ UNCHANGED <<stopped, timer, upVars, modem, irq, delivered>>

(* ... and with a full ring stop the queue: NETDEV_TX_BUSY.                *)
XmitFull(len) ==
  /\ XmitBegin(len)
  /\ MustFlush(queued_packets, queued_bytes, len)
  /\ RingFull
  /\ xpc' = "stop"
  /\ UNCHANGED <<qVars, sequence, stopped, timer, upVars, ring, devVars, logVars>>

XmitStop ==
  /\ xpc = "stop"
  /\ stopped' = TRUE
  /\ xpc' = "idle"
  /\ UNCHANGED <<qVars, sequence, timer, upVars, ring, devVars, logVars>>

(* net_xmit after the unlock: start the timer unless it is active, which   *)
(* it also is while its callback runs.                                     *)
XmitArm ==
  /\ xpc = "arm"
  /\ timer' = IF timer = "idle" THEN "armed" ELSE timer
  /\ xpc' = "idle"
  /\ UNCHANGED <<qVars, sequence, stopped, upVars, ring, devVars, logVars>>

-----------------------------------------------------------------------------
(* The timer fires, xmm7360_net_deadline_cb takes the lock and flushes,    *)
(* returns HRTIMER_NORESTART, and only then is the timer inactive.         *)
TimerFire ==
  /\ timer = "armed"
  /\ timer' = "running"
  /\ UNCHANGED <<qVars, sequence, stopped, upVars, xpc, ring, devVars, logVars>>

DeadlineCb ==
  /\ timer = "running"
  /\ xpc # "stop"
  /\ timer' = "ending"
  /\ Flush(<<>>, 0, 0)
  /\ UNCHANGED <<stopped, upVars, xpc, modem, irq, accepted, delivered>>

TimerEnd ==
  /\ timer = "ending"
  /\ timer' = "idle"
  /\ UNCHANGED <<qVars, sequence, stopped, upVars, xpc, ring, devVars, logVars>>

(* Broken variant: net_poll leaves a stopped queue stopped.                *)
NetPollNoWake ==
  /\ irq
  /\ irq' = FALSE
  /\ error' = (error \/ modem = "crashed")
  /\ UNCHANGED <<qVars, sequence, stopped, timer, upVars, xpc, ring, modem, logVars>>

(* irq0, xmm7360_net_poll: restart a stopped queue if the ring has room.   *)
NetPoll ==
  /\ irq
  /\ irq' = FALSE
  /\ error' = (error \/ modem = "crashed")
  /\ stopped' = (stopped /\ RingFull)
  /\ UNCHANGED <<qVars, sequence, timer, upVars, xpc, ring, modem, logVars>>

-----------------------------------------------------------------------------
(* xmm7360_net_open: reset the counters (without the lock), ...            *)
NetOpen ==
  /\ ~up /\ opc = "idle" /\ opens < MaxOpens
  /\ opens' = opens + 1
  /\ Count(0, 0)
  /\ opc' = "purge"
  /\ UNCHANGED <<queue, sequence, stopped, timer, up, xpc, ring, devVars, logVars>>

(* ... empty the queue and start it, ...                                   *)
NetOpenPurge ==
  /\ opc = "purge"
  /\ opc' = "control"
  /\ queue' = <<>>
  /\ lost' = lost \cup Ids(queue)
  /\ stopped' = FALSE
  /\ UNCHANGED <<queued_packets, queued_bytes, sequence, timer, up, opens, xpc, ring,
                 devVars, accepted, delivered>>

(* ... and push the control frame; the interface is up if that succeeds    *)
(* (for a full ring, too).                                                 *)
NetOpenControl ==
  /\ opc = "control"
  /\ opc' = "idle"
  /\ \/ error /\ UNCHANGED <<up, ring, error>>
     \/ ~error /\ RingFull /\ up' = TRUE /\ UNCHANGED <<ring, error>>
     \/ ~error /\ ~RingFull /\ up' = TRUE /\ Push(<<>>)
  /\ UNCHANGED <<qVars, sequence, stopped, timer, opens, xpc, modem, irq, logVars>>

(* xmm7360_net_close                                                       *)
NetClose ==
  /\ up /\ xpc = "idle"
  /\ up' = FALSE
  /\ stopped' = TRUE
  /\ UNCHANGED <<qVars, sequence, timer, opc, opens, xpc, ring, devVars, logVars>>

(* The modem (external) takes a frame, raising an interrupt, or crashes.   *)
ModemTake ==
  /\ modem = "ok" /\ ring # <<>>
  /\ delivered' = delivered \o Head(ring)
  /\ ring' = Tail(ring)
  /\ irq' = TRUE
  /\ UNCHANGED <<qVars, sequence, stopped, timer, upVars, xpc, modem, error, accepted, lost>>

ModemCrash ==
  /\ modem = "ok"
  /\ modem' = "crashed"
  /\ UNCHANGED <<qVars, sequence, stopped, timer, upVars, xpc, ring, error, irq, logVars>>

XmitStep  == XmitStop \/ XmitArm
TimerStep == TimerFire \/ DeadlineCb \/ TimerEnd

Next ==
  \/ \E len \in Lens : XmitQueue(len) \/ XmitFlush(len) \/ XmitFull(len)
  \/ XmitStep \/ TimerStep
  \/ NetPoll
  \/ NetOpen \/ NetOpenPurge \/ NetOpenControl \/ NetClose
  \/ ModemTake \/ ModemCrash

Spec == Init /\ [][Next]_vars

(* The kernel finishes a call it has begun, timers expire, interrupts are  *)
(* handled; a modem that stays up takes what is in its ring.               *)
FairSpec ==
  /\ Spec
  /\ WF_vars(XmitStep) /\ WF_vars(TimerStep) /\ WF_vars(NetPoll) /\ WF_vars(ModemTake)

-----------------------------------------------------------------------------
(* Types of the transmit path's state.                                     *)
TypeOK ==
  /\ queue \in Seq(Packets)
  /\ queued_packets \in Nat /\ queued_bytes \in Nat /\ sequence \in Nat
  /\ stopped \in BOOLEAN /\ up \in BOOLEAN /\ opens \in 0 .. MaxOpens
  /\ timer \in {"idle", "armed", "running", "ending"}
  /\ opc \in {"idle", "purge", "control"} /\ xpc \in {"idle", "arm", "stop"}
  /\ ring \in Seq(Seq(1 .. MaxPackets)) /\ Len(ring) <= RingCap
  /\ modem \in {"ok", "crashed"} /\ error \in BOOLEAN /\ irq \in BOOLEAN
  /\ accepted \in 0 .. MaxPackets /\ delivered \in Seq(1 .. MaxPackets)
  /\ lost \subseteq 1 .. MaxPackets

Bytes(q) == Padded(LensOf(q))[Len(q)]

(* net_xmit's estimate agrees with the queue it estimates, across flushes, *)
(* full rings and re-opens, until an error makes it useless.               *)
CountersMatch ==
  ~error /\ opc = "idle" =>
    /\ queued_packets = Len(queue)
    /\ queued_bytes = Bytes(queue)

(* What net_must_flush has admitted fits one frame, with the up to three   *)
(* bytes of alignment in front of ADTH that it does not count: enough,     *)
(* because the page size is a multiple of four.                            *)
EstimateFits ==
  ~error => /\ FrameBytes(queued_packets, queued_bytes) <= MaxSize
            /\ queued_packets <= MUX_MAX_PACKETS

(* The frame built from the queue is complete and well formed, also when   *)
(* the counters are stale after an error: net_flush's "Failed to ship"     *)
(* path is left to errors of the device.                                   *)
FlushFits ==
  queue # <<>> => LET f == DataFrame(sequence + 1, LensOf(queue))
                  IN f.ok /\ WellFormed(f, LensOf(queue))

Increasing(s)  == \A j, k \in DOMAIN s : j < k => s[j] < s[k]
Precedes(s, t) == \A j \in DOMAIN s, k \in DOMAIN t : s[j] < t[k]

(* The modem sees packets in the order the stack handed them over, none    *)
(* twice: a flush by the timer never overtakes or repeats one by net_xmit. *)
InOrder ==
  LET frames == <<delivered>> \o ring \o <<IdSeq(queue)>>
  IN \A a, b \in DOMAIN frames :
       /\ Increasing(frames[a])
       /\ a < b => Precedes(frames[a], frames[b])

(* A packet the stack was told is sent (NETDEV_TX_OK) is lost only by the  *)
(* timer meeting a full ring, by the device's death or by re-opening the   *)
(* interface: net_xmit's own flush looked at the ring first.               *)
LossOnlyAtDeadline ==
  [][lost' # lost => error \/ (timer = "running" /\ RingFull) \/ opc = "purge"]_vars

(* A queue stopped while the timer is pending is started again as long as  *)
(* modem and interface are up: a modem that empties the ring between       *)
(* net_xmit's look at it and netif_stop_queue makes net_poll come too      *)
(* early, but the frame the timer flushes brings another interrupt.        *)
StoppedWakes ==
  stopped /\ up /\ timer \in {"armed", "running"}
    ~> (~stopped \/ ~up \/ modem = "crashed")

(* The packets in these frames, and all that are still in the driver.      *)
FrameIds(frames) == UNION {{frames[r][k] : k \in DOMAIN frames[r]} : r \in DOMAIN frames}
InFlight         == Ids(queue) \cup FrameIds(ring)

Uplink == INSTANCE TailDropChannel
  WITH Batch <- MUX_MAX_PACKETS, sent <- accepted, pending <- InFlight, got <- delivered

(* The transmit path is a first-in first-out channel that drops from its   *)
(* tail: whoever flushes, a packet the stack handed over goes on its way   *)
(* behind all others and comes out in its place or is lost, and what is    *)
(* lost at one time is the newest of what was on its way.                  *)
UplinkChannel == Uplink!Spec

(* No packet answered NETDEV_TX_OK is forgotten or duplicated: each is     *)
(* queued or in the ring, or delivered, or lost for good.                  *)
PacketsAccounted == Uplink!OnePlace

=============================================================================
