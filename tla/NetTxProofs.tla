---------------------------- MODULE NetTxProofs ----------------------------
(***************************************************************************)
(* Proofs about NetTx, for every page size that is a multiple of four,     *)
(* every limit of packets, every set of packet lengths and every ring.     *)
(***************************************************************************)
EXTENDS MCNetTx, MuxFrameProofs

(* The inductive strengthening of EstimateFits: an empty queue has zero    *)
(* counters (so that a flush of it need not reset them), and net_xmit does *)
(* not run while net_open has reset the counters but not yet the queue.    *)
CountInv ==
  /\ queued_packets \in Nat /\ queued_bytes \in Nat
  /\ EstimateFits
  /\ ~error /\ queue = <<>> => queued_packets = 0 /\ queued_bytes = 0
  /\ opc # "idle" => ~up
  /\ ~error /\ opc = "purge" => queued_packets = 0 /\ queued_bytes = 0

(* A packet that net_must_flush admits leaves the aligned frame within the *)
(* page: the unaligned size is at most a multiple of four.                 *)
LEMMA AdmittedFits ==
  ASSUME NEW n \in Nat, NEW b \in Nat, NEW len \in Nat,
         ~MustFlush(n, b, len)
  PROVE  /\ FrameBytes(n + 1, b + Padding + len) <= MaxSize
         /\ n + 1 <= MUX_MAX_PACKETS
<1>1. PICK q \in Nat : MaxSize = 4 * q
  BY MuxFrameAssumption
<1>2. FirstHeader + b + Padding + len + NextHeader + 4 + BoundsSize * (n + 1) <= 4 * q
  BY <1>1 DEF MustFlush, FirstHeader, NextHeader, BoundsSize, Padding
<1>3. \A k \in Nat : Aligned(k) <= k + 3 /\ Aligned(k) % 4 = 0
  BY AlignedIs
<1> QED
  BY <1>1, <1>2, <1>3, MuxFrameAssumption
     DEF FrameBytes, Aligned, MustFlush, FirstHeader, NextHeader, BoundsSize, Padding

(* A frame without packets fits, because some packet does.                 *)
LEMMA EmptyFits == FrameBytes(0, 0) <= MaxSize /\ 0 <= MUX_MAX_PACKETS
<1>1. PICK len \in Lens : len \in Nat /\ ~MustFlush(0, 0, len)
  BY NetTxAssumption
<1> QED
  BY <1>1, MuxFrameAssumption
     DEF FrameBytes, Aligned, MustFlush, FirstHeader, NextHeader, BoundsSize, Padding

(* One packet alone fits.                                                  *)
LEMMA OneFits ==
  ASSUME NEW len \in Lens
  PROVE  /\ ~MustFlush(0, 0, len)
         /\ len \in Nat
         /\ FrameBytes(1, Padding + len) <= MaxSize /\ 1 <= MUX_MAX_PACKETS
<1>1. len \in Nat /\ ~MustFlush(0, 0, len)
  BY NetTxAssumption
<1>2. FrameBytes(0 + 1, 0 + Padding + len) <= MaxSize /\ 0 + 1 <= MUX_MAX_PACKETS
  BY <1>1, AdmittedFits
<1> QED
  BY <1>1, <1>2 DEF Padding

(* A fresh interface: nothing queued, nothing counted.                     *)
LEMMA CountInit == Init => CountInv
  BY EmptyFits DEF Init, CountInv, EstimateFits

(* Every step keeps the counters an upper bound that fits.                 *)
LEMMA CountStep == CountInv /\ [Next]_vars => CountInv'
<1> SUFFICES ASSUME CountInv, [Next]_vars PROVE CountInv'
  OBVIOUS
<1> USE DEF CountInv, EstimateFits
<1>1. ASSUME NEW len \in Lens, XmitQueue(len) PROVE CountInv'
  <2>1. len \in Nat /\ Padding + len \in Nat
    BY OneFits DEF Padding
  <2>2. /\ queued_packets' = queued_packets + 1
        /\ queued_bytes' = queued_bytes + Padding + len
        /\ queue' # <<>> /\ error' = error /\ up' = up /\ up /\ opc' = opc
    BY <1>1 DEF XmitQueue, XmitBegin, Count, upVars, devVars
  <2>3. /\ FrameBytes(queued_packets', queued_bytes') <= MaxSize
        /\ queued_packets' <= MUX_MAX_PACKETS
    BY <1>1, <2>1, <2>2, AdmittedFits DEF XmitQueue
  <2> QED
    BY <2>1, <2>2, <2>3 DEF Padding
<1>2. ASSUME NEW len \in Lens, XmitFlush(len) PROVE CountInv'
  <2>1. len \in Nat /\ Padding + len \in Nat
    BY OneFits DEF Padding
  <2>2. queue' # <<>> /\ up' = up /\ up /\ opc' = opc
    BY <1>2 DEF XmitFlush, XmitBegin, Flush, upVars
  <2>3. queue = <<>> => error
    BY <1>2, OneFits DEF XmitFlush
  <2>4. \/ /\ error' = error /\ error
           /\ queued_packets' = queued_packets + 1
           /\ queued_bytes' = queued_bytes + (Padding + len)
        \/ queued_packets' = 1 /\ queued_bytes' = Padding + len
    BY <1>2, <2>3 DEF XmitFlush, Flush, Count
  <2> QED
    BY <2>1, <2>2, <2>4, OneFits
<1>3. ASSUME DeadlineCb PROVE CountInv'
  <2>1. opc' = opc /\ up' = up /\ queue' = <<>>
    BY <1>3 DEF DeadlineCb, Flush, upVars
  <2>2. \/ /\ queue = <<>> \/ error
           /\ error' = error
           /\ queued_packets' = queued_packets + 0
           /\ queued_bytes' = queued_bytes + 0
        \/ queued_packets' = 0 /\ queued_bytes' = 0
    BY <1>3 DEF DeadlineCb, Flush, Count
  <2> QED
    BY <2>1, <2>2, EmptyFits
<1>4. ASSUME NetOpen PROVE CountInv'
  BY <1>4, EmptyFits DEF NetOpen, Count, devVars
<1>5. ASSUME NetOpenPurge PROVE CountInv'
  BY <1>5 DEF NetOpenPurge, devVars
<1>6. ASSUME NetOpenControl PROVE CountInv'
  <2>1. error => error'
    BY <1>6 DEF NetOpenControl
  <2> QED
    BY <1>6, <2>1 DEF NetOpenControl, qVars
<1>7. ASSUME NetPoll PROVE CountInv'
  <2>1. error => error'
    BY <1>7 DEF NetPoll
  <2> QED
    BY <1>7, <2>1 DEF NetPoll, qVars, upVars
<1>8. ASSUME NetClose PROVE CountInv'
  BY <1>8 DEF NetClose, qVars, devVars
<1>9. ASSUME \/ \E len \in Lens : XmitFull(len)
             \/ XmitStep \/ TimerFire \/ TimerEnd \/ ModemTake \/ ModemCrash
             \/ UNCHANGED vars
      PROVE CountInv'
  <2>1. UNCHANGED <<queue, queued_packets, queued_bytes, opc, up, error>>
    BY <1>9 DEF XmitFull, XmitStep, XmitStop, XmitArm, TimerFire, TimerEnd,
       ModemTake, ModemCrash, vars, qVars, upVars, devVars
  <2> QED
    BY <2>1
<1> QED
  BY <1>1, <1>2, <1>3, <1>4, <1>5, <1>6, <1>7, <1>8, <1>9 DEF Next, TimerStep

(* The driver never has to drop packets because a frame came out too big:  *)
(* what net_must_flush admits always fits the page, alignment included.    *)
THEOREM FramesFit == Spec => []EstimateFits
<1>1. CountInv => EstimateFits
  BY DEF CountInv
<1> QED
  BY CountInit, CountStep, <1>1, PTL DEF Spec

(* A packet is lost only by the timer's flush on a full ring, in error, or *)
(* when net_open empties the queue.                                        *)
THEOREM LossIsAtDeadline == Spec => LossOnlyAtDeadline
<1> DEFINE A == lost' # lost => error \/ (timer = "running" /\ RingFull) \/ opc = "purge"
<1>1. ASSUME [Next]_vars PROVE [A]_vars
  <2>1. ASSUME NEW len \in Lens, XmitQueue(len) PROVE A
    BY <2>1 DEF XmitQueue
  <2>2. ASSUME NEW len \in Lens, XmitFlush(len) PROVE A
    BY <2>2 DEF XmitFlush, Flush
  <2>3. ASSUME DeadlineCb PROVE A
    BY <2>3 DEF DeadlineCb, Flush
  <2>4. ASSUME NetOpenPurge PROVE A
    BY <2>4 DEF NetOpenPurge
  <2>5. ASSUME \/ \E len \in Lens : XmitFull(len)
               \/ XmitStep \/ TimerFire \/ TimerEnd \/ NetPoll \/ NetOpen
               \/ NetOpenControl \/ NetClose \/ ModemTake \/ ModemCrash
               \/ UNCHANGED vars
        PROVE A
    BY <2>5 DEF XmitFull, XmitStep, XmitStop, XmitArm, TimerFire, TimerEnd, NetPoll,
       NetOpen, NetOpenControl, NetClose, ModemTake, ModemCrash, vars, logVars
  <2> QED
    BY <1>1, <2>1, <2>2, <2>3, <2>4, <2>5 DEF Next, TimerStep
<1> QED
  BY <1>1, PTL DEF Spec, LossOnlyAtDeadline

-----------------------------------------------------------------------------
(* The types in three parts: queue and counters, ring and logs, flags.     *)
QueueTypes ==
  /\ queue \in Seq(Packets)
  /\ queued_packets \in Nat /\ queued_bytes \in Nat /\ sequence \in Nat
  /\ accepted \in 0 .. MaxPackets /\ lost \subseteq 1 .. MaxPackets
  /\ opens \in 0 .. MaxOpens

RingTypes ==
  /\ ring \in Seq(Seq(1 .. MaxPackets)) /\ Len(ring) <= RingCap
  /\ delivered \in Seq(1 .. MaxPackets)

FlagTypes ==
  /\ stopped \in BOOLEAN /\ up \in BOOLEAN
  /\ timer \in {"idle", "armed", "running", "ending"}
  /\ opc \in {"idle", "purge", "control"} /\ xpc \in {"idle", "arm", "stop"}
  /\ modem \in {"ok", "crashed"} /\ error \in BOOLEAN /\ irq \in BOOLEAN

(* The three parts are the type invariant.                                 *)
LEMMA TypesSplit == TypeOK <=> QueueTypes /\ RingTypes /\ FlagTypes
  BY Zenon DEF TypeOK, QueueTypes, RingTypes, FlagTypes

(* The identifiers of a queue.                                             *)
LEMMA IdTypes ==
  ASSUME NEW q \in Seq(Packets)
  PROVE  /\ IdSeq(q) \in Seq(1 .. MaxPackets) /\ Ids(q) \subseteq 1 .. MaxPackets
         /\ Len(IdSeq(q)) = Len(q)
         /\ \A k \in 1 .. Len(q) : IdSeq(q)[k] = q[k].id
<1>0. DOMAIN q = 1 .. Len(q) /\ Len(q) \in Nat /\ \A k \in 1 .. Len(q) : q[k] \in Packets
  OBVIOUS
<1>1. /\ DOMAIN q = 1 .. Len(q) /\ Len(q) \in Nat
      /\ \A k \in 1 .. Len(q) : q[k].id \in 1 .. MaxPackets
  BY <1>0 DEF Packets
<1>2. IdSeq(q) = [k \in 1 .. Len(q) |-> q[k].id]
  BY <1>1 DEF IdSeq
<1>3. IdSeq(q) \in Seq(1 .. MaxPackets) /\ Len(IdSeq(q)) = Len(q)
  BY <1>1, <1>2
<1> QED
  BY <1>1, <1>2, <1>3 DEF Ids

(* A frame pushed into a ring that is not full leaves it within its bounds.*)
LEMMA PushTypes ==
  ASSUME RingTypes, ~RingFull, NEW f \in Seq(1 .. MaxPackets), Push(f), UNCHANGED delivered
  PROVE  RingTypes'
<1>1. Len(ring) \in Nat /\ Len(ring) < RingCap
  BY NetTxAssumption DEF RingTypes, RingFull
<1> QED
  BY <1>1, NetTxAssumption DEF RingTypes, Push

(* A flush keeps the types of the queue, the counters, the log and the     *)
(* ring.                                                                   *)
LEMMA FlushTypes ==
  ASSUME QueueTypes, RingTypes, NEW rest \in Seq(Packets), NEW n \in Nat, NEW b \in Nat,
         Flush(rest, n, b), UNCHANGED delivered
  PROVE  /\ queue' \in Seq(Packets)
         /\ queued_packets' \in Nat /\ queued_bytes' \in Nat /\ sequence' \in Nat
         /\ lost' \subseteq 1 .. MaxPackets
         /\ RingTypes'
<1>1. Ids(queue) \subseteq 1 .. MaxPackets /\ IdSeq(queue) \in Seq(1 .. MaxPackets)
  BY IdTypes DEF QueueTypes
<1>2. /\ queue' \in Seq(Packets)
      /\ queued_packets' \in Nat /\ queued_bytes' \in Nat /\ sequence' \in Nat
  BY DEF Flush, Count, QueueTypes
<1>3. lost' \subseteq 1 .. MaxPackets
  BY <1>1 DEF Flush, QueueTypes
<1>4. RingTypes'
  <2>1. CASE UNCHANGED ring
    BY <2>1 DEF RingTypes
  <2>2. CASE ~RingFull /\ Push(IdSeq(queue))
    BY <1>1, <2>2, PushTypes
  <2> QED
    BY <2>1, <2>2 DEF Flush
<1> QED
  BY <1>2, <1>3, <1>4

(* The flags of every step.                                                *)
LEMMA FlagStep == FlagTypes /\ [Next]_vars => FlagTypes'
<1> SUFFICES ASSUME FlagTypes, [Next]_vars PROVE FlagTypes'
  OBVIOUS
<1> USE DEF FlagTypes, upVars, devVars
<1>1. ASSUME NEW len \in Lens, XmitQueue(len) \/ XmitFull(len) PROVE FlagTypes'
  BY <1>1 DEF XmitQueue, XmitFull
<1>2. ASSUME NEW len \in Lens, XmitFlush(len) PROVE FlagTypes'
  BY <1>2 DEF XmitFlush, Flush, Push
<1>3. ASSUME DeadlineCb PROVE FlagTypes'
  BY <1>3 DEF DeadlineCb, Flush, Push
<1>4. ASSUME XmitStep \/ TimerFire \/ TimerEnd PROVE FlagTypes'
  BY <1>4 DEF XmitStep, XmitStop, XmitArm, TimerFire, TimerEnd
<1>5. ASSUME NetPoll PROVE FlagTypes'
  BY <1>5 DEF NetPoll
<1>6. ASSUME NetOpen \/ NetOpenPurge PROVE FlagTypes'
  BY <1>6 DEF NetOpen, NetOpenPurge
<1>7. ASSUME NetOpenControl PROVE FlagTypes'
  BY <1>7 DEF NetOpenControl, Push
<1>8. ASSUME NetClose \/ ModemTake \/ ModemCrash \/ UNCHANGED vars PROVE FlagTypes'
  BY <1>8 DEF NetClose, ModemTake, ModemCrash, vars
<1> QED
  BY <1>1, <1>2, <1>3, <1>4, <1>5, <1>6, <1>7, <1>8 DEF Next, TimerStep

(* The queue, the ring and the logs of every step.                         *)
LEMMA DataStep == QueueTypes /\ RingTypes /\ [Next]_vars => QueueTypes' /\ RingTypes'
<1> SUFFICES ASSUME QueueTypes, RingTypes, [Next]_vars PROVE QueueTypes' /\ RingTypes'
  OBVIOUS
<1> USE DEF qVars, logVars, upVars
<1>p. ASSUME NEW len \in Lens, XmitBegin(len)
      PROVE  /\ [id |-> accepted + 1, len |-> len] \in Packets /\ Padding + len \in Nat
             /\ accepted + 1 \in 0 .. MaxPackets /\ accepted \in Nat
  BY <1>p, NetTxAssumption DEF XmitBegin, QueueTypes, Packets, Padding
<1>1. ASSUME NEW len \in Lens, XmitQueue(len) PROVE QueueTypes' /\ RingTypes'
  <2>1. /\ [id |-> accepted + 1, len |-> len] \in Packets /\ Padding + len \in Nat
        /\ accepted + 1 \in 0 .. MaxPackets
    BY <1>1, <1>p DEF XmitQueue
  <2>2. queued_bytes + Padding + len \in Nat
    BY NetTxAssumption DEF QueueTypes, Padding
  <2>3. QueueTypes'
    BY <1>1, <2>1, <2>2 DEF XmitQueue, Count, QueueTypes
  <2> QED
    BY <1>1, <2>3 DEF XmitQueue, RingTypes
<1>2. ASSUME NEW len \in Lens, XmitFlush(len) PROVE QueueTypes' /\ RingTypes'
  <2>1. /\ <<[id |-> accepted + 1, len |-> len]>> \in Seq(Packets) /\ Padding + len \in Nat
        /\ accepted + 1 \in 0 .. MaxPackets
    BY <1>2, <1>p DEF XmitFlush
  <2>2. /\ Flush(<<[id |-> accepted + 1, len |-> len]>>, 1, Padding + len)
        /\ accepted' = accepted + 1 /\ UNCHANGED <<delivered, opens>>
    BY <1>2 DEF XmitFlush
  <2> QED
    BY <2>1, <2>2, FlushTypes DEF QueueTypes
<1>3. ASSUME DeadlineCb PROVE QueueTypes' /\ RingTypes'
  <2>1. Flush(<<>>, 0, 0) /\ UNCHANGED <<accepted, delivered, opens>> /\ <<>> \in Seq(Packets)
    BY <1>3 DEF DeadlineCb
  <2> QED
    BY <2>1, FlushTypes DEF QueueTypes
<1>4. ASSUME NetOpen PROVE QueueTypes' /\ RingTypes'
  BY <1>4, NetTxAssumption DEF NetOpen, Count, QueueTypes, RingTypes
<1>5. ASSUME NetOpenPurge PROVE QueueTypes' /\ RingTypes'
  <2>1. Ids(queue) \subseteq 1 .. MaxPackets
    BY IdTypes DEF QueueTypes
  <2>2. RingTypes'
    BY <1>5 DEF NetOpenPurge, RingTypes
  <2>q. queue' = <<>> /\ lost' = lost \cup Ids(queue)
    BY <1>5 DEF NetOpenPurge
  <2>l. lost \subseteq 1 .. MaxPackets /\ <<>> \in Seq(Packets)
    BY DEF QueueTypes
  <2>3. queue' \in Seq(Packets) /\ lost' \subseteq 1 .. MaxPackets
    BY <2>1, <2>q, <2>l
  <2> QED
    BY <1>5, <2>1, <2>2, <2>3 DEF NetOpenPurge, QueueTypes
<1>6. ASSUME NetOpenControl PROVE QueueTypes' /\ RingTypes'
  <2>1. QueueTypes' /\ UNCHANGED delivered
    BY <1>6 DEF NetOpenControl, QueueTypes
  <2>2. CASE UNCHANGED ring
    BY <2>1, <2>2 DEF RingTypes
  <2>3. CASE ~RingFull /\ Push(<<>>)
    <3>1. <<>> \in Seq(1 .. MaxPackets)
      OBVIOUS
    <3> QED
      BY <2>1, <2>3, <3>1, PushTypes
  <2> QED
    BY <1>6, <2>2, <2>3 DEF NetOpenControl
<1>7. ASSUME ModemTake PROVE QueueTypes' /\ RingTypes'
  <2>1. ring # <<>> /\ delivered' = delivered \o Head(ring) /\ ring' = Tail(ring)
    BY <1>7 DEF ModemTake
  <2>2. Head(ring) \in Seq(1 .. MaxPackets) /\ Tail(ring) \in Seq(Seq(1 .. MaxPackets))
        /\ Len(Tail(ring)) = Len(ring) - 1
    BY <2>1 DEF RingTypes
  <2>3. RingTypes'
    BY <2>1, <2>2, NetTxAssumption DEF RingTypes
  <2>4. QueueTypes'
    BY <1>7 DEF ModemTake, QueueTypes
  <2> QED
    BY <2>3, <2>4
<1>8. ASSUME \/ \E len \in Lens : XmitFull(len)
             \/ XmitStep \/ TimerFire \/ TimerEnd \/ NetPoll \/ NetClose \/ ModemCrash
             \/ UNCHANGED vars
      PROVE QueueTypes' /\ RingTypes'
  <2>1. UNCHANGED <<queue, queued_packets, queued_bytes, sequence, accepted, lost, opens, ring,
                    delivered>>
    BY <1>8 DEF XmitFull, XmitStep, XmitStop, XmitArm, TimerFire, TimerEnd, NetPoll, NetClose,
       ModemCrash, vars
  <2> QED
    BY <2>1 DEF QueueTypes, RingTypes
<1> QED
  BY <1>1, <1>2, <1>3, <1>4, <1>5, <1>6, <1>7, <1>8 DEF Next, TimerStep

(* The transmit path's state keeps its types; in particular no frame is    *)
(* pushed past the capacity of the ring, whoever flushes.                  *)
THEOREM TypesHold == Spec => []TypeOK
<1> DEFINE Types == QueueTypes /\ RingTypes /\ FlagTypes
<1>1. Init => Types
  <2> SUFFICES ASSUME Init PROVE Types
    OBVIOUS
  <2>1. QueueTypes
    BY NetTxAssumption DEF Init, QueueTypes
  <2>2. RingTypes
    BY NetTxAssumption DEF Init, RingTypes
  <2>3. FlagTypes
    BY DEF Init, FlagTypes
  <2> QED
    BY <2>1, <2>2, <2>3
<1>2. Types /\ [Next]_vars => Types'
  BY FlagStep, DataStep
<1>3. Types => TypeOK
  BY TypesSplit
<1> QED
  BY <1>1, <1>2, <1>3, PTL DEF Spec

-----------------------------------------------------------------------------
(* The lengths of a queue.                                                 *)
LEMMA LensTypes ==
  ASSUME NEW q \in Seq(Packets)
  PROVE  /\ LensOf(q) \in Seq(Nat) /\ Len(LensOf(q)) = Len(q) /\ Len(q) \in Nat
         /\ \A k \in 1 .. Len(q) : LensOf(q)[k] = q[k].len
         /\ Bytes(q) \in Nat
<1>0. DOMAIN q = 1 .. Len(q) /\ Len(q) \in Nat /\ \A k \in 1 .. Len(q) : q[k] \in Packets
  OBVIOUS
<1>1. \A k \in 1 .. Len(q) : q[k].len \in Nat
  BY <1>0, NetTxAssumption DEF Packets
<1>2. LensOf(q) = [k \in 1 .. Len(q) |-> q[k].len]
  BY <1>0 DEF LensOf
<1>3. LensOf(q) \in Seq(Nat) /\ Len(LensOf(q)) = Len(q)
  BY <1>0, <1>1, <1>2
<1>4. Len(q) \in 0 .. Len(q)
  BY <1>0
<1>5. Padded(LensOf(q)) \in [0 .. Len(q) -> Nat]
  BY <1>3, PaddedIs
<1> QED
  BY <1>0, <1>2, <1>3, <1>4, <1>5 DEF Bytes

(* The empty queue.                                                        *)
LEMMA BytesEmpty == LensOf(<<>>) = <<>> /\ Bytes(<<>>) = 0 /\ Fits(LensOf(<<>>))
<1>1. LensOf(<<>>) = <<>> /\ Len(<<>>) = 0 /\ <<>> \in Seq(Nat)
  BY DEF LensOf
<1>2. Padded(<<>>)[0] = 0
  BY <1>1, PaddedIs
<1> QED
  BY <1>1, <1>2, EmptyFits DEF Bytes, Fits

(* One packet more in a queue.                                             *)
LEMMA BytesAppend ==
  ASSUME NEW q \in Seq(Packets), NEW p \in Packets
  PROVE  /\ Append(q, p) \in Seq(Packets) /\ Len(Append(q, p)) = Len(q) + 1
         /\ Bytes(Append(q, p)) = Bytes(q) + Padding + p.len
<1> DEFINE more == Append(q, p)
<1>1. more \in Seq(Packets) /\ Len(more) = Len(q) + 1 /\ Len(q) \in Nat
      /\ more[Len(q) + 1] = p /\ \A k \in 1 .. Len(q) : more[k] = q[k]
  OBVIOUS
<1>2. p.len \in Nat
  BY NetTxAssumption DEF Packets
<1> HIDE DEF more
<1> DEFINE l == LensOf(q)
           m == LensOf(more)
<1>3. /\ l \in Seq(Nat) /\ Len(l) = Len(q) /\ \A k \in 1 .. Len(q) : l[k] = q[k].len
      /\ m \in Seq(Nat) /\ Len(m) = Len(more) /\ \A k \in 1 .. Len(more) : m[k] = more[k].len
  BY <1>1, LensTypes
<1> HIDE DEF l, m
<1>4. m = Append(l, p.len)
  <2>1. /\ Append(l, p.len) \in Seq(Nat) /\ Len(Append(l, p.len)) = Len(l) + 1
        /\ Append(l, p.len)[Len(l) + 1] = p.len
        /\ \A k \in 1 .. Len(l) : Append(l, p.len)[k] = l[k]
    BY <1>2, <1>3
  <2>2. Len(m) = Len(Append(l, p.len))
    BY <1>1, <1>3, <2>1
  <2>3. ASSUME NEW k \in 1 .. Len(m) PROVE m[k] = Append(l, p.len)[k]
    <3>1. CASE k = Len(q) + 1
      BY <1>1, <1>3, <2>1, <3>1
    <3>2. CASE k \in 1 .. Len(q)
      BY <1>1, <1>3, <2>1, <3>2
    <3> QED
      BY <1>1, <1>3, <3>1, <3>2
  <2> QED
    BY <1>3, <2>1, <2>2, <2>3, SeqEqual
<1>5. Padded(m)[Len(l) + 1] = Padded(l)[Len(l)] + Padding + p.len
  BY <1>2, <1>3, <1>4, PaddedAppend
<1> QED
  BY <1>1, <1>3, <1>5 DEF Bytes, l, m, more

(* Fewer packets of fewer bytes make no larger frame.                      *)
LEMMA SmallerFits ==
  ASSUME NEW n \in Nat, NEW b \in Nat, NEW k \in Nat, NEW c \in Nat, k <= n, c <= b
  PROVE  /\ FrameBytes(k, c) \in Nat /\ FrameBytes(n, b) \in Nat
         /\ FrameBytes(k, c) <= FrameBytes(n, b)
  BY DEF FrameBytes, Aligned, FirstHeader, NextHeader, BoundsSize

(* What a flush does to queue and counters.                                *)
LEMMA FlushCounts ==
  ASSUME NEW rest, NEW n, NEW b, Flush(rest, n, b)
  PROVE  /\ queue' = rest
         /\ error => error'
         /\ \/ /\ queue = <<>> \/ error
               /\ queued_packets' = queued_packets + n /\ queued_bytes' = queued_bytes + b
            \/ queued_packets' = n /\ queued_bytes' = b
  BY DEF Flush, Count

(* The inductive strengthening of CountersMatch: while net_open is between *)
(* its steps the interface is down, the counters are zero, and the queue   *)
(* is empty once it is purged.                                             *)
MatchInv ==
  /\ CountersMatch
  /\ opc # "idle" => ~up
  /\ ~error /\ opc # "idle" => queued_packets = 0 /\ queued_bytes = 0
  /\ opc = "control" => queue = <<>>

(* The steps that touch neither queue, counters nor net_open's position.   *)
LEMMA OtherSteps ==
  ASSUME \/ \E len \in Lens : XmitFull(len)
         \/ XmitStep \/ TimerFire \/ TimerEnd \/ NetPoll \/ NetClose
         \/ ModemTake \/ ModemCrash \/ UNCHANGED vars
  PROVE  /\ UNCHANGED <<queue, queued_packets, queued_bytes, opc>>
         /\ up' => up
         /\ error => error'
<1>1. UNCHANGED <<queue, queued_packets, queued_bytes, opc>>
  BY DEF XmitFull, XmitStep, XmitStop, XmitArm, TimerFire, TimerEnd, NetPoll, NetClose,
     ModemTake, ModemCrash, vars, qVars, upVars
<1>2. up' => up
  BY DEF XmitFull, XmitStep, XmitStop, XmitArm, TimerFire, TimerEnd, NetPoll, NetClose,
     ModemTake, ModemCrash, vars, upVars
<1>3. error => error'
  BY DEF XmitFull, XmitStep, XmitStop, XmitArm, TimerFire, TimerEnd, NetPoll, NetClose,
     ModemTake, ModemCrash, vars, devVars
<1> QED
  BY <1>1, <1>2, <1>3

(* The packet that net_xmit takes.                                         *)
LEMMA TakenPacket ==
  ASSUME QueueTypes, NEW len \in Lens, XmitBegin(len)
  PROVE  /\ [id |-> accepted + 1, len |-> len] \in Packets
         /\ len \in Nat /\ Padding + len \in Nat
  BY NetTxAssumption DEF XmitBegin, QueueTypes, Packets, Padding

(* A queue of one packet.                                                  *)
LEMMA BytesOne ==
  ASSUME NEW p \in Packets
  PROVE  /\ <<p>> \in Seq(Packets) /\ Len(<<p>>) = 1 /\ <<p>> # <<>>
         /\ Bytes(<<p>>) = Padding + p.len
<1>1. <<>> \in Seq(Packets) /\ Append(<<>>, p) = <<p>> /\ Len(<<p>>) = 1
  OBVIOUS
<1>2. Bytes(<<p>>) = 0 + Padding + p.len
  BY <1>1, BytesAppend, BytesEmpty
<1>3. p.len \in Nat
  BY NetTxAssumption DEF Packets
<1> QED
  BY <1>1, <1>2, <1>3 DEF Padding

(* The counters follow the queue through every step.                       *)
LEMMA MatchStep == QueueTypes /\ MatchInv /\ [Next]_vars => MatchInv'
<1> SUFFICES ASSUME QueueTypes, MatchInv, [Next]_vars PROVE MatchInv'
  OBVIOUS
<1>0. queue \in Seq(Packets) /\ queued_packets \in Nat /\ queued_bytes \in Nat
  BY DEF QueueTypes
<1> USE DEF MatchInv, CountersMatch
<1>1. ASSUME NEW len \in Lens, XmitQueue(len) PROVE MatchInv'
  <2> DEFINE p == [id |-> accepted + 1, len |-> len]
  <2>1. p \in Packets /\ len \in Nat /\ p.len = len
    BY <1>1, TakenPacket DEF XmitQueue
  <2>2. /\ queue' = Append(queue, p) /\ queued_packets' = queued_packets + 1
        /\ queued_bytes' = queued_bytes + Padding + len
        /\ up' = up /\ up /\ opc' = opc /\ error' = error
    BY <1>1 DEF XmitQueue, XmitBegin, Count, upVars, devVars
  <2> HIDE DEF p
  <2>3. Len(queue') = Len(queue) + 1 /\ Bytes(queue') = Bytes(queue) + Padding + len
    BY <1>0, <2>1, <2>2, BytesAppend
  <2> QED
    BY <1>0, <2>2, <2>3
<1>2. ASSUME NEW len \in Lens, XmitFlush(len) PROVE MatchInv'
  <2> DEFINE p == [id |-> accepted + 1, len |-> len]
  <2>1. p \in Packets /\ len \in Nat /\ p.len = len /\ Padding + len \in Nat
    BY <1>2, TakenPacket DEF XmitFlush
  <2>2. Flush(<<p>>, 1, Padding + len) /\ up' = up /\ up /\ opc' = opc
    BY <1>2 DEF XmitFlush, XmitBegin, upVars
  <2> HIDE DEF p
  <2>3. Len(<<p>>) = 1 /\ Bytes(<<p>>) = Padding + len
    BY <2>1, BytesOne
  <2>4. error \/ queue # <<>>
    <3> SUFFICES ASSUME ~error, queue = <<>> PROVE FALSE
      OBVIOUS
    <3>1. queued_packets = 0 /\ queued_bytes = 0
      BY <2>2, BytesEmpty
    <3> QED
      BY <1>2, <3>1, OneFits DEF XmitFlush
  <2> QED
    BY <2>2, <2>3, <2>4, FlushCounts
<1>3. ASSUME DeadlineCb PROVE MatchInv'
  <2>1. Flush(<<>>, 0, 0) /\ up' = up /\ opc' = opc
    BY <1>3 DEF DeadlineCb, upVars
  <2>2. Len(<<>>) = 0 /\ Bytes(<<>>) = 0
    BY BytesEmpty
  <2>3. queued_packets + 0 = queued_packets /\ queued_bytes + 0 = queued_bytes
    BY <1>0
  <2> QED
    BY <2>1, <2>2, <2>3, FlushCounts
<1>4. ASSUME NetOpen PROVE MatchInv'
  BY <1>4 DEF NetOpen, Count, devVars
<1>5. ASSUME NetOpenPurge PROVE MatchInv'
  BY <1>5 DEF NetOpenPurge, devVars
<1>6. ASSUME NetOpenControl PROVE MatchInv'
  <2>1. /\ UNCHANGED <<queue, queued_packets, queued_bytes>> /\ opc' = "idle" /\ opc = "control"
        /\ error => error'
    BY <1>6 DEF NetOpenControl, qVars
  <2>2. Len(<<>>) = 0 /\ Bytes(<<>>) = 0
    BY BytesEmpty
  <2> QED
    BY <2>1, <2>2
<1>7. ASSUME \/ \E len \in Lens : XmitFull(len)
             \/ XmitStep \/ TimerFire \/ TimerEnd \/ NetPoll \/ NetClose
             \/ ModemTake \/ ModemCrash \/ UNCHANGED vars
      PROVE MatchInv'
  <2>1. /\ UNCHANGED <<queue, queued_packets, queued_bytes, opc>>
        /\ up' => up
        /\ error => error'
    BY <1>7, OtherSteps
  <2> QED
    BY <2>1
<1> QED
  BY <1>1, <1>2, <1>3, <1>4, <1>5, <1>6, <1>7 DEF Next, TimerStep

(* net_xmit's estimate is exact, through flushes by either caller, full    *)
(* rings and re-opens with a timer of the last use still pending, for      *)
(* every queue and until the device is in error.                           *)
THEOREM CountersFollowQueue == Spec => []CountersMatch
<1>1. Init => MatchInv
  BY BytesEmpty DEF Init, MatchInv, CountersMatch
<1>2. MatchInv => CountersMatch
  BY DEF MatchInv
<1>3. TypeOK => QueueTypes
  BY TypesSplit
<1> QED
  BY <1>1, <1>2, <1>3, MatchStep, TypesHold, PTL DEF Spec

-----------------------------------------------------------------------------
(* The inductive strengthening of FlushFits: what is queued fits a frame,  *)
(* because the counters never count less than the queue holds - also in    *)
(* error, when they count too much - except while net_open has reset them, *)
(* when nothing can be queued.                                             *)
FitInv ==
  /\ Fits(LensOf(queue))
  /\ opc = "idle" => Len(queue) <= queued_packets /\ Bytes(queue) <= queued_bytes
  /\ opc # "idle" => ~up
  /\ opc = "control" => queue = <<>>

LEMMA FitInit == Init => FitInv
  BY BytesEmpty DEF Init, FitInv

(* Whatever is queued fits one frame.                                      *)
LEMMA FitStep == QueueTypes /\ FitInv /\ [Next]_vars => FitInv'
<1> SUFFICES ASSUME QueueTypes, FitInv, [Next]_vars PROVE FitInv'
  OBVIOUS
<1>0. queue \in Seq(Packets) /\ queued_packets \in Nat /\ queued_bytes \in Nat
      /\ Len(queue) \in Nat /\ Bytes(queue) \in Nat
  BY LensTypes DEF QueueTypes
<1>e. Len(<<>>) = 0 /\ Bytes(<<>>) = 0 /\ Fits(LensOf(<<>>))
  BY BytesEmpty
<1> USE DEF FitInv
<1>1. ASSUME NEW len \in Lens, XmitQueue(len) PROVE FitInv'
  <2> DEFINE p == [id |-> accepted + 1, len |-> len]
  <2>1. p \in Packets /\ len \in Nat /\ p.len = len
    BY <1>1, TakenPacket DEF XmitQueue
  <2>2. /\ queue' = Append(queue, p) /\ queued_packets' = queued_packets + 1
        /\ queued_bytes' = queued_bytes + Padding + len
        /\ up' = up /\ up /\ opc' = opc
    BY <1>1 DEF XmitQueue, XmitBegin, Count, upVars
  <2> HIDE DEF p
  <2>3. /\ queue' \in Seq(Packets)
        /\ Len(queue') = Len(queue) + 1 /\ Bytes(queue') = Bytes(queue) + Padding + len
    BY <1>0, <2>1, <2>2, BytesAppend
  <2>4. /\ FrameBytes(queued_packets', queued_bytes') <= MaxSize
        /\ queued_packets' <= MUX_MAX_PACKETS
    BY <1>0, <1>1, <2>1, <2>2, AdmittedFits DEF XmitQueue
  <2>5. /\ Len(queue') <= queued_packets' /\ Bytes(queue') <= queued_bytes'
        /\ Len(queue') \in Nat /\ Bytes(queue') \in Nat
        /\ queued_packets' \in Nat /\ queued_bytes' \in Nat
    BY <1>0, <2>1, <2>2, <2>3 DEF Padding
  <2>6. Fits(LensOf(queue'))
    <3>1. /\ FrameBytes(Len(queue'), Bytes(queue')) \in Nat
          /\ FrameBytes(queued_packets', queued_bytes') \in Nat
          /\ FrameBytes(Len(queue'), Bytes(queue')) <= FrameBytes(queued_packets', queued_bytes')
      BY <2>5, SmallerFits
    <3>2. FrameBytes(Len(queue'), Bytes(queue')) <= MaxSize /\ Len(queue') <= MUX_MAX_PACKETS
      BY <2>4, <2>5, <3>1, MuxFrameAssumption
    <3>3. Len(LensOf(queue')) = Len(queue')
      BY <2>3, LensTypes
    <3> QED
      BY <3>2, <3>3 DEF Fits, Bytes
  <2> QED
    BY <2>2, <2>5, <2>6
<1>2. ASSUME NEW len \in Lens, XmitFlush(len) PROVE FitInv'
  <2> DEFINE p == [id |-> accepted + 1, len |-> len]
  <2>1. p \in Packets /\ len \in Nat /\ p.len = len /\ Padding + len \in Nat
    BY <1>2, TakenPacket DEF XmitFlush
  <2>2. Flush(<<p>>, 1, Padding + len) /\ up' = up /\ up /\ opc' = opc
    BY <1>2 DEF XmitFlush, XmitBegin, upVars
  <2> HIDE DEF p
  <2>3. Len(<<p>>) = 1 /\ Bytes(<<p>>) = Padding + len /\ Len(LensOf(<<p>>)) = 1
    BY <2>1, BytesOne, LensTypes
  <2>4. Fits(LensOf(<<p>>))
    BY <2>3, OneFits DEF Fits, Bytes
  <2>5. queue' = <<p>> /\ queued_packets' >= 1 /\ queued_bytes' >= Padding + len
    BY <1>0, <2>1, <2>2, FlushCounts
  <2> QED
    BY <2>1, <2>2, <2>3, <2>4, <2>5
<1>3. ASSUME DeadlineCb PROVE FitInv'
  <2>1. Flush(<<>>, 0, 0) /\ up' = up /\ opc' = opc
    BY <1>3 DEF DeadlineCb, upVars
  <2>2. queue' = <<>> /\ queued_packets' >= 0 /\ queued_bytes' >= 0
    BY <1>0, <2>1, FlushCounts
  <2> QED
    BY <1>e, <2>1, <2>2
<1>4. ASSUME NetOpen PROVE FitInv'
  BY <1>4 DEF NetOpen
<1>5. ASSUME NetOpenPurge PROVE FitInv'
  BY <1>e, <1>5 DEF NetOpenPurge
<1>6. ASSUME NetOpenControl PROVE FitInv'
  <2>1. /\ UNCHANGED <<queue, queued_packets, queued_bytes>> /\ opc' = "idle" /\ opc = "control"
    BY <1>6 DEF NetOpenControl, qVars
  <2> QED
    BY <1>0, <1>e, <2>1
<1>7. ASSUME \/ \E len \in Lens : XmitFull(len)
             \/ XmitStep \/ TimerFire \/ TimerEnd \/ NetPoll \/ NetClose
             \/ ModemTake \/ ModemCrash \/ UNCHANGED vars
      PROVE FitInv'
  <2>1. UNCHANGED <<queue, queued_packets, queued_bytes, opc>> /\ (up' => up)
    BY <1>7, OtherSteps
  <2> QED
    BY <2>1
<1> QED
  BY <1>1, <1>2, <1>3, <1>4, <1>5, <1>6, <1>7 DEF Next, TimerStep

(* The frame net_flush builds is always whole and readable, for every page *)
(* size, limit and packet lengths, also when the counters are stale after  *)
(* an error: none of its "Failed to ship" exits is taken for size.         *)
THEOREM FlushedFramesAreWhole == Spec => []FlushFits
<1>1. QueueTypes /\ FitInv => FlushFits
  <2> SUFFICES ASSUME QueueTypes, FitInv PROVE FlushFits
    OBVIOUS
  <2>1. LensOf(queue) \in Seq(Nat) /\ Fits(LensOf(queue))
    BY LensTypes DEF QueueTypes, FitInv
  <2> QED
    BY <2>1, FlushBuildsFrame DEF FlushFits
<1>2. TypeOK => QueueTypes
  BY TypesSplit
<1> QED
  BY <1>1, <1>2, FitInit, FitStep, TypesHold, PTL DEF Spec

-----------------------------------------------------------------------------
(* A sequence over a set of numbers.                                       *)
LEMMA NumberSeq ==
  ASSUME NEW S, S \subseteq Nat, NEW s \in Seq(S)
  PROVE  /\ s \in Seq(Nat) /\ Len(s) \in Nat /\ DOMAIN s = 1 .. Len(s)
         /\ \A j \in DOMAIN s : s[j] \in S /\ s[j] \in Nat
<1>1. Len(s) \in Nat /\ DOMAIN s = 1 .. Len(s) /\ (\A j \in 1 .. Len(s) : s[j] \in S)
      /\ s = [j \in 1 .. Len(s) |-> s[j]]
  OBVIOUS
<1>2. \A j \in 1 .. Len(s) : s[j] \in Nat
  BY <1>1
<1>3. [j \in 1 .. Len(s) |-> s[j]] \in Seq(Nat)
  BY <1>1, <1>2
<1> QED
  BY <1>1, <1>2, <1>3

(* The same for identifiers.                                               *)
LEMMA IdSeqs ==
  ASSUME NEW s \in Seq(1 .. MaxPackets)
  PROVE  /\ s \in Seq(Nat) /\ Len(s) \in Nat /\ DOMAIN s = 1 .. Len(s)
         /\ \A j \in DOMAIN s : s[j] \in Nat
<1>1. 1 .. MaxPackets \subseteq Nat
  BY NetTxAssumption
<1> QED
  BY <1>1, NumberSeq, Zenon

(* Order of concatenated sequences.                                        *)
LEMMA ConcatOrder ==
  ASSUME NEW s \in Seq(Nat), NEW t \in Seq(Nat),
         Increasing(s), Increasing(t), Precedes(s, t)
  PROVE  /\ Increasing(s \o t)
         /\ \A u : Precedes(s, u) /\ Precedes(t, u) => Precedes(s \o t, u)
<1> DEFINE c == s \o t
<1>1. /\ c \in Seq(Nat) /\ Len(c) = Len(s) + Len(t) /\ Len(s) \in Nat /\ Len(t) \in Nat
      /\ DOMAIN s = 1 .. Len(s) /\ DOMAIN t = 1 .. Len(t) /\ DOMAIN c = 1 .. Len(c)
      /\ \A j \in 1 .. Len(s) : c[j] = s[j]
      /\ \A j \in 1 .. Len(c) : j > Len(s) => c[j] = t[j - Len(s)]
  OBVIOUS
<1> HIDE DEF c
<1>n. Len(s) \in Nat /\ Len(t) \in Nat /\ Len(c) = Len(s) + Len(t)
  BY <1>1, Zenon
<1>2. \A j \in 1 .. Len(c) : j > Len(s) => j - Len(s) \in 1 .. Len(t)
  BY <1>n
<1>s. \A j, k \in 1 .. Len(s) : j < k => s[j] < s[k]
  BY <1>1, Zenon DEF Increasing
<1>t. \A j, k \in 1 .. Len(t) : j < k => t[j] < t[k]
  BY <1>1, Zenon DEF Increasing
<1>p. \A j \in 1 .. Len(s), k \in 1 .. Len(t) : s[j] < t[k]
  BY <1>1, Zenon DEF Precedes
<1>3. ASSUME NEW j \in 1 .. Len(c), NEW k \in 1 .. Len(c), j < k PROVE c[j] < c[k]
  <2>1. CASE k <= Len(s)
    <3>1. j \in 1 .. Len(s) /\ k \in 1 .. Len(s)
      BY <1>n, <1>3, <2>1
    <3> QED
      BY <1>1, <1>3, <1>s, <3>1, Zenon
  <2>2. CASE j <= Len(s) /\ k > Len(s)
    <3>1. j \in 1 .. Len(s) /\ k - Len(s) \in 1 .. Len(t)
      BY <1>n, <1>2, <2>2
    <3> QED
      BY <1>1, <1>p, <2>2, <3>1, Zenon
  <2>3. CASE j > Len(s)
    <3>1. /\ j - Len(s) \in 1 .. Len(t) /\ k - Len(s) \in 1 .. Len(t) /\ k > Len(s)
          /\ j - Len(s) < k - Len(s)
      BY <1>n, <1>2, <1>3, <2>3
    <3> QED
      BY <1>1, <1>t, <2>3, <3>1, Zenon
  <2> QED
    BY <1>n, <1>3, <2>1, <2>2, <2>3
<1>4. ASSUME NEW u, Precedes(s, u), Precedes(t, u), NEW j \in 1 .. Len(c), NEW k \in DOMAIN u
      PROVE  c[j] < u[k]
  <2>1. CASE j <= Len(s)
    <3>1. j \in 1 .. Len(s)
      BY <1>n, <2>1
    <3> QED
      BY <1>1, <1>4, <3>1, Zenon DEF Precedes
  <2>2. CASE j > Len(s)
    <3>1. j - Len(s) \in 1 .. Len(t)
      BY <1>2, <2>2, Zenon
    <3> QED
      BY <1>1, <1>4, <2>2, <3>1, Zenon DEF Precedes
  <2> QED
    BY <1>n, <2>1, <2>2
<1> QED
  BY <1>1, <1>3, <1>4 DEF Increasing, Precedes, c

(* A number above all others, put at the end.                              *)
LEMMA AppendOrder ==
  ASSUME NEW s \in Seq(Nat), NEW x \in Nat, Increasing(s), \A j \in DOMAIN s : s[j] < x
  PROVE  /\ Increasing(Append(s, x))
         /\ \A u : Precedes(u, s) /\ (\A j \in DOMAIN u : u[j] < x) => Precedes(u, Append(s, x))
<1>1. /\ Len(s) \in Nat /\ DOMAIN s = 1 .. Len(s) /\ DOMAIN Append(s, x) = 1 .. Len(s) + 1
      /\ Append(s, x)[Len(s) + 1] = x /\ \A j \in 1 .. Len(s) : Append(s, x)[j] = s[j]
  OBVIOUS
<1> QED
  BY <1>1 DEF Increasing, Precedes

(* The order of the packets, part by part: packets delivered, in each      *)
(* frame of the ring and in the queue, and no number above the last one    *)
(* accepted.                                                               *)
Below(s, n) == \A j \in DOMAIN s : s[j] <= n
OrderInv ==
  /\ Increasing(delivered) /\ Below(delivered, accepted)
  /\ Increasing(IdSeq(queue)) /\ Below(IdSeq(queue), accepted) /\ Precedes(delivered, IdSeq(queue))
  /\ \A r \in 1 .. Len(ring) :
       /\ Increasing(ring[r]) /\ Below(ring[r], accepted)
       /\ Precedes(delivered, ring[r]) /\ Precedes(ring[r], IdSeq(queue))
  /\ \A r, q \in 1 .. Len(ring) : r < q => Precedes(ring[r], ring[q])

(* The parts say what InOrder says.                                        *)
LEMMA OrderIs == RingTypes /\ QueueTypes /\ OrderInv => InOrder
<1> SUFFICES ASSUME RingTypes, QueueTypes, OrderInv PROVE InOrder
  OBVIOUS
<1> DEFINE f == <<delivered>> \o ring \o <<IdSeq(queue)>>
           n == Len(ring)
           S == Seq(1 .. MaxPackets)
<1>0. ring \in Seq(S) /\ delivered \in S /\ IdSeq(queue) \in S
  BY IdTypes DEF RingTypes, QueueTypes
<1> DEFINE i == IdSeq(queue)
<1> HIDE DEF S, i
<1>1. /\ n \in Nat /\ DOMAIN f = 1 .. n + 2 /\ f[1] = delivered /\ f[n + 2] = i
      /\ \A r \in 1 .. n : f[r + 1] = ring[r]
  <2>1. <<delivered>> \in Seq(S) /\ <<i>> \in Seq(S) /\ n \in Nat
        /\ Len(<<delivered>>) = 1 /\ Len(<<i>>) = 1 /\ <<delivered>>[1] = delivered /\ <<i>>[1] = i
    BY <1>0 DEF i
  <2> DEFINE g == <<delivered>> \o ring
  <2>2. g \in Seq(S) /\ Len(g) = n + 1 /\ g[1] = delivered /\ \A r \in 1 .. n : g[r + 1] = ring[r]
    BY <1>0, <2>1
  <2> HIDE DEF g
  <2>3. g \o <<i>> \in Seq(S) /\ Len(g \o <<i>>) = n + 2 /\ (g \o <<i>>)[n + 2] = i
        /\ \A r \in 1 .. n + 1 : (g \o <<i>>)[r] = g[r]
    BY <2>1, <2>2
  <2> QED
    BY <2>1, <2>2, <2>3 DEF g, i
<1> HIDE DEF f, n
<1>2. \A a \in 1 .. n + 2 : a = 1 \/ a = n + 2 \/ (a - 1 \in 1 .. n /\ f[a] = ring[a - 1])
  <2> SUFFICES ASSUME NEW a \in 1 .. n + 2, a # 1, a # n + 2
               PROVE  a - 1 \in 1 .. n /\ f[a] = ring[a - 1]
    OBVIOUS
  <2>1. a - 1 \in 1 .. n /\ (a - 1) + 1 = a
    BY <1>1
  <2> QED
    BY <1>1, <2>1
<1>3. /\ Increasing(delivered) /\ Increasing(i) /\ Precedes(delivered, i)
      /\ \A r \in 1 .. n : /\ Increasing(ring[r])
                           /\ Precedes(delivered, ring[r]) /\ Precedes(ring[r], i)
      /\ \A r, q \in 1 .. n : r < q => Precedes(ring[r], ring[q])
  BY DEF OrderInv, i, n
<1>4. \A a \in 1 .. n + 2 : Increasing(f[a])
  BY <1>1, <1>2, <1>3, Zenon
<1>5. ASSUME NEW a \in 1 .. n + 2, NEW b \in 1 .. n + 2, a < b PROVE Precedes(f[a], f[b])
  <2>1. a # n + 2 /\ b # 1 /\ a - 1 < b - 1
    BY <1>1, <1>5
  <2>2. CASE a = 1
    BY <1>1, <1>2, <1>3, <2>1, <2>2, Zenon
  <2>3. CASE a # 1
    BY <1>1, <1>2, <1>3, <2>1, <2>3, Zenon
  <2> QED
    BY <2>2, <2>3
<1> QED
  BY <1>1, <1>4, <1>5, Zenon DEF InOrder, f, i

(* The packets that leave the queue go into the ring, behind all others,   *)
(* or are dropped; what is left in the queue is new.                       *)
LEMMA FlushOrder ==
  ASSUME QueueTypes, RingTypes, OrderInv, accepted' \in Nat, accepted' >= accepted,
         NEW rest, NEW n, NEW b, Flush(rest, n, b), UNCHANGED delivered,
         IdSeq(rest) = <<>> \/ (accepted' = accepted + 1 /\ IdSeq(rest) = <<accepted + 1>>)
  PROVE  OrderInv'
<1> DEFINE i == IdSeq(queue)
           e == IdSeq(rest)
<1>0. /\ accepted \in Nat /\ delivered \in Seq(1 .. MaxPackets) /\ i \in Seq(1 .. MaxPackets)
      /\ ring \in Seq(Seq(1 .. MaxPackets)) /\ Len(ring) \in Nat
      /\ \A r \in 1 .. Len(ring) : ring[r] \in Seq(1 .. MaxPackets)
  BY IdTypes DEF QueueTypes, RingTypes
<1>1. /\ IdSeq(queue)' = e
      /\ ring' = ring \/ ring' = Append(ring, i)
  BY DEF Flush, Push
<1> DEFINE Old(s) == s \in Seq(1 .. MaxPackets) /\ Increasing(s) /\ Below(s, accepted)
<1>2. ASSUME NEW s, Old(s) PROVE Below(s, accepted') /\ Precedes(s, e)
  <2>s. s \in Seq(1 .. MaxPackets)
    BY <1>2, Zenon
  <2>a. \A j \in DOMAIN s : s[j] \in Nat
    BY <2>s, IdSeqs
  <2>0. \A j \in DOMAIN s : s[j] \in Nat /\ s[j] <= accepted
    BY <1>2, <2>a DEF Below
  <2>1. \A j \in DOMAIN s : s[j] \in Nat /\ s[j] <= accepted' /\ s[j] < accepted + 1
    BY <1>0, <2>0
  <2>2. e = <<>> \/ (DOMAIN e = {1} /\ e[1] = accepted + 1)
    OBVIOUS
  <2>3. Precedes(s, e)
    <3> HIDE DEF e
    <3> QED
      BY <2>1, <2>2 DEF Precedes
  <2> QED
    BY <2>1, <2>3 DEF Below
<1>3. Increasing(e) /\ Below(e, accepted')
  <2>1. e = <<>> \/ (DOMAIN e = {1} /\ e[1] = accepted + 1 /\ accepted' = accepted + 1)
    OBVIOUS
  <2> HIDE DEF e
  <2>2. e = <<>> => Increasing(e) /\ Below(e, accepted')
    BY DEF Increasing, Below
  <2>3. DOMAIN e = {1} /\ e[1] = accepted + 1 /\ accepted' = accepted + 1 => Increasing(e) /\ Below(e, accepted')
    BY <1>0 DEF Increasing, Below
  <2> QED
    BY <2>1, <2>2, <2>3
<1>4. Old(delivered) /\ Old(i) /\ Precedes(delivered, i)
  BY <1>0 DEF OrderInv
<1>5. /\ \A r \in 1 .. Len(ring) : Old(ring[r]) /\ Precedes(delivered, ring[r]) /\ Precedes(ring[r], i)
      /\ \A r, q \in 1 .. Len(ring) : r < q => Precedes(ring[r], ring[q])
  BY <1>0 DEF OrderInv
<1>6. \A r \in 1 .. Len(ring') : Old(ring'[r]) /\ Precedes(delivered, ring'[r])
  <2>1. CASE ring' = ring
    BY <1>5, <2>1
  <2>2. CASE ring' = Append(ring, i)
    <3>1. /\ \A r \in 1 .. Len(ring') : r \in 1 .. Len(ring) \/ r = Len(ring) + 1
          /\ \A r \in 1 .. Len(ring) : ring'[r] = ring[r]
          /\ ring'[Len(ring) + 1] = i
      BY <1>0, <2>2
    <3> HIDE DEF i, Old
    <3> QED
      BY <1>4, <1>5, <3>1, Zenon
  <2> QED
    BY <1>1, <2>1, <2>2
<1>7. \A r, q \in 1 .. Len(ring') : r < q => Precedes(ring'[r], ring'[q])
  <2>1. CASE ring' = ring
    BY <1>5, <2>1
  <2>2. CASE ring' = Append(ring, i)
    <3>1. /\ \A r, q \in 1 .. Len(ring') :
               r < q => r \in 1 .. Len(ring) /\ (q \in 1 .. Len(ring) \/ q = Len(ring) + 1)
          /\ \A r \in 1 .. Len(ring) : ring'[r] = ring[r]
          /\ ring'[Len(ring) + 1] = i
      BY <1>0, <2>2
    <3> HIDE DEF i, Old
    <3> QED
      BY <1>4, <1>5, <3>1, Zenon
  <2> QED
    BY <1>1, <2>1, <2>2
<1> HIDE DEF e, i
<1>8. \A r \in 1 .. Len(ring') : Increasing(ring'[r]) /\ Below(ring'[r], accepted') /\ Precedes(ring'[r], e)
  <2> SUFFICES ASSUME NEW r \in 1 .. Len(ring')
               PROVE  Increasing(ring'[r]) /\ Below(ring'[r], accepted') /\ Precedes(ring'[r], e)
    OBVIOUS
  <2>1. PICK s : s = ring'[r]
    OBVIOUS
  <2>2. Old(s)
    BY <1>6, <2>1
  <2>3. Below(s, accepted') /\ Precedes(s, e)
    BY <1>2, <2>2
  <2> QED
    BY <2>1, <2>2, <2>3 DEF Below
<1>9. Below(delivered, accepted') /\ Precedes(delivered, e)
  <2>1. PICK s : s = delivered
    OBVIOUS
  <2>2. Below(s, accepted') /\ Precedes(s, e)
    BY <1>2, <1>4, <2>1
  <2> QED
    BY <2>1, <2>2 DEF Below
<1> QED
  BY <1>1, <1>3, <1>4, <1>6, <1>7, <1>8, <1>9 DEF OrderInv

(* A packet net_xmit queues is the last of all.                            *)
LEMMA QueueOrder ==
  ASSUME QueueTypes, RingTypes, OrderInv, NEW len \in Lens, XmitQueue(len)
  PROVE  OrderInv'
<1> DEFINE p == [id |-> accepted + 1, len |-> len]
           i == IdSeq(queue)
           x == accepted + 1
<1>1. /\ queue' = Append(queue, p) /\ UNCHANGED <<ring, delivered>> /\ accepted' = x
      /\ p \in Packets /\ queue \in Seq(Packets) /\ accepted \in Nat /\ x \in Nat
  BY TakenPacket DEF XmitQueue, QueueTypes
<1>2. /\ i \in Seq(1 .. MaxPackets) /\ delivered \in Seq(1 .. MaxPackets)
      /\ \A r \in 1 .. Len(ring) : ring[r] \in Seq(1 .. MaxPackets)
  BY IdTypes DEF QueueTypes, RingTypes
<1>3. IdSeq(queue)' = Append(i, x)
  <2> DEFINE more == Append(queue, p)
  <2>1. /\ Len(queue) \in Nat /\ DOMAIN queue = 1 .. Len(queue)
        /\ DOMAIN more = 1 .. Len(queue) + 1
        /\ more[Len(queue) + 1] = p /\ \A k \in 1 .. Len(queue) : more[k] = queue[k]
    BY <1>1
  <2>2. more \in Seq(Packets) /\ Len(more) = Len(queue) + 1
    BY <1>1
  <2> HIDE DEF more
  <2>3. /\ IdSeq(more) \in Seq(1 .. MaxPackets) /\ Len(IdSeq(more)) = Len(queue) + 1
        /\ \A k \in 1 .. Len(more) : IdSeq(more)[k] = more[k].id
    BY <2>2, IdTypes
  <2>4. Len(i) = Len(queue) /\ \A k \in 1 .. Len(queue) : i[k] = queue[k].id
    BY <1>1, IdTypes
  <2>5. /\ Append(i, x) \in Seq(Nat) /\ Len(Append(i, x)) = Len(queue) + 1
        /\ Append(i, x)[Len(queue) + 1] = x
        /\ \A k \in 1 .. Len(queue) : Append(i, x)[k] = i[k]
    <3> HIDE DEF i, x
    <3>1. i \in Seq(Nat)
      BY <1>2, IdSeqs
    <3> QED
      BY <1>1, <2>1, <2>4, <3>1
  <2>6. \A k \in 1 .. Len(queue) + 1 : IdSeq(more)[k] = Append(i, x)[k]
    <3> SUFFICES ASSUME NEW k \in 1 .. Len(queue) + 1 PROVE IdSeq(more)[k] = Append(i, x)[k]
      OBVIOUS
    <3>0. IdSeq(more)[k] = more[k].id
      BY <2>2, <2>3
    <3>1. CASE k = Len(queue) + 1
      <4>1. p.id = x
        OBVIOUS
      <4> QED
        BY <2>1, <2>5, <3>0, <3>1, <4>1, Zenon
    <3>2. CASE k \in 1 .. Len(queue)
      BY <2>1, <2>4, <2>5, <3>0, <3>2, Zenon
    <3>3. k = Len(queue) + 1 \/ k \in 1 .. Len(queue)
      BY <2>1
    <3> QED
      BY <3>1, <3>2, <3>3
  <2>7. IdSeq(more) \in Seq(Nat)
    BY <2>3, IdSeqs
  <2>8. IdSeq(more) = Append(i, x)
    BY <2>3, <2>5, <2>6, <2>7, SeqEqual, Zenon
  <2> QED
    BY <1>1, <2>8, Zenon DEF more
<1> DEFINE Old(s) == s \in Seq(1 .. MaxPackets) /\ Below(s, accepted)
<1>4. ASSUME NEW s, Old(s) PROVE Below(s, x) /\ (\A j \in DOMAIN s : s[j] < x) /\ s \in Seq(Nat)
  <2>1. s \in Seq(1 .. MaxPackets)
    BY <1>4, Zenon
  <2>2. (\A j \in DOMAIN s : s[j] \in Nat) /\ s \in Seq(Nat)
    BY <2>1, IdSeqs
  <2> QED
    BY <1>1, <1>4, <2>2 DEF Below
<1>5. /\ Old(i) /\ Increasing(i) /\ Old(delivered) /\ Precedes(delivered, i)
      /\ \A r \in 1 .. Len(ring) : Old(ring[r]) /\ Precedes(ring[r], i)
  BY <1>2 DEF OrderInv
<1>6. i \in Seq(Nat) /\ \A j \in DOMAIN i : i[j] < x
  <2> HIDE DEF i, x, Old
  <2> QED
    BY <1>4, <1>5
<1> DEFINE e == Append(i, x)
<1>7. Increasing(e) /\ \A u : Precedes(u, i) /\ (\A j \in DOMAIN u : u[j] < x) => Precedes(u, e)
  <2> HIDE DEF i, x
  <2> QED
    BY <1>1, <1>5, <1>6, AppendOrder
<1>8. Below(e, x)
  <2> HIDE DEF i, x
  <2>1. /\ Len(i) \in Nat /\ DOMAIN i = 1 .. Len(i) /\ DOMAIN e = 1 .. Len(i) + 1
        /\ e[Len(i) + 1] = x /\ \A j \in 1 .. Len(i) : e[j] = i[j] /\ i[j] \in Nat
    BY <1>1, <1>6
  <2> QED
    BY <1>1, <1>6, <2>1 DEF Below
<1> HIDE DEF Old, e, i, x
<1>9. Below(delivered, x) /\ Precedes(delivered, e)
  BY <1>4, <1>5, <1>7
<1>10. \A r \in 1 .. Len(ring) : Below(ring[r], x) /\ Precedes(ring[r], e)
  BY <1>4, <1>5, <1>7
<1>11. IdSeq(queue)' = e /\ accepted' = x /\ UNCHANGED <<ring, delivered>>
  BY <1>1, <1>3 DEF e
<1> QED
  BY <1>7, <1>8, <1>9, <1>10, <1>11 DEF OrderInv

(* The modem takes the oldest frame.                                       *)
LEMMA TakeOrder ==
  ASSUME QueueTypes, RingTypes, OrderInv, ModemTake
  PROVE  OrderInv'
<1> DEFINE h == Head(ring)
           t == Tail(ring)
           i == IdSeq(queue)
           d == delivered \o h
<1>1. ring # <<>> /\ delivered' = d /\ ring' = t /\ UNCHANGED <<queue, accepted>>
  BY DEF ModemTake, qVars
<1>2. /\ Len(ring) \in Nat /\ 1 \in 1 .. Len(ring) /\ h = ring[1] /\ Len(t) = Len(ring) - 1
      /\ \A r \in 1 .. Len(t) : r + 1 \in 1 .. Len(ring) /\ t[r] = ring[r + 1] /\ 1 < r + 1
      /\ \A r \in 1 .. Len(ring) : ring[r] \in Seq(1 .. MaxPackets)
      /\ \A r, q \in 1 .. Len(t) : r < q => r + 1 < q + 1
  BY <1>1 DEF RingTypes
<1>3. /\ Increasing(delivered) /\ Increasing(h) /\ Precedes(delivered, h)
      /\ Below(delivered, accepted) /\ Below(h, accepted)
      /\ Precedes(delivered, i) /\ Precedes(h, i) /\ Increasing(i) /\ Below(i, accepted)
  <2> HIDE DEF h
  <2> QED
    BY <1>2 DEF OrderInv
<1>4. delivered \in Seq(Nat) /\ h \in Seq(Nat)
  <2>1. delivered \in Seq(1 .. MaxPackets) /\ h \in Seq(1 .. MaxPackets)
    BY <1>2 DEF RingTypes
  <2> HIDE DEF h
  <2> QED
    BY <2>1, IdSeqs
<1> HIDE DEF h, t
<1>5. Increasing(d) /\ \A u : Precedes(delivered, u) /\ Precedes(h, u) => Precedes(d, u)
  BY <1>3, <1>4, ConcatOrder
<1>6. Below(d, accepted)
  <2>1. /\ Len(delivered) \in Nat /\ Len(h) \in Nat /\ DOMAIN d = 1 .. Len(delivered) + Len(h)
        /\ DOMAIN delivered = 1 .. Len(delivered) /\ DOMAIN h = 1 .. Len(h)
        /\ \A j \in 1 .. Len(delivered) : d[j] = delivered[j]
        /\ \A j \in DOMAIN d : j > Len(delivered) => d[j] = h[j - Len(delivered)]
    BY <1>4
  <2> HIDE DEF d
  <2>2. \A j \in DOMAIN d : j \in 1 .. Len(delivered)
                            \/ (j > Len(delivered) /\ j - Len(delivered) \in 1 .. Len(h))
    BY <2>1
  <2> QED
    BY <1>3, <2>1, <2>2, Zenon DEF Below
<1>7. \A r \in 1 .. Len(t) : /\ Increasing(t[r]) /\ Below(t[r], accepted)
                             /\ Precedes(d, t[r]) /\ Precedes(t[r], i)
  <2> SUFFICES ASSUME NEW r \in 1 .. Len(t)
               PROVE  /\ Increasing(t[r]) /\ Below(t[r], accepted)
                      /\ Precedes(d, t[r]) /\ Precedes(t[r], i)
    OBVIOUS
  <2>1. r + 1 \in 1 .. Len(ring) /\ t[r] = ring[r + 1] /\ 1 < r + 1 /\ 1 \in 1 .. Len(ring)
    BY <1>2
  <2>2. /\ Increasing(t[r]) /\ Below(t[r], accepted) /\ Precedes(delivered, t[r])
        /\ Precedes(t[r], i) /\ Precedes(h, t[r])
    BY <1>2, <2>1, Zenon DEF OrderInv
  <2> HIDE DEF d
  <2> QED
    BY <1>5, <2>2
<1>8. \A r, q \in 1 .. Len(t) : r < q => Precedes(t[r], t[q])
  <2> SUFFICES ASSUME NEW r \in 1 .. Len(t), NEW q \in 1 .. Len(t), r < q PROVE Precedes(t[r], t[q])
    OBVIOUS
  <2>1. /\ r + 1 \in 1 .. Len(ring) /\ q + 1 \in 1 .. Len(ring) /\ r + 1 < q + 1
        /\ t[r] = ring[r + 1] /\ t[q] = ring[q + 1]
    BY <1>2
  <2> QED
    BY <2>1, Zenon DEF OrderInv
<1>9. IdSeq(queue)' = i
  BY <1>1
<1>10. Precedes(d, i)
  BY <1>3, <1>5
<1> HIDE DEF d, i
<1> QED
  BY <1>1, <1>3, <1>5, <1>6, <1>7, <1>8, <1>9, <1>10 DEF OrderInv

(* net_open's frame carries no packets.                                    *)
LEMMA ControlOrder ==
  ASSUME QueueTypes, RingTypes, OrderInv, UNCHANGED <<queue, delivered, accepted>>,
         ring' = ring \/ ring' = Append(ring, <<>>)
  PROVE  OrderInv'
<1> DEFINE i == IdSeq(queue)
<1>1. IdSeq(queue)' = i /\ delivered' = delivered /\ accepted' = accepted
  OBVIOUS
<1>2. Len(ring) \in Nat /\ ring \in Seq(Seq(1 .. MaxPackets)) /\ <<>> \in Seq(1 .. MaxPackets)
  BY DEF RingTypes
<1>3. /\ Increasing(<<>>) /\ Below(<<>>, accepted)
      /\ \A u : Precedes(<<>>, u) /\ Precedes(u, <<>>)
  BY DEF Increasing, Below, Precedes
<1>4. CASE ring' = ring
  BY <1>1, <1>4 DEF OrderInv
<1>5. CASE ring' = Append(ring, <<>>)
  <2>1. /\ \A r \in 1 .. Len(ring') : r \in 1 .. Len(ring) \/ ring'[r] = <<>>
        /\ \A r \in 1 .. Len(ring) : ring'[r] = ring[r]
    BY <1>2, <1>5
  <2>2. \A r \in 1 .. Len(ring') : /\ Increasing(ring'[r]) /\ Below(ring'[r], accepted)
                                   /\ Precedes(delivered, ring'[r]) /\ Precedes(ring'[r], i)
    BY <1>3, <2>1, Zenon DEF OrderInv
  <2>3. \A r, q \in 1 .. Len(ring') : r < q => Precedes(ring'[r], ring'[q])
    BY <1>3, <2>1, Zenon DEF OrderInv
  <2>4. Increasing(delivered) /\ Below(delivered, accepted) /\ Increasing(i) /\ Below(i, accepted)
        /\ Precedes(delivered, i)
    BY Zenon DEF OrderInv
  <2> HIDE DEF i
  <2> QED
    BY <1>1, <2>2, <2>3, <2>4 DEF OrderInv
<1> QED
  BY <1>4, <1>5

(* Packets dropped from the queue.                                         *)
LEMMA PurgeOrder ==
  ASSUME OrderInv, queue' = <<>>, UNCHANGED <<ring, delivered, accepted>>
  PROVE  OrderInv'
<1>1. IdSeq(queue)' = <<>>
  BY DEF IdSeq
<1>2. Increasing(<<>>) /\ Below(<<>>, accepted) /\ \A u : Precedes(u, <<>>)
  BY DEF Increasing, Below, Precedes
<1> QED
  BY <1>1, <1>2 DEF OrderInv

(* Every step keeps the packets in order.                                  *)
LEMMA OrderStep ==
  QueueTypes /\ RingTypes /\ OrderInv /\ [Next]_vars => OrderInv'
<1> SUFFICES ASSUME QueueTypes, RingTypes, OrderInv, [Next]_vars PROVE OrderInv'
  OBVIOUS
<1>0. accepted \in Nat
  BY DEF QueueTypes
<1>1. ASSUME NEW len \in Lens, XmitQueue(len) PROVE OrderInv'
  BY <1>1, QueueOrder
<1>2. ASSUME NEW len \in Lens, XmitFlush(len) PROVE OrderInv'
  <2> DEFINE p == [id |-> accepted + 1, len |-> len]
  <2>1. /\ Flush(<<p>>, 1, Padding + len) /\ accepted' = accepted + 1 /\ UNCHANGED delivered
    BY <1>2 DEF XmitFlush
  <2>2. IdSeq(<<p>>) = <<accepted + 1>>
    BY DEF IdSeq
  <2>3. accepted' \in Nat /\ accepted' >= accepted
    BY <1>0, <2>1
  <2> HIDE DEF p
  <2> QED
    BY <2>1, <2>2, <2>3, FlushOrder
<1>3. ASSUME DeadlineCb PROVE OrderInv'
  <2>1. Flush(<<>>, 0, 0) /\ UNCHANGED <<accepted, delivered>>
    BY <1>3 DEF DeadlineCb
  <2>2. IdSeq(<<>>) = <<>>
    BY DEF IdSeq
  <2>3. accepted' \in Nat /\ accepted' >= accepted /\ UNCHANGED delivered
    BY <1>0, <2>1
  <2> QED
    BY <2>1, <2>2, <2>3, FlushOrder
<1>4. ASSUME NetOpenPurge PROVE OrderInv'
  <2>1. queue' = <<>> /\ UNCHANGED <<ring, delivered, accepted>>
    BY <1>4 DEF NetOpenPurge
  <2> QED
    BY <2>1, PurgeOrder
<1>5. ASSUME \/ \E len \in Lens : XmitFull(len)
             \/ XmitStep \/ TimerFire \/ TimerEnd \/ NetPoll \/ NetOpen \/ NetOpenControl
             \/ NetClose \/ ModemCrash \/ UNCHANGED vars
      PROVE OrderInv'
  <2>1. /\ UNCHANGED <<queue, delivered, accepted>>
        /\ ring' = ring \/ ring' = Append(ring, <<>>)
    BY <1>5 DEF XmitFull, XmitStep, XmitStop, XmitArm, TimerFire, TimerEnd, NetPoll, NetOpen,
       NetOpenControl, NetClose, ModemCrash, Push, vars, qVars, logVars
  <2> QED
    BY <2>1, ControlOrder
<1>6. ASSUME ModemTake PROVE OrderInv'
  BY <1>6, TakeOrder
<1> QED
  BY <1>1, <1>2, <1>3, <1>4, <1>5, <1>6 DEF Next, TimerStep

LEMMA OrderInit == Init => OrderInv
<1> SUFFICES ASSUME Init PROVE OrderInv
  OBVIOUS
<1>1. queue = <<>> /\ ring = <<>> /\ delivered = <<>> /\ Len(ring) = 0
  BY DEF Init
<1>2. IdSeq(queue) = <<>>
  BY <1>1 DEF IdSeq
<1> QED
  BY <1>1, <1>2 DEF OrderInv, Increasing, Below, Precedes

(* The modem sees packets in the order the stack handed them over and none *)
(* twice, for every number of packets: flushes by net_xmit, by the timer   *)
(* and the re-opening of the interface neither reorder nor repeat.         *)
THEOREM PacketsStayInOrder == Spec => []InOrder
<1>1. TypeOK => QueueTypes /\ RingTypes
  BY TypesSplit
<1> QED
  BY <1>1, OrderInit, OrderIs, OrderStep, TypesHold, PTL DEF Spec

-----------------------------------------------------------------------------
(* The packets of a queue, as its identifiers and after a change of it.    *)
LEMMA QueueIds ==
  ASSUME NEW q \in Seq(Packets), NEW p \in Packets
  PROVE  /\ Ids(q) = Uplink!Elements(IdSeq(q))
         /\ Ids(<<>>) = {} /\ Ids(<<p>>) = {p.id} /\ Ids(Append(q, p)) = Ids(q) \cup {p.id}
<1>1. Len(q) \in Nat /\ DOMAIN q = 1 .. Len(q)
  OBVIOUS
<1>2. Ids(q) = Uplink!Elements(IdSeq(q))
  BY <1>1 DEF Ids, IdSeq, Uplink!Elements
<1>3. Ids(<<>>) = {} /\ Ids(<<p>>) = {p.id}
  BY DEF Ids
<1> DEFINE more == Append(q, p)
<1>4. /\ DOMAIN more = 1 .. Len(q) + 1 /\ more[Len(q) + 1] = p
      /\ \A k \in 1 .. Len(q) : more[k] = q[k]
  BY <1>1
<1> HIDE DEF more
<1>5. \A k \in 1 .. Len(q) + 1 : k \in 1 .. Len(q) \/ k = Len(q) + 1
  BY <1>1
<1>6. 1 .. Len(q) \subseteq 1 .. Len(q) + 1 /\ Len(q) + 1 \in 1 .. Len(q) + 1
  BY <1>1
<1>7. Ids(more) = Ids(q) \cup {p.id}
  BY <1>1, <1>4, <1>5, <1>6, Zenon DEF Ids
<1> QED
  BY <1>2, <1>3, <1>7 DEF more

(* A packet is in the ring if it is in one of its frames.                  *)
LEMMA FrameIdsAre ==
  ASSUME NEW rg, NEW x
  PROVE  x \in FrameIds(rg) <=> \E r \in DOMAIN rg : x \in Uplink!Elements(rg[r])
<1>1. FrameIds(rg) = UNION {Uplink!Elements(rg[r]) : r \in DOMAIN rg}
  BY Zenon DEF FrameIds, Uplink!Elements
<1> QED
  BY <1>1

(* The packets of the ring with one more frame.                            *)
LEMMA FrameIdsAppend ==
  ASSUME NEW S, NEW rg \in Seq(S), NEW f \in S
  PROVE  FrameIds(Append(rg, f)) = FrameIds(rg) \cup Uplink!Elements(f)
<1> DEFINE more == Append(rg, f)
<1>1. Len(rg) \in Nat /\ DOMAIN rg = 1 .. Len(rg)
  OBVIOUS
<1>2. /\ DOMAIN more = 1 .. Len(rg) + 1 /\ more[Len(rg) + 1] = f
      /\ \A k \in 1 .. Len(rg) : more[k] = rg[k]
  BY <1>1
<1>3. /\ \A k \in 1 .. Len(rg) + 1 : k \in 1 .. Len(rg) \/ k = Len(rg) + 1
      /\ 1 .. Len(rg) \subseteq 1 .. Len(rg) + 1 /\ Len(rg) + 1 \in 1 .. Len(rg) + 1
  BY <1>1
<1> HIDE DEF more
<1>4. ASSUME NEW x PROVE x \in FrameIds(more) <=> x \in FrameIds(rg) \/ x \in Uplink!Elements(f)
  BY <1>1, <1>2, <1>3, FrameIdsAre, Zenon
<1> QED
  BY <1>4 DEF more

(* The packets of the ring by frame: the oldest one and the others.        *)
LEMMA FrameIdsTail ==
  ASSUME NEW S, NEW rg \in Seq(S), rg # <<>>
  PROVE  FrameIds(rg) = Uplink!Elements(Head(rg)) \cup FrameIds(Tail(rg))
<1> DEFINE t == Tail(rg)
           h == Head(rg)
<1>1. /\ Len(rg) \in Nat /\ DOMAIN rg = 1 .. Len(rg) /\ 1 \in 1 .. Len(rg) /\ h = rg[1]
      /\ DOMAIN t = 1 .. Len(rg) - 1
      /\ \A r \in 1 .. Len(rg) - 1 : r + 1 \in 1 .. Len(rg) /\ t[r] = rg[r + 1]
  OBVIOUS
<1> HIDE DEF t, h
<1>2. \A r \in 1 .. Len(rg) : r = 1 \/ (r - 1 \in 1 .. Len(rg) - 1 /\ (r - 1) + 1 = r)
  BY <1>1
<1>3. \A r \in 1 .. Len(rg) : r = 1 \/ (r - 1 \in DOMAIN t /\ t[r - 1] = rg[r])
  BY <1>1, <1>2
<1>4. ASSUME NEW x PROVE x \in FrameIds(rg) <=> x \in Uplink!Elements(h) \/ x \in FrameIds(t)
  <2>1. ASSUME x \in FrameIds(rg) PROVE x \in Uplink!Elements(h) \/ x \in FrameIds(t)
    <3>1. PICK r \in 1 .. Len(rg) : x \in Uplink!Elements(rg[r])
      BY <1>1, <2>1, FrameIdsAre, Zenon
    <3>2. r = 1 \/ (r - 1 \in DOMAIN t /\ t[r - 1] = rg[r])
      BY <1>3
    <3> QED
      BY <1>1, <3>1, <3>2, FrameIdsAre, Zenon
  <2>2. ASSUME x \in Uplink!Elements(h) PROVE x \in FrameIds(rg)
    BY <1>1, <2>2, FrameIdsAre, Zenon
  <2>3. ASSUME x \in FrameIds(t) PROVE x \in FrameIds(rg)
    <3>1. PICK r \in 1 .. Len(rg) - 1 : x \in Uplink!Elements(t[r])
      BY <1>1, <2>3, FrameIdsAre, Zenon
    <3>2. r + 1 \in DOMAIN rg /\ t[r] = rg[r + 1]
      BY <1>1, Zenon
    <3> QED
      BY <3>1, <3>2, FrameIdsAre, Zenon
  <2> QED
    BY <2>1, <2>2, <2>3
<1> QED
  BY <1>4 DEF t, h

(* What is queued is newer than what is in the ring.                       *)
LEMMA QueueIsNewest ==
  ASSUME QueueTypes, RingTypes, OrderInv
  PROVE  /\ Uplink!Newest(Ids(queue)) /\ Uplink!Newest({})
         /\ InFlight \ Ids(queue) = FrameIds(ring)
<1>1. DOMAIN ring = 1 .. Len(ring)
  BY DEF RingTypes
<1>2. Ids(queue) = {IdSeq(queue)[k] : k \in DOMAIN IdSeq(queue)}
  BY DEF Ids, IdSeq
<1>3. \A x \in FrameIds(ring), y \in Ids(queue) : x < y
  <2> SUFFICES ASSUME NEW x \in FrameIds(ring), NEW y \in Ids(queue) PROVE x < y
    OBVIOUS
  <2>1. PICK r \in 1 .. Len(ring) : x \in Uplink!Elements(ring[r])
    BY <1>1, FrameIdsAre, Zenon
  <2>2. Precedes(ring[r], IdSeq(queue))
    BY DEF OrderInv
  <2> QED
    BY <1>2, <2>1, <2>2, Zenon DEF Uplink!Elements, Precedes
<1>4. Ids(queue) \subseteq Nat
  <2>1. Ids(queue) \subseteq 1 .. MaxPackets
    BY IdTypes DEF QueueTypes
  <2> QED
    BY <2>1
<1>5. FrameIds(ring) \cap Ids(queue) = {}
  BY <1>3, <1>4
<1>6. InFlight \ Ids(queue) = FrameIds(ring)
  BY <1>5 DEF InFlight
<1> QED
  BY <1>3, <1>6 DEF InFlight, Uplink!Newest, Uplink!Before

(* No frame holds more packets than the limit: the queue never does.       *)
BatchInv == \A r \in 1 .. Len(ring) : Len(ring[r]) <= MUX_MAX_PACKETS

LEMMA BatchStep ==
  QueueTypes /\ RingTypes /\ FitInv /\ BatchInv /\ [Next]_vars => BatchInv'
<1> SUFFICES ASSUME QueueTypes, RingTypes, FitInv, BatchInv, [Next]_vars PROVE BatchInv'
  OBVIOUS
<1>0. ring \in Seq(Seq(1 .. MaxPackets)) /\ Len(ring) \in Nat
  BY DEF RingTypes
<1>1. Len(IdSeq(queue)) <= MUX_MAX_PACKETS /\ Len(<<>>) <= MUX_MAX_PACKETS
  <2>1. Len(IdSeq(queue)) = Len(queue) /\ Len(LensOf(queue)) = Len(queue)
    BY IdTypes, LensTypes DEF QueueTypes
  <2> QED
    BY <2>1, MuxFrameAssumption DEF FitInv, Fits
<1>2. ASSUME NEW f, ring' = Append(ring, f), Len(f) <= MUX_MAX_PACKETS PROVE BatchInv'
  <2>1. /\ Len(ring') = Len(ring) + 1
        /\ \A r \in 1 .. Len(ring') : ring'[r] = IF r = Len(ring) + 1 THEN f ELSE ring[r]
    BY <1>0, <1>2
  <2>2. \A r \in 1 .. Len(ring') : r = Len(ring) + 1 \/ r \in 1 .. Len(ring)
    BY <1>0, <2>1
  <2> QED
    BY <1>2, <2>1, <2>2, Zenon DEF BatchInv
<1>3. ASSUME ModemTake PROVE BatchInv'
  <2>1. ring # <<>> /\ ring' = Tail(ring)
    BY <1>3 DEF ModemTake
  <2>2. \A r \in 1 .. Len(ring') : ring'[r] = ring[r + 1] /\ r + 1 \in 1 .. Len(ring)
    BY <1>0, <2>1
  <2> QED
    BY <2>2, Zenon DEF BatchInv
<1>4. ASSUME ring' = ring PROVE BatchInv'
  BY <1>4 DEF BatchInv
<1>5. \/ ring' = ring \/ ModemTake
      \/ ring' = Append(ring, IdSeq(queue)) \/ ring' = Append(ring, <<>>)
  <2>1. ASSUME NEW len \in Lens, XmitQueue(len) \/ XmitFlush(len) \/ XmitFull(len)
        PROVE  ring' = ring \/ ring' = Append(ring, IdSeq(queue))
    BY <2>1 DEF XmitQueue, XmitFlush, XmitFull, Flush, Push
  <2>2. ASSUME DeadlineCb PROVE ring' = ring \/ ring' = Append(ring, IdSeq(queue))
    BY <2>2 DEF DeadlineCb, Flush, Push
  <2>3. ASSUME NetOpenControl PROVE ring' = ring \/ ring' = Append(ring, <<>>)
    BY <2>3 DEF NetOpenControl, Push
  <2>4. ASSUME \/ XmitStep \/ TimerFire \/ TimerEnd \/ NetPoll \/ NetOpen \/ NetOpenPurge
               \/ NetClose \/ ModemCrash \/ UNCHANGED vars
        PROVE  ring' = ring
    BY <2>4 DEF XmitStep, XmitStop, XmitArm, TimerFire, TimerEnd, NetPoll, NetOpen,
       NetOpenPurge, NetClose, ModemCrash, vars
  <2> QED
    BY <2>1, <2>2, <2>3, <2>4 DEF Next, TimerStep
<1> QED
  BY <1>1, <1>2, <1>3, <1>4, <1>5

(* What a flush does to the packets: the queue goes to the ring or, its    *)
(* packets being the newest, is lost.                                      *)
LEMMA FlushMoves ==
  ASSUME QueueTypes, RingTypes, OrderInv, NEW rest, NEW n, NEW b, Flush(rest, n, b)
  PROVE  \E S \in {{}, Ids(queue)} : /\ InFlight' = (InFlight \ S) \cup Ids(rest)
                                     /\ lost' = lost \cup S
<1>1. queue' = rest /\ queue \in Seq(Packets) /\ IdSeq(queue) \in Seq(1 .. MaxPackets)
  BY IdTypes DEF Flush, QueueTypes
<1>2. InFlight' = Ids(rest) \cup FrameIds(ring')
  BY <1>1 DEF InFlight
<1>3. CASE queue = <<>> /\ UNCHANGED <<ring, lost>>
  <2>1. Ids(queue) = {}
    BY <1>3 DEF Ids
  <2> QED
    BY <1>2, <1>3, <2>1 DEF InFlight
<1>4. CASE lost' = lost \cup Ids(queue) /\ UNCHANGED ring
  BY <1>2, <1>4, QueueIsNewest
<1>5. CASE ring' = Append(ring, IdSeq(queue)) /\ UNCHANGED lost
  <2>1. ring \in Seq(Seq(1 .. MaxPackets))
    BY DEF RingTypes
  <2>2. FrameIds(ring') = FrameIds(ring) \cup Uplink!Elements(IdSeq(queue))
    BY <1>1, <1>5, <2>1, FrameIdsAppend
  <2>3. Uplink!Elements(IdSeq(queue)) = Ids(queue)
    BY DEF Ids, IdSeq, Uplink!Elements
  <2> QED
    BY <1>2, <1>5, <2>2, <2>3 DEF InFlight
<1> QED
  BY <1>3, <1>4, <1>5 DEF Flush, Push

(* Every step of the transmit path is a step of the channel or none.       *)
LEMMA ChannelStep ==
  ASSUME QueueTypes, RingTypes, OrderInv, BatchInv, [Next]_vars
  PROVE  Uplink!Next \/ UNCHANGED <<accepted, InFlight, delivered, lost>>
<1>0. /\ \A S \in {{}, Ids(queue)} : Uplink!Newest(S) /\ S \in SUBSET InFlight
      /\ queue \in Seq(Packets) /\ accepted \in Nat
  BY QueueIsNewest DEF QueueTypes, InFlight
<1>1. ASSUME NEW len \in Lens, XmitQueue(len) PROVE Uplink!Next
  <2> DEFINE p == [id |-> accepted + 1, len |-> len]
  <2>1. /\ p \in Packets /\ p.id = accepted + 1 /\ queue' = Append(queue, p)
        /\ accepted' = accepted + 1 /\ UNCHANGED <<ring, delivered, lost>>
    BY <1>1, TakenPacket DEF XmitQueue
  <2> HIDE DEF p
  <2>2. InFlight' = (InFlight \ {}) \cup {accepted + 1} /\ lost' = lost \cup {}
    <3>1. Ids(queue') = Ids(queue) \cup {accepted + 1}
      BY <1>0, <2>1, QueueIds, Zenon
    <3>2. InFlight' = Ids(queue') \cup FrameIds(ring)
      BY <2>1 DEF InFlight
    <3> QED
      BY <2>1, <3>1, <3>2 DEF InFlight
  <2>3. Uplink!Put({})
    BY <1>0, <2>1, <2>2 DEF Uplink!Put
  <2> QED
    BY <1>0, <2>3 DEF Uplink!Next
<1>2. ASSUME NEW len \in Lens, XmitFlush(len) PROVE Uplink!Next
  <2> DEFINE p == [id |-> accepted + 1, len |-> len]
  <2>1. /\ p \in Packets /\ p.id = accepted + 1 /\ Flush(<<p>>, 1, Padding + len)
        /\ accepted' = accepted + 1 /\ UNCHANGED delivered
    BY <1>2, TakenPacket DEF XmitFlush
  <2> HIDE DEF p
  <2>2. Ids(<<p>>) = {accepted + 1}
    BY <1>0, <2>1, QueueIds
  <2>3. PICK S \in {{}, Ids(queue)} : /\ InFlight' = (InFlight \ S) \cup {accepted + 1}
                                      /\ lost' = lost \cup S
    BY <2>1, <2>2, FlushMoves
  <2>4. Uplink!Put(S)
    BY <1>0, <2>1, <2>3 DEF Uplink!Put
  <2> QED
    BY <1>0, <2>4 DEF Uplink!Next
<1>3. ASSUME DeadlineCb PROVE Uplink!Next
  <2>1. Flush(<<>>, 0, 0) /\ UNCHANGED <<accepted, delivered>> /\ Ids(<<>>) = {}
    BY <1>3 DEF DeadlineCb, Ids
  <2>2. PICK S \in {{}, Ids(queue)} : InFlight' = (InFlight \ S) \cup {} /\ lost' = lost \cup S
    BY <2>1, FlushMoves
  <2>3. Uplink!Lose(S)
    BY <1>0, <2>1, <2>2 DEF Uplink!Lose
  <2> QED
    BY <1>0, <2>3 DEF Uplink!Next
<1>4. ASSUME NetOpenPurge PROVE Uplink!Next
  <2>1. /\ queue' = <<>> /\ lost' = lost \cup Ids(queue)
        /\ UNCHANGED <<ring, accepted, delivered>> /\ Ids(<<>>) = {}
    BY <1>4 DEF NetOpenPurge, Ids
  <2>2. InFlight' = InFlight \ Ids(queue)
    BY <2>1, QueueIsNewest DEF InFlight
  <2>3. Uplink!Lose(Ids(queue))
    BY <1>0, <2>1, <2>2 DEF Uplink!Lose
  <2> QED
    BY <1>0, <2>3 DEF Uplink!Next
<1>5. ASSUME NetOpenControl PROVE UNCHANGED <<accepted, InFlight, delivered, lost>>
  <2>1. /\ UNCHANGED <<queue, accepted, delivered, lost>>
        /\ ring' = ring \/ ring' = Append(ring, <<>>)
    BY <1>5 DEF NetOpenControl, Push, qVars, logVars
  <2>2. ring \in Seq(Seq(1 .. MaxPackets)) /\ <<>> \in Seq(1 .. MaxPackets)
        /\ Uplink!Elements(<<>>) = {}
    BY DEF RingTypes, Uplink!Elements
  <2>3. FrameIds(ring') = FrameIds(ring)
    <3>1. FrameIds(Append(ring, <<>>)) = FrameIds(ring) \cup Uplink!Elements(<<>>)
      BY <2>2, FrameIdsAppend, Zenon
    <3> QED
      BY <2>1, <2>2, <3>1
  <2> QED
    BY <2>1, <2>3 DEF InFlight
<1>6. ASSUME ModemTake PROVE Uplink!Next
  <2> DEFINE h == Head(ring)
             t == Tail(ring)
  <2>1. /\ ring # <<>> /\ ring' = t /\ delivered' = delivered \o h
        /\ UNCHANGED <<queue, accepted, lost>>
    BY <1>6 DEF ModemTake, qVars
  <2>2. /\ ring \in Seq(Seq(1 .. MaxPackets)) /\ Len(ring) \in Nat /\ 1 \in 1 .. Len(ring)
        /\ h = ring[1] /\ h \in Seq(1 .. MaxPackets)
        /\ DOMAIN t = 1 .. Len(ring) - 1
        /\ \A r \in 1 .. Len(ring) - 1 : r + 1 \in 1 .. Len(ring) /\ 1 < r + 1 /\ t[r] = ring[r + 1]
    BY <2>1 DEF RingTypes
  <2> HIDE DEF h, t
  <2>3. FrameIds(ring) = Uplink!Elements(h) \cup FrameIds(t)
    BY <2>1, <2>2, FrameIdsTail DEF h, t
  <2>4. /\ Increasing(h) /\ Precedes(h, IdSeq(queue)) /\ Len(h) <= MUX_MAX_PACKETS
        /\ \A r \in 1 .. Len(ring) - 1 : Precedes(h, t[r])
    BY <2>2, Zenon DEF OrderInv, BatchInv
  <2> DEFINE rest == FrameIds(t) \cup Ids(queue)
  <2>5. \A x \in Uplink!Elements(h), y \in rest : x < y
    <3> SUFFICES ASSUME NEW x \in Uplink!Elements(h), NEW y \in rest PROVE x < y
      OBVIOUS
    <3>1. CASE y \in Ids(queue)
      <4>1. Ids(queue) = {IdSeq(queue)[k] : k \in DOMAIN IdSeq(queue)}
        BY DEF Ids, IdSeq
      <4> QED
        BY <2>4, <3>1, <4>1, Zenon DEF Uplink!Elements, Precedes
    <3>2. CASE y \in FrameIds(t)
      <4>1. PICK r \in 1 .. Len(ring) - 1 : y \in Uplink!Elements(t[r])
        BY <2>2, <3>2, FrameIdsAre, Zenon
      <4> QED
        BY <2>4, <4>1, Zenon DEF Uplink!Elements, Precedes
    <3> QED
      BY <3>1, <3>2
  <2>6. h \in Seq(Nat) /\ Len(h) \in Nat /\ DOMAIN h = 1 .. Len(h) /\ \A k \in DOMAIN h : h[k] \in Nat
    BY <2>2, IdSeqs
  <2>7. Uplink!Elements(h) \subseteq Nat
    BY <2>6 DEF Uplink!Elements
  <2>8. InFlight = Uplink!Elements(h) \cup rest /\ InFlight' = rest
    BY <2>1, <2>3 DEF InFlight
  <2>9. InFlight \ Uplink!Elements(h) = rest
    BY <2>5, <2>7, <2>8
  <2> HIDE DEF rest
  <2>10. Uplink!Get(h)
    BY <2>1, <2>4, <2>5, <2>8, <2>9 DEF Uplink!Get, Uplink!Ascending, Uplink!Before, Increasing
  <2>11. Len(h) \in 0 .. MUX_MAX_PACKETS
    BY <2>4, <2>6, MuxFrameAssumption
  <2>12. h \in [1 .. Len(h) -> InFlight]
    <3>1. h = [k \in 1 .. Len(h) |-> h[k]]
      BY <2>6
    <3>2. \A k \in 1 .. Len(h) : h[k] \in InFlight
      BY <2>6, <2>8, Zenon DEF Uplink!Elements
    <3> QED
      BY <3>1, <3>2
  <2> QED
    BY <2>10, <2>11, <2>12 DEF Uplink!Next
<1>7. ASSUME \/ \E len \in Lens : XmitFull(len)
             \/ XmitStep \/ TimerFire \/ TimerEnd \/ NetPoll \/ NetOpen \/ NetClose
             \/ ModemCrash \/ UNCHANGED vars
      PROVE  UNCHANGED <<accepted, InFlight, delivered, lost>>
  <2>1. UNCHANGED <<queue, ring, accepted, delivered, lost>>
    BY <1>7 DEF XmitFull, XmitStep, XmitStop, XmitArm, TimerFire, TimerEnd, NetPoll, NetOpen,
       NetClose, ModemCrash, vars, qVars, logVars
  <2> QED
    BY <2>1 DEF InFlight
<1> QED
  BY <1>1, <1>2, <1>3, <1>4, <1>5, <1>6, <1>7 DEF Next, TimerStep

(* The transmit path implements the channel that drops from its tail, for  *)
(* every ring, page size and number of packets: the steps above under the  *)
(* order of the packets and the limit of a frame.                          *)
THEOREM TransmitIsTailDropChannel == Spec => UplinkChannel
<1>1. Init => Uplink!Init
  <2> SUFFICES ASSUME Init PROVE Uplink!Init
    OBVIOUS
  <2>1. queue = <<>> /\ ring = <<>> /\ accepted = 0 /\ delivered = <<>> /\ lost = {}
    BY DEF Init
  <2>2. InFlight = {}
    BY <2>1 DEF InFlight, FrameIds, Ids
  <2> QED
    BY <2>1, <2>2 DEF Uplink!Init
<1>2. Init => OrderInv /\ FitInv /\ BatchInv
  <2>1. Init => BatchInv
    BY DEF Init, BatchInv
  <2> QED
    BY <2>1, OrderInit, FitInit
<1>3. QueueTypes /\ RingTypes /\ OrderInv /\ BatchInv /\ [Next]_vars
        => [Uplink!Next]_<<accepted, InFlight, delivered, lost>>
  BY ChannelStep
<1>4. TypeOK => QueueTypes /\ RingTypes
  BY TypesSplit
<1> QED
  BY <1>1, <1>2, <1>3, <1>4, OrderStep, FitStep, BatchStep, TypesHold, PTL
     DEF Spec, UplinkChannel, Uplink!Spec

(* The packets of two sequences of them.                                   *)
LEMMA ElementsConcat ==
  ASSUME NEW s \in Seq(Nat), NEW t \in Seq(Nat)
  PROVE  Uplink!Elements(s \o t) = Uplink!Elements(s) \cup Uplink!Elements(t)
<1> DEFINE c == s \o t
<1>1. /\ Len(s) \in Nat /\ Len(t) \in Nat /\ DOMAIN c = 1 .. Len(s) + Len(t)
      /\ DOMAIN s = 1 .. Len(s) /\ DOMAIN t = 1 .. Len(t)
      /\ \A j \in 1 .. Len(s) : c[j] = s[j]
      /\ \A j \in 1 .. Len(t) : c[j + Len(s)] = t[j]
  OBVIOUS
<1> HIDE DEF c
<1>2. /\ \A j \in 1 .. Len(s) : j \in DOMAIN c
      /\ \A j \in 1 .. Len(t) : j + Len(s) \in DOMAIN c
      /\ \A j \in DOMAIN c : j \in 1 .. Len(s)
                             \/ (j - Len(s) \in 1 .. Len(t) /\ (j - Len(s)) + Len(s) = j)
  BY <1>1
<1>3. \A j \in DOMAIN c : (\E i \in DOMAIN s : c[j] = s[i]) \/ (\E i \in DOMAIN t : c[j] = t[i])
  BY <1>1, <1>2
<1>4. /\ \A j \in DOMAIN s : \E i \in DOMAIN c : c[i] = s[j]
      /\ \A j \in DOMAIN t : \E i \in DOMAIN c : c[i] = t[j]
  BY <1>1, <1>2
<1>5. Uplink!Elements(c) = Uplink!Elements(s) \cup Uplink!Elements(t)
  BY <1>3, <1>4 DEF Uplink!Elements
<1> QED
  BY <1>5 DEF c

(* The channel keeps every packet in one place.                            *)
LEMMA OnePlaceStep ==
  ASSUME accepted \in Nat, Uplink!OnePlace,
         [Uplink!Next]_<<accepted, InFlight, delivered, lost>>,
         delivered \in Seq(Nat), InFlight \subseteq Nat
  PROVE  Uplink!OnePlace'
<1> DEFINE D == Uplink!Elements(delivered)
<1>0. /\ InFlight \cup D \cup lost = 1 .. accepted
      /\ InFlight \cap D = {} /\ InFlight \cap lost = {} /\ D \cap lost = {}
  BY DEF Uplink!OnePlace
<1>u. ASSUME delivered' = delivered PROVE Uplink!Elements(delivered)' = D
  BY <1>u
<1>1. ASSUME NEW S \in SUBSET InFlight, Uplink!Put(S) PROVE Uplink!OnePlace'
  <2>1. /\ accepted' = accepted + 1 /\ InFlight' = (InFlight \ S) \cup {accepted + 1}
        /\ lost' = lost \cup S /\ delivered' = delivered /\ S \subseteq InFlight
    BY <1>1 DEF Uplink!Put
  <2>2. Uplink!Elements(delivered)' = D
    BY <1>u, <2>1
  <2>3. 1 .. accepted + 1 = (1 .. accepted) \cup {accepted + 1} /\ accepted + 1 \notin 1 .. accepted
    OBVIOUS
  <2> HIDE DEF D
  <2>4. InFlight' \cup D \cup lost' = 1 .. accepted'
    BY <1>0, <2>1, <2>3
  <2>5. accepted + 1 \notin D /\ accepted + 1 \notin lost
    BY <1>0, <2>3
  <2>6. InFlight' \cap D = {} /\ InFlight' \cap lost' = {} /\ D \cap lost' = {}
    <3>1. \A x \in S : x # accepted + 1
      BY <1>0, <2>1, <2>3
    <3> QED
      BY <1>0, <2>1, <2>5, <3>1
  <2> QED
    BY <2>2, <2>4, <2>6 DEF Uplink!OnePlace
<1>2. ASSUME NEW S \in SUBSET InFlight, Uplink!Lose(S) PROVE Uplink!OnePlace'
  <2>1. /\ UNCHANGED <<accepted, delivered>> /\ InFlight' = InFlight \ S
        /\ lost' = lost \cup S /\ S \subseteq InFlight
    BY <1>2 DEF Uplink!Lose
  <2>2. Uplink!Elements(delivered)' = D
    BY <1>u, <2>1
  <2> HIDE DEF D
  <2> QED
    BY <1>0, <2>1, <2>2 DEF Uplink!OnePlace
<1>3. ASSUME NEW n \in 0 .. MUX_MAX_PACKETS, NEW s \in [1 .. n -> InFlight], Uplink!Get(s)
      PROVE  Uplink!OnePlace'
  <2>1. /\ UNCHANGED <<accepted, lost>> /\ InFlight' = InFlight \ Uplink!Elements(s)
        /\ delivered' = delivered \o s
    BY <1>3 DEF Uplink!Get
  <2>2. s \in Seq(Nat) /\ Uplink!Elements(s) \subseteq InFlight
    <3>1. DOMAIN s = 1 .. n /\ (\A k \in 1 .. n : s[k] \in InFlight) /\ n \in Nat
      OBVIOUS
    <3>2. \A k \in 1 .. n : s[k] \in Nat
      BY <3>1
    <3>3. s \in [1 .. n -> Nat]
      BY <3>2
    <3> QED
      BY <3>1, <3>3 DEF Uplink!Elements
  <2>3. Uplink!Elements(delivered \o s) = D \cup Uplink!Elements(s)
    BY <2>2, ElementsConcat
  <2>4. Uplink!Elements(delivered)' = D \cup Uplink!Elements(s)
    BY <2>1, <2>3
  <2> HIDE DEF D
  <2> QED
    BY <1>0, <2>1, <2>2, <2>4 DEF Uplink!OnePlace
<1>4. ASSUME UNCHANGED <<accepted, InFlight, delivered, lost>> PROVE Uplink!OnePlace'
  BY <1>4 DEF Uplink!OnePlace, Uplink!Elements
<1> QED
  BY <1>1, <1>2, <1>3, <1>4 DEF Uplink!Next

(* No packet the stack was told is sent is forgotten or duplicated: every  *)
(* one is in the driver, was delivered, or is lost, whatever the timer,    *)
(* the ring and the re-opening of the interface do.                        *)
THEOREM EveryPacketIsAccounted == Spec => []PacketsAccounted
<1>1. Init => PacketsAccounted
  <2> SUFFICES ASSUME Init PROVE PacketsAccounted
    OBVIOUS
  <2>1. queue = <<>> /\ ring = <<>> /\ accepted = 0 /\ delivered = <<>> /\ lost = {}
    BY DEF Init
  <2>2. InFlight = {} /\ Uplink!Elements(delivered) = {} /\ 1 .. 0 = {}
    BY <2>1 DEF InFlight, FrameIds, Ids, Uplink!Elements
  <2> QED
    BY <2>1, <2>2 DEF PacketsAccounted, Uplink!OnePlace
<1>2. TypeOK /\ PacketsAccounted /\ [Uplink!Next]_<<accepted, InFlight, delivered, lost>>
        => PacketsAccounted'
  <2> SUFFICES ASSUME TypeOK, PacketsAccounted,
                      [Uplink!Next]_<<accepted, InFlight, delivered, lost>>
               PROVE  PacketsAccounted'
    OBVIOUS
  <2>1. accepted \in Nat /\ delivered \in Seq(1 .. MaxPackets)
    BY NetTxAssumption DEF TypeOK
  <2>2. delivered \in Seq(Nat)
    BY <2>1, IdSeqs
  <2>3. InFlight \subseteq 1 .. accepted
    BY DEF PacketsAccounted, Uplink!OnePlace
  <2>4. InFlight \subseteq Nat
    BY <2>1, <2>3
  <2> QED
    BY <2>1, <2>2, <2>4, OnePlaceStep DEF PacketsAccounted
<1> QED
  BY <1>1, <1>2, TypesHold, TransmitIsTailDropChannel, PTL DEF Spec, UplinkChannel, Uplink!Spec

-----------------------------------------------------------------------------
(* The inductive invariant for the sequence numbers: a frame takes one, a  *)
(* queued packet will, and each frame has packets of its own.              *)
NumberInv == sequence + (IF queue = <<>> THEN 0 ELSE 1) <= accepted

LEMMA NumberStep == QueueTypes /\ NumberInv /\ [Next]_vars => NumberInv'
<1> SUFFICES ASSUME QueueTypes, NumberInv, [Next]_vars PROVE NumberInv'
  OBVIOUS
<1>0. accepted \in Nat /\ sequence \in Nat
  BY DEF QueueTypes
<1>1. ASSUME NEW len \in Lens, XmitQueue(len) PROVE NumberInv'
  <2>1. accepted' = accepted + 1 /\ sequence' = sequence
    BY <1>1 DEF XmitQueue
  <2> QED
    BY <1>0, <2>1 DEF NumberInv
<1>2. ASSUME NEW len \in Lens, XmitFlush(len) PROVE NumberInv'
  <2>1. accepted' = accepted + 1 /\ sequence' = sequence + IF queue = <<>> THEN 0 ELSE 1
    BY <1>2 DEF XmitFlush, Flush
  <2> QED
    BY <1>0, <2>1 DEF NumberInv
<1>3. ASSUME DeadlineCb PROVE NumberInv'
  <2>1. /\ accepted' = accepted /\ sequence' = sequence + IF queue = <<>> THEN 0 ELSE 1
        /\ queue' = <<>>
    BY <1>3 DEF DeadlineCb, Flush
  <2> QED
    BY <1>0, <2>1 DEF NumberInv
<1>4. ASSUME NetOpenPurge PROVE NumberInv'
  BY <1>0, <1>4 DEF NetOpenPurge, NumberInv
<1>5. ASSUME \/ \E len \in Lens : XmitFull(len)
             \/ XmitStep \/ TimerFire \/ TimerEnd \/ NetPoll \/ NetOpen \/ NetOpenControl
             \/ NetClose \/ ModemTake \/ ModemCrash \/ UNCHANGED vars
      PROVE NumberInv'
  <2>1. UNCHANGED <<queue, sequence, accepted>>
    BY <1>5 DEF XmitFull, XmitStep, XmitStop, XmitArm, TimerFire, TimerEnd, NetPoll, NetOpen,
       NetOpenControl, NetClose, ModemTake, ModemCrash, vars, qVars, logVars
  <2> QED
    BY <2>1 DEF NumberInv
<1> QED
  BY <1>1, <1>2, <1>3, <1>4, <1>5 DEF Next, TimerStep

(* At every sequence number the driver reaches, the frames of mux.py have  *)
(* the driver's layout, for every packet that fits and every page size,    *)
(* and the number of a data frame is the driver's modulo 256:              *)
(* PackageIsDataFrame and ControlIsControlFrame.                           *)
THEOREM SameUplinkAlways == Spec => []SameUplink
<1>1. Init => NumberInv
  BY DEF Init, NumberInv
<1>2. TypeOK => QueueTypes
  BY TypesSplit
<1>3. QueueTypes /\ NumberInv => SameUplink
  <2> SUFFICES ASSUME QueueTypes, NumberInv PROVE SameUplink
    OBVIOUS
  <2>1. sequence \in Sequences /\ sequence \in Nat
    BY NetTxAssumption DEF QueueTypes, NumberInv, Sequences
  <2>2. ASSUME NEW len \in UpLens, NEW more \in {0, 255}
        PROVE  /\ Layout(package((sequence + more) % 256, len))
                    = Layout(Pushed(DataFrame(sequence + more + 1, <<len>>)))
               /\ package((sequence + more) % 256, len).sequence
                    = Pushed(DataFrame(sequence + more + 1, <<len>>)).sequence % 256
    <3> DEFINE num == sequence + more + 1
               own == (sequence + more) % 256
    <3>1. NextSeq(own) = num % 256
      BY <2>1 DEF NextSeq
    <3> HIDE DEF num, own
    <3>2. /\ Layout(package(own, len)) = Layout(Pushed(DataFrame(num, <<len>>)))
          /\ package(own, len).sequence = NextSeq(own)
          /\ Pushed(DataFrame(num, <<len>>)).sequence = num
      BY <2>2, PackageIsDataFrame
    <3>3. package(own, len).sequence = Pushed(DataFrame(num, <<len>>)).sequence % 256
      BY <3>1, <3>2, Zenon
    <3> QED
      BY <3>2, <3>3, Zenon DEF num, own
  <2>3. Layout(control) = Layout(Pushed(ControlFrame(sequence)))
    BY NetTxAssumption, ControlIsControlFrame
  <2> DEFINE More == {0, 255}
             SameData(seq, len, more) ==
               /\ Layout(package((seq + more) % 256, len))
                    = Layout(Pushed(DataFrame(seq + more + 1, <<len>>)))
               /\ package((seq + more) % 256, len).sequence
                    = Pushed(DataFrame(seq + more + 1, <<len>>)).sequence % 256
             SameControl(seq) == Layout(control) = Layout(Pushed(ControlFrame(seq)))
  <2>4. (\A len \in UpLens, more \in More : SameData(sequence, len, more)) /\ SameControl(sequence)
    BY <2>2, <2>3
  <2>5. FramesAgree = [seq \in Sequences |->
                         (\A len \in UpLens, more \in More : SameData(seq, len, more)) /\ SameControl(seq)]
    BY DEF FramesAgree
  <2> HIDE DEF More, SameData, SameControl
  <2> QED
    BY <2>1, <2>4, <2>5, Zenon DEF SameUplink
<1> QED
  BY <1>1, <1>2, <1>3, NumberStep, TypesHold, PTL DEF Spec

(* At every sequence number the driver reaches, the two readers make the   *)
(* same packets of the modem's frames: ReadersReadTheSame.                 *)
THEOREM SameDownlinkAlways == Spec => []SameDownlink
<1>1. Init => NumberInv
  BY DEF Init, NumberInv
<1>2. TypeOK => QueueTypes
  BY TypesSplit
<1>3. QueueTypes /\ NumberInv => SameDownlink
  <2> SUFFICES ASSUME QueueTypes, NumberInv PROVE SameDownlink
    OBVIOUS
  <2>1. sequence \in Sequences
    BY NetTxAssumption DEF QueueTypes, NumberInv, Sequences
  <2>2. DownPackets \subseteq IpPackets
    BY DEF DownPackets, IpPackets
  <2>3. \A n \in 1 .. 3 : \A s \in [1 .. n -> DownPackets] : s \in [1 .. n -> IpPackets]
    BY <2>2
  <2>4. DownLists \subseteq Seq(IpPackets)
    <3>1. \A n \in 1 .. 3 : \A s \in [1 .. n -> IpPackets] : s \in Seq(IpPackets)
      BY ListIsSeq
    <3>2. \A s \in DownLists : \E n \in 1 .. 3 : s \in [1 .. n -> DownPackets]
      BY Zenon DEF DownLists
    <3> QED
      BY <2>3, <3>1, <3>2, Zenon
  <2>5. \A packets \in DownLists, trailer \in BOOLEAN :
          ReadersAgree(DownFrame(sequence, packets, trailer), packets, trailer)
    BY <2>4, ReadersReadTheSame
  <2> QED
    BY <2>1, <2>5, Zenon DEF SameDownlink, ReadersAgreeOn
<1> QED
  BY <1>1, <1>2, <1>3, NumberStep, TypesHold, PTL DEF Spec

=============================================================================
