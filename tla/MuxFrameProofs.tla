-------------------------- MODULE MuxFrameProofs ---------------------------
(***************************************************************************)
(* Proofs about MuxFrame and MuxPy: what xmm7360_net_flush builds from     *)
(* packets of any lengths, what mux.py builds, and what the two make of a  *)
(* frame of the modem, for every page size and every limit of packets.     *)
(***************************************************************************)
EXTENDS MuxPy, TLAPS, SequenceTheorems, WellFoundedInduction

(* Every set of naturals that is not empty has a least element.            *)
LEMMA LeastNat ==
  ASSUME NEW T, T \subseteq Nat, T # {}
  PROVE  \E x \in T : \A y \in T : x <= y
<1>1. IsWellFoundedOn(OpToRel(<, Nat), Nat)
  BY NatLessThanWellFounded
<1>2. IsWellFoundedOn(OpToRel(<, Nat), T)
  BY <1>1, IsWellFoundedOnSubset
<1>3. \E x \in T : \A y \in T : ~(<<y, x>> \in OpToRel(<, Nat))
  BY <1>2, WFMin
<1>4. \A x, y \in T : y < x => <<y, x>> \in OpToRel(<, Nat)
  BY DEF OpToRel
<1>5. \E x \in T : \A y \in T : ~(y < x)
  BY <1>3, <1>4, Zenon
<1> QED
  BY <1>5

(* Induction, for a set of naturals up to n instead of a predicate.        *)
LEMMA UpTo ==
  ASSUME NEW n \in Nat, NEW S, 0 \in S, \A k \in 1 .. n : k - 1 \in S => k \in S
  PROVE  \A k \in 0 .. n : k \in S
<1> DEFINE T == {k \in 0 .. n : k \notin S}
<1> SUFFICES ASSUME T # {} PROVE FALSE
  OBVIOUS
<1>0. T \subseteq Nat
  OBVIOUS
<1>1. PICK x \in T : \A y \in T : x <= y
  BY <1>0, LeastNat
<1>2. x \in 1 .. n /\ x - 1 \in 0 .. n
  BY <1>1
<1>3. x - 1 \in S
  BY <1>1, <1>2
<1> QED
  BY <1>1, <1>2, <1>3

-----------------------------------------------------------------------------
(* Padded is the function its definition says: the bytes of one packet     *)
(* more are its padding and its length.                                    *)
LEMMA PaddedIs ==
  ASSUME NEW lens \in Seq(Nat)
  PROVE  /\ Padded(lens) \in [0 .. Len(lens) -> Nat]
         /\ Padded(lens)[0] = 0
         /\ \A k \in 1 .. Len(lens) :
              Padded(lens)[k] = Padded(lens)[k - 1] + Padding + lens[k]
<1> DEFINE n == Len(lens)
           Sums(f, m) == f[0] = 0 /\ \A k \in 1 .. m : f[k] = f[k - 1] + Padding + lens[k]
           Summed(m) == \E f \in [0 .. m -> Nat] : Sums(f, m)
           S == {m \in 0 .. n : Summed(m)}
           Eq(f) == f = [k \in 0 .. n |-> IF k = 0 THEN 0 ELSE f[k - 1] + Padding + lens[k]]
<1>0. n \in Nat /\ \A k \in 1 .. n : lens[k] \in Nat
  OBVIOUS
<1>1. 0 \in S
  <2> DEFINE f == [k \in 0 .. 0 |-> 0]
  <2>1. f \in [0 .. 0 -> Nat] /\ Sums(f, 0)
    OBVIOUS
  <2>2. Summed(0)
    <3> HIDE DEF f, Sums
    <3> QED
      BY <2>1, Zenon
  <2> QED
    BY <1>0, <2>2
<1>2. ASSUME NEW m \in 1 .. n, m - 1 \in S PROVE m \in S
  <2>1. PICK f \in [0 .. m - 1 -> Nat] : Sums(f, m - 1)
    BY <1>2
  <2> DEFINE g == [k \in 0 .. m |-> IF k < m THEN f[k] ELSE f[m - 1] + Padding + lens[m]]
  <2>2. g \in [0 .. m -> Nat]
    BY <1>0, <2>1 DEF Padding
  <2>3. g[0] = 0
    BY <1>0, <2>1
  <2>4. \A k \in 1 .. m : g[k] = g[k - 1] + Padding + lens[k]
    BY <1>0, <2>1
  <2>5. Sums(g, m)
    BY <2>3, <2>4, Zenon
  <2>6. Summed(m)
    <3> HIDE DEF g, Sums
    <3> QED
      BY <2>2, <2>5, Zenon
  <2>7. m \in 0 .. n
    BY <1>0
  <2> QED
    BY <2>6, <2>7, Zenon
<1>3. n \in S
  <2>1. \A k \in 1 .. n : k - 1 \in S => k \in S
    BY <1>2
  <2>2. \A k \in 0 .. n : k \in S
    <3> HIDE DEF S
    <3> QED
      BY <1>0, <1>1, <2>1, UpTo
  <2>3. n \in 0 .. n
    BY <1>0
  <2> QED
    BY <2>2, <2>3, Zenon
<1>4. PICK f \in [0 .. n -> Nat] : Sums(f, n)
  BY <1>3, Zenon
<1>5. f = [k \in 0 .. n |-> IF k = 0 THEN 0 ELSE f[k - 1] + Padding + lens[k]]
  BY <1>0, <1>4
<1>6. Padded(lens) = CHOOSE g : Eq(g)
  BY Zenon DEF Padded
<1>7. Eq(Padded(lens))
  <2>1. \E g : Eq(g)
    BY <1>5
  <2> HIDE DEF Eq
  <2> QED
    BY <1>6, <2>1
<1> DEFINE p == Padded(lens)
<1>8. p[0] = 0 /\ \A k \in 1 .. n : p[k] = p[k - 1] + Padding + lens[k]
  <2>1. \A k \in 0 .. n : p[k] = IF k = 0 THEN 0 ELSE p[k - 1] + Padding + lens[k]
    BY <1>7, Zenon
  <2>2. 0 \in 0 .. n /\ \A k \in 1 .. n : k \in 0 .. n /\ k # 0
    BY <1>0
  <2> HIDE DEF p, n
  <2> QED
    BY <2>1, <2>2, Zenon
<1>9. \A k \in 0 .. n : p[k] \in Nat
  <2> DEFINE R == {k \in 0 .. n : p[k] \in Nat}
  <2>1. 0 \in R
    BY <1>0, <1>8
  <2>2. ASSUME NEW k \in 1 .. n, k - 1 \in R PROVE k \in R
    <3>1. k \in 0 .. n
      BY <1>0
    <3>2. p[k - 1] \in Nat /\ lens[k] \in Nat /\ p[k] = p[k - 1] + Padding + lens[k]
      BY <1>0, <1>8, <2>2, Zenon
    <3> HIDE DEF p
    <3>3. p[k] \in Nat
      BY <3>2 DEF Padding
    <3> QED
      BY <3>1, <3>3, Zenon
  <2>3. \A k \in 0 .. n : k \in R
    <3> HIDE DEF R
    <3> QED
      BY <1>0, <2>1, <2>2, UpTo
  <2> QED
    BY <2>3
<1> QED
  BY <1>7, <1>8, <1>9

(* More packets never take fewer bytes.                                    *)
LEMMA PaddedGrows ==
  ASSUME NEW lens \in Seq(Nat), NEW j \in 0 .. Len(lens), NEW k \in 0 .. Len(lens), j <= k
  PROVE  Padded(lens)[j] <= Padded(lens)[k]
<1> DEFINE n == Len(lens)
           p == Padded(lens)
           S == {m \in 0 .. n : j <= m => p[j] <= p[m]}
<1>p. /\ p \in [0 .. n -> Nat]
      /\ \A i \in 1 .. n : p[i] = p[i - 1] + Padding + lens[i]
  BY PaddedIs
<1> HIDE DEF p
<1>l. n \in Nat /\ \A i \in 1 .. n : lens[i] \in Nat
  OBVIOUS
<1> HIDE DEF n
<1>0. n \in Nat /\ j \in 0 .. n /\ k \in 0 .. n /\ \A i \in 0 .. n : p[i] \in Nat
  BY <1>p, <1>l DEF n
<1>1. \A i \in 1 .. n : p[i - 1] <= p[i]
  <2> SUFFICES ASSUME NEW i \in 1 .. n PROVE p[i - 1] <= p[i]
    OBVIOUS
  <2>1. p[i - 1] \in Nat /\ lens[i] \in Nat
    BY <1>0, <1>l
  <2> QED
    BY <1>p, <2>1 DEF Padding
<1>2. 0 \in S
  BY <1>0
<1>3. ASSUME NEW i \in 1 .. n, i - 1 \in S PROVE i \in S
  <2>1. p[i - 1] \in Nat /\ p[i] \in Nat /\ p[j] \in Nat /\ p[i - 1] <= p[i]
    BY <1>0, <1>1
  <2>2. j <= i - 1 => p[j] <= p[i - 1]
    BY <1>3
  <2>3. j <= i => j <= i - 1 \/ j = i
    BY <1>0
  <2> QED
    BY <1>0, <2>1, <2>2, <2>3
<1>4. \A i \in 0 .. n : i \in S
  <2> HIDE DEF S
  <2> QED
    BY <1>0, <1>2, <1>3, UpTo
<1> QED
  BY <1>0, <1>4 DEF p

(* One packet more.                                                        *)
LEMMA PaddedAppend ==
  ASSUME NEW lens \in Seq(Nat), NEW len \in Nat
  PROVE  /\ Append(lens, len) \in Seq(Nat)
         /\ Padded(Append(lens, len))[Len(lens) + 1] = Padded(lens)[Len(lens)] + Padding + len
<1> DEFINE n == Len(lens)
           more == Append(lens, len)
           p == Padded(lens)
           q == Padded(more)
           S == {m \in 0 .. n : p[m] = q[m]}
<1>0. n \in Nat /\ more \in Seq(Nat) /\ Len(more) = n + 1 /\ more[n + 1] = len
      /\ \A i \in 1 .. n : more[i] = lens[i]
  OBVIOUS
<1>1. p[0] = 0 /\ \A k \in 1 .. n : p[k] = p[k - 1] + Padding + lens[k]
  BY PaddedIs
<1>2. q[0] = 0 /\ \A k \in 1 .. n + 1 : q[k] = q[k - 1] + Padding + more[k]
  BY <1>0, PaddedIs
<1> HIDE DEF p, q, more
<1>3. 0 \in S
  BY <1>0, <1>1, <1>2
<1>4. \A i \in 1 .. n : i - 1 \in S => i \in S
  BY <1>0, <1>1, <1>2
<1>5. \A i \in 0 .. n : i \in S
  <2> HIDE DEF S
  <2> QED
    BY <1>0, <1>3, <1>4, UpTo
<1>6. p[n] = q[n]
  BY <1>0, <1>5
<1>7. q[n + 1] = q[n] + Padding + len
  BY <1>0, <1>2
<1> QED
  BY <1>0, <1>6, <1>7 DEF p, q, more

-----------------------------------------------------------------------------
(* A frame of m bytes that has only its first tag and these bounds.        *)
DataPart(seq, m, bs) ==
  [ok |-> TRUE, sequence |-> seq, n_bytes |-> m, bounds |-> bs,
   tags |-> <<[tag |-> "ADBH", offset |-> 0, length |-> m]>>]

(* The frame with the first k packets in it, written down at once.         *)
BoundsOf(lens, k) ==
  [j \in 1 .. k |-> [offset |-> FirstHeader + Padded(lens)[j - 1], length |-> lens[j] + Padding]]
FrameWith(seq, lens, k) == DataPart(seq, FirstHeader + Padded(lens)[k], BoundsOf(lens, k))

(* The packets fit a frame.                                                *)
Fits(lens) ==
  /\ FrameBytes(Len(lens), Padded(lens)[Len(lens)]) <= MaxSize
  /\ Len(lens) <= MUX_MAX_PACKETS

(* Alignment only adds bytes, to a multiple of four.                       *)
LEMMA AlignedIs ==
  ASSUME NEW x \in Nat
  PROVE  Aligned(x) \in Nat /\ x <= Aligned(x) /\ Aligned(x) <= x + 3 /\ Aligned(x) % 4 = 0
  BY DEF Aligned

(* An empty frame takes its first tag.                                     *)
LEMMA FirstTag ==
  ASSUME NEW seq, NEW lens \in Seq(Nat), Fits(lens)
  PROVE  AddTag(FrameInit(seq), "ADBH", 0) = FrameWith(seq, lens, 0)
<1>1. Len(lens) \in Nat /\ Padded(lens)[Len(lens)] \in Nat /\ Padded(lens)[0] = 0
  BY PaddedIs
<1>2. FirstHeader <= MaxSize
  <2> DEFINE n == Len(lens)  b == Padded(lens)[n]
  <2>1. FrameBytes(n, b) <= MaxSize
    BY DEF Fits
  <2> HIDE DEF n, b
  <2>2. n \in Nat /\ b \in Nat
    BY <1>1 DEF n, b
  <2> DEFINE m == FirstHeader + b
  <2>3. m <= Aligned(m) /\ Aligned(m) \in Nat
    <3>1. m \in Nat
      BY <2>2 DEF FirstHeader
    <3> QED
      BY <3>1, AlignedIs, Zenon
  <2>4. FrameBytes(n, b) >= Aligned(FirstHeader + b)
    BY <2>2, <2>3 DEF FrameBytes, NextHeader, BoundsSize
  <2> QED
    BY <2>1, <2>2, <2>3, <2>4, MuxFrameAssumption DEF FirstHeader, FrameBytes, NextHeader, BoundsSize
<1>3. AddTag(FrameInit(seq), "ADBH", 0)
        = [ok |-> TRUE, sequence |-> seq, n_bytes |-> FirstHeader, bounds |-> <<>>,
           tags |-> <<[tag |-> "ADBH", offset |-> 0, length |-> FirstHeader]>>]
  <2> DEFINE f == FrameInit(seq)
  <2>1. f.ok /\ f.n_bytes = 0 /\ f.tags = <<>> /\ Aligned(0) = 0
    BY DEF FrameInit, Aligned
  <2>2. 0 + FirstHeader = FirstHeader /\ ~(0 + FirstHeader > MaxSize)
    BY <1>2, MuxFrameAssumption DEF FirstHeader
  <2>3. AddTag(f, "ADBH", 0)
          = [f EXCEPT !.n_bytes = FirstHeader,
                      !.tags = Append(<<>>, [tag |-> "ADBH", offset |-> 0, length |-> FirstHeader])]
    BY <2>1, <2>2 DEF AddTag
  <2>4. Append(<<>>, [tag |-> "ADBH", offset |-> 0, length |-> FirstHeader])
          = <<[tag |-> "ADBH", offset |-> 0, length |-> FirstHeader]>>
    OBVIOUS
  <2> QED
    BY <2>3, <2>4 DEF FrameInit
<1>4. BoundsOf(lens, 0) = <<>>
  BY DEF BoundsOf
<1>5. FirstHeader + Padded(lens)[0] = FirstHeader
  BY <1>1 DEF FirstHeader
<1> QED
  BY <1>3, <1>4, <1>5, Zenon DEF FrameWith, DataPart

(* append_data adds to the size of the frame and of its only tag.          *)
LEMMA AppendedData ==
  ASSUME NEW seq, NEW bs, NEW m \in Nat, NEW d \in Nat, m + d <= MaxSize
  PROVE  AppendData(DataPart(seq, m, bs), d) = DataPart(seq, m + d, bs)
<1> DEFINE g == DataPart(seq, m, bs)
           tag(x) == [tag |-> "ADBH", offset |-> 0, length |-> x]
<1>1. g.ok /\ g.n_bytes = m /\ g.tags = <<tag(m)>> /\ Len(g.tags) = 1
  BY DEF DataPart
<1>2. ~(m + d > MaxSize)
  BY MuxFrameAssumption
<1>3. AppendData(g, d) = [g EXCEPT !.n_bytes = @ + d, !.tags[1].length = @ + d]
  BY <1>1, <1>2 DEF AppendData
<1>4. [<<tag(m)>> EXCEPT ![1].length = @ + d] = <<tag(m + d)>>
  OBVIOUS
<1> QED
  BY <1>3, <1>4 DEF DataPart

(* A frame with other bounds.                                              *)
LEMMA Rebound ==
  ASSUME NEW seq, NEW m, NEW bs, NEW more
  PROVE  [DataPart(seq, m, bs) EXCEPT !.bounds = more] = DataPart(seq, m, more)
<1> DEFINE Record(ok, b, tags) == [ok |-> ok, sequence |-> seq, n_bytes |-> m, bounds |-> b, tags |-> tags]
<1>1. ASSUME NEW ok, NEW tags
      PROVE  [Record(ok, bs, tags) EXCEPT !.bounds = more] = Record(ok, more, tags)
  OBVIOUS
<1>2. \A tags : [Record(TRUE, bs, tags) EXCEPT !.bounds = more] = Record(TRUE, more, tags)
  <2> HIDE DEF Record
  <2> QED
    BY <1>1
<1> QED
  BY <1>2, Zenon DEF DataPart

(* A packet for which append_packet finds room is in the frame after it.   *)
LEMMA AppendedPacket ==
  ASSUME NEW seq, NEW m \in Nat, NEW len \in Nat, NEW bs \in Seq([offset : Nat, length : Nat]),
         Len(bs) < MUX_MAX_PACKETS,
         m + Padding + len + NextHeader + 4 + BoundsSize * (Len(bs) + 1) <= MaxSize
  PROVE  AppendPacket(DataPart(seq, m, bs), len)
           = DataPart(seq, m + Padding + len,
                      Append(bs, [offset |-> m, length |-> len + Padding]))
<1> DEFINE f == DataPart(seq, m, bs)
           more == Append(bs, [offset |-> m, length |-> len + Padding])
<1>1. f.ok /\ f.n_bytes = m /\ f.bounds = bs
  BY DEF DataPart
<1>2. [f EXCEPT !.bounds = Append(@, [offset |-> f.n_bytes, length |-> len + Padding])]
        = DataPart(seq, m, more)
  <2>1. Append(f.bounds, [offset |-> f.n_bytes, length |-> len + Padding]) = more
    BY <1>1, Zenon
  <2> HIDE DEF more
  <2>2. [f EXCEPT !.bounds = more] = DataPart(seq, m, more)
    BY Rebound
  <2> HIDE DEF f
  <2> QED
    BY <2>1, <2>2
<1>3. /\ Len(bs) \in Nat /\ ~(Len(bs) >= MUX_MAX_PACKETS)
      /\ ~(m + len + Padding + NextHeader + 4 + (Len(bs) + 1) * BoundsSize > MaxSize)
      /\ m + Padding \in Nat /\ Padding \in Nat
      /\ m + Padding <= MaxSize /\ m + Padding + len <= MaxSize
  <2>1. Len(bs) \in Nat
    OBVIOUS
  <2> QED
    BY <2>1, MuxFrameAssumption DEF Padding, NextHeader, BoundsSize
<1> HIDE DEF f, more
<1>4. AppendPacket(f, len) = AppendData(AppendData(DataPart(seq, m, more), Padding), len)
  BY <1>1, <1>2, <1>3, Zenon DEF AppendPacket
<1>5. AppendData(DataPart(seq, m, more), Padding) = DataPart(seq, m + Padding, more)
  BY <1>3, AppendedData
<1>6. AppendData(DataPart(seq, m + Padding, more), len) = DataPart(seq, m + Padding + len, more)
  BY <1>3, AppendedData
<1> QED
  BY <1>4, <1>5, <1>6, Zenon DEF f, more

(* The size of the beginning of a frame, from the size of the whole.       *)
LEMMA BeginningFits ==
  ASSUME NEW n \in Nat, NEW k \in 1 .. n, NEW b \in Nat, NEW bytes \in Nat, b <= bytes,
         FrameBytes(n, bytes) <= MaxSize
  PROVE  FirstHeader + b + NextHeader + 4 + BoundsSize * k <= MaxSize
<1>1. FirstHeader + bytes \in Nat /\ FirstHeader + bytes <= Aligned(FirstHeader + bytes)
      /\ Aligned(FirstHeader + bytes) \in Nat
  <2>1. FirstHeader + bytes \in Nat
    BY DEF FirstHeader
  <2> QED
    BY <2>1, AlignedIs, Zenon
<1> QED
  BY <1>1, MuxFrameAssumption DEF FrameBytes, FirstHeader, NextHeader, BoundsSize

(* The same for the tests append_packet makes of packet k, of this length. *)
LEMMA PacketFits ==
  ASSUME NEW n \in Nat, NEW k \in 1 .. n, NEW b \in Nat, NEW len \in Nat, NEW q \in Nat,
         q = b + Padding + len, n <= MUX_MAX_PACKETS,
         FirstHeader + q + NextHeader + 4 + BoundsSize * k <= MaxSize
  PROVE  /\ FirstHeader + b \in Nat /\ k - 1 < MUX_MAX_PACKETS
         /\ FirstHeader + b + Padding + len + NextHeader + 4 + BoundsSize * (k - 1 + 1) <= MaxSize
         /\ FirstHeader + b + Padding + len = FirstHeader + q
  BY MuxFrameAssumption DEF FirstHeader, NextHeader, BoundsSize, Padding

(* The bounds of one packet.                                               *)
LEMMA BoundTypes ==
  ASSUME NEW b \in Nat, NEW len \in Nat
  PROVE  [offset |-> FirstHeader + b, length |-> len + Padding] \in [offset : Nat, length : Nat]
  BY DEF FirstHeader, Padding

(* The facts about a list of packets that the next proofs need.            *)
LEMMA Sizes ==
  ASSUME NEW lens \in Seq(Nat), NEW k \in 1 .. Len(lens)
  PROVE  /\ Len(lens) \in Nat /\ lens[k] \in Nat
         /\ Padded(lens)[k - 1] \in Nat /\ Padded(lens)[k] \in Nat
         /\ Padded(lens)[Len(lens)] \in Nat
         /\ Padded(lens)[k] = Padded(lens)[k - 1] + Padding + lens[k]
         /\ Padded(lens)[k] <= Padded(lens)[Len(lens)]
<1> DEFINE n == Len(lens)
           p == Padded(lens)
<1>1. n \in Nat /\ k \in 0 .. n /\ k - 1 \in 0 .. n /\ n \in 0 .. n /\ k <= n /\ lens[k] \in Nat
  OBVIOUS
<1>2. p[k] <= p[n]
  BY <1>1, PaddedGrows
<1>3. p \in [0 .. n -> Nat] /\ p[k] = p[k - 1] + Padding + lens[k]
  BY PaddedIs
<1> HIDE DEF p
<1>4. p[k] \in Nat /\ p[k - 1] \in Nat /\ p[n] \in Nat
  BY <1>1, <1>3, Zenon
<1> QED
  BY <1>1, <1>2, <1>3, <1>4 DEF p

(* While the packets fit, none of append_packet's tests fails.             *)
LEMMA NextPacket ==
  ASSUME NEW seq, NEW lens \in Seq(Nat), Fits(lens), NEW k \in 1 .. Len(lens)
  PROVE  AppendPacket(FrameWith(seq, lens, k - 1), lens[k]) = FrameWith(seq, lens, k)
<1> DEFINE n == Len(lens)
           b == Padded(lens)[k - 1]
           bs == BoundsOf(lens, k - 1)
<1>1. /\ n \in Nat /\ k \in 1 .. n /\ lens[k] \in Nat /\ b \in Nat
      /\ Padded(lens)[k] \in Nat /\ Padded(lens)[n] \in Nat
      /\ Padded(lens)[k] = b + Padding + lens[k] /\ Padded(lens)[k] <= Padded(lens)[n]
  BY Sizes
<1>2. /\ FirstHeader + Padded(lens)[k] + NextHeader + 4 + BoundsSize * k <= MaxSize
      /\ n <= MUX_MAX_PACKETS
  BY <1>1, BeginningFits DEF Fits
<1>3. \A j \in 1 .. k : Padded(lens)[j - 1] \in Nat /\ lens[j] \in Nat
  <2> SUFFICES ASSUME NEW j \in 1 .. k PROVE Padded(lens)[j - 1] \in Nat /\ lens[j] \in Nat
    OBVIOUS
  <2>1. j \in 1 .. n
    BY <1>1
  <2> QED
    BY <2>1, Sizes
<1>4. /\ bs \in Seq([offset : Nat, length : Nat]) /\ Len(bs) = k - 1
      /\ Append(bs, [offset |-> FirstHeader + b, length |-> lens[k] + Padding]) = BoundsOf(lens, k)
  <2> DEFINE e(j) == [offset |-> FirstHeader + Padded(lens)[j - 1], length |-> lens[j] + Padding]
  <2>1. \A j \in 1 .. k : e(j) \in [offset : Nat, length : Nat]
    BY <1>3, BoundTypes
  <2>2. bs = [j \in 1 .. k - 1 |-> e(j)] /\ BoundsOf(lens, k) = [j \in 1 .. k |-> e(j)]
    BY Zenon DEF BoundsOf
  <2>3. e(k) = [offset |-> FirstHeader + b, length |-> lens[k] + Padding]
    OBVIOUS
  <2> HIDE DEF e, bs
  <2>4. k \in Nat /\ k >= 1
    BY <1>1
  <2>5. bs \in Seq([offset : Nat, length : Nat]) /\ Len(bs) = k - 1
    BY <2>1, <2>2, <2>4
  <2>6. Append(bs, e(k)) = [j \in 1 .. k |-> e(j)]
    BY <2>2, <2>4, <2>5
  <2> QED
    BY <2>2, <2>3, <2>5, <2>6
<1>5. /\ FirstHeader + b \in Nat /\ k - 1 < MUX_MAX_PACKETS
      /\ FirstHeader + b + Padding + lens[k] + NextHeader + 4 + BoundsSize * (k - 1 + 1) <= MaxSize
      /\ FirstHeader + b + Padding + lens[k] = FirstHeader + Padded(lens)[k]
  <2> HIDE DEF b, n
  <2> QED
    BY <1>1, <1>2, PacketFits
<1>6. AppendPacket(DataPart(seq, FirstHeader + b, bs), lens[k])
        = DataPart(seq, FirstHeader + b + Padding + lens[k],
                   Append(bs, [offset |-> FirstHeader + b, length |-> lens[k] + Padding]))
  <2> HIDE DEF b, bs
  <2>1. /\ FirstHeader + b \in Nat /\ Len(bs) < MUX_MAX_PACKETS
        /\ FirstHeader + b + Padding + lens[k] + NextHeader + 4 + BoundsSize * (Len(bs) + 1) <= MaxSize
    BY <1>4, <1>5, Zenon
  <2> QED
    BY <1>1, <1>4, <2>1, AppendedPacket
<1> QED
  BY <1>4, <1>5, <1>6, Zenon DEF FrameWith

(* net_flush's loop: every packet gets in, at the offset the packets       *)
(* before it leave it.                                                     *)
LEMMA FilledIs ==
  ASSUME NEW seq, NEW lens \in Seq(Nat), Fits(lens)
  PROVE  Filled(seq, lens)[Len(lens)] = FrameWith(seq, lens, Len(lens))
<1> DEFINE n == Len(lens)
           first == AddTag(FrameInit(seq), "ADBH", 0)
           Eq(f) == f = [k \in 0 .. n |-> IF k = 0 THEN first ELSE AppendPacket(f[k - 1], lens[k])]
           w == [k \in 0 .. n |-> FrameWith(seq, lens, k)]
           f == Filled(seq, lens)
           S == {k \in 0 .. n : f[k] = FrameWith(seq, lens, k)}
<1>0. n \in Nat /\ n \in 0 .. n /\ 0 \in 0 .. n /\ \A k \in 1 .. n : k # 0 /\ k \in 0 .. n /\ k - 1 \in 0 .. n
  OBVIOUS
<1>1. first = FrameWith(seq, lens, 0)
  BY FirstTag
<1>2. \A k \in 1 .. n : AppendPacket(FrameWith(seq, lens, k - 1), lens[k]) = FrameWith(seq, lens, k)
  BY NextPacket
<1> HIDE DEF first, n
<1>3. Eq(w)
  <2>1. \A k \in 0 .. n : k # 0 => k \in 1 .. n
    BY <1>0
  <2>2. \A k \in 0 .. n : w[k] = IF k = 0 THEN first ELSE AppendPacket(w[k - 1], lens[k])
    BY <1>0, <1>1, <1>2, <2>1, Zenon
  <2> QED
    BY <2>2, Zenon
<1>4. f = CHOOSE g : Eq(g)
  BY Zenon DEF Filled, first, n
<1>5. Eq(f)
  <2>1. \E g : Eq(g)
    BY <1>3, Zenon
  <2> HIDE DEF Eq
  <2> QED
    BY <1>4, <2>1, Zenon
<1> HIDE DEF f
<1>6. 0 \in S
  BY <1>0, <1>1, <1>5, Zenon
<1>7. ASSUME NEW k \in 1 .. n, k - 1 \in S PROVE k \in S
  <2>1. f[k] = AppendPacket(f[k - 1], lens[k])
    BY <1>0, <1>5, Zenon
  <2>2. f[k - 1] = FrameWith(seq, lens, k - 1)
    BY <1>7, Zenon
  <2> QED
    BY <1>0, <1>2, <2>1, <2>2, Zenon
<1>8. \A k \in 0 .. n : k \in S
  <2> HIDE DEF S
  <2> QED
    BY <1>0, <1>6, <1>7, UpTo
<1> QED
  BY <1>0, <1>8, Zenon DEF f, n

(* A frame with both tags, the second of x bytes, and append_data to it.   *)
TwoTags(seq, head, at, x, bs) ==
  [ok |-> TRUE, sequence |-> seq, n_bytes |-> at + x, bounds |-> bs,
   tags |-> <<head, [tag |-> "ADTH", offset |-> at, length |-> x]>>]

(* append_data adds to the size of the frame and of its second tag.        *)
LEMMA AppendedBounds ==
  ASSUME NEW seq, NEW bs, NEW head, NEW at \in Nat, NEW x \in Nat, NEW d \in Nat,
         at + (x + d) <= MaxSize
  PROVE  AppendData(TwoTags(seq, head, at, x, bs), d) = TwoTags(seq, head, at, x + d, bs)
<1> DEFINE g == TwoTags(seq, head, at, x, bs)
           tag(y) == [tag |-> "ADTH", offset |-> at, length |-> y]
<1>1. g.ok /\ g.n_bytes = at + x /\ g.tags = <<head, tag(x)>> /\ Len(g.tags) = 2
  BY DEF TwoTags
<1>2. ~(at + x + d > MaxSize) /\ at + x + d = at + (x + d)
  BY MuxFrameAssumption
<1>3. AppendData(g, d) = [g EXCEPT !.n_bytes = @ + d, !.tags[2].length = @ + d]
  BY <1>1, <1>2 DEF AppendData
<1>4. [<<head, tag(x)>> EXCEPT ![2].length = @ + d] = <<head, tag(x + d)>>
  <2>1. tag(x).length = x /\ [tag(x) EXCEPT !.length = x + d] = tag(x + d)
    OBVIOUS
  <2>2. \A y, z : [<<head, y>> EXCEPT ![2] = z] = <<head, z>> /\ <<head, y>>[2] = y
    OBVIOUS
  <2> HIDE DEF tag
  <2> QED
    BY <2>1, <2>2
<1> QED
  BY <1>2, <1>3, <1>4 DEF TwoTags

(* A sequence of two.                                                      *)
LEMMA AppendOne == ASSUME NEW x, NEW y PROVE Append(<<x>>, y) = <<x, y>>
<1> DEFINE S == {x, y}
<1>1. x \in S /\ y \in S
  OBVIOUS
<1> HIDE DEF S
<1>2. /\ <<x>> \in Seq(S) /\ Len(<<x>>) = 1 /\ <<x>>[1] = x
      /\ <<x, y>> \in Seq(S) /\ Len(<<x, y>>) = 2 /\ <<x, y>>[1] = x /\ <<x, y>>[2] = y
  BY <1>1
<1>3. /\ Append(<<x>>, y) \in Seq(S) /\ Len(Append(<<x>>, y)) = 2
      /\ Append(<<x>>, y)[1] = x /\ Append(<<x>>, y)[2] = y
  BY <1>1, <1>2
<1>4. \A i \in 1 .. 2 : Append(<<x>>, y)[i] = <<x, y>>[i]
  BY <1>2, <1>3
<1> QED
  BY <1>2, <1>3, <1>4, SeqEqual, Zenon

(* The whole frame: a second tag after the packets, and their bounds.      *)
LEMMA DataFrameIs ==
  ASSUME NEW seq, NEW lens \in Seq(Nat), Fits(lens)
  PROVE  LET at   == Aligned(FirstHeader + Padded(lens)[Len(lens)])
             size == NextHeader + 4 + BoundsSize * Len(lens)
             f    == DataFrame(seq, lens)
         IN /\ f.ok /\ f.n_bytes = at + size /\ f.bounds = BoundsOf(lens, Len(lens))
            /\ f.tags[1].tag = "ADBH"
            /\ f.tags[2] = [tag |-> "ADTH", offset |-> at, length |-> size]
            /\ f = TwoTags(seq, [tag |-> "ADBH", offset |-> 0,
                                 length |-> FirstHeader + Padded(lens)[Len(lens)]],
                           at, size, BoundsOf(lens, Len(lens)))
<1> DEFINE n    == Len(lens)
           m    == FirstHeader + Padded(lens)[n]
           at   == Aligned(m)
           bs   == BoundsOf(lens, n)
           head == [tag |-> "ADBH", offset |-> 0, length |-> m]
           adth(x) == [tag |-> "ADTH", offset |-> at, length |-> x]
           packets == FrameWith(seq, lens, n)
           whole(x) == TwoTags(seq, head, at, x, bs)
<1>1. /\ n \in Nat /\ m \in Nat /\ m # 0 /\ at \in Nat
      /\ at + (NextHeader + 4 + BoundsSize * n) <= MaxSize
  <2>1. n \in Nat /\ Padded(lens)[n] \in Nat
    BY PaddedIs
  <2>2. FrameBytes(n, Padded(lens)[n]) <= MaxSize
    BY DEF Fits
  <2> DEFINE b == Padded(lens)[n]
  <2> HIDE DEF b, n
  <2>3. FirstHeader + b \in Nat /\ FirstHeader + b # 0 /\ Aligned(FirstHeader + b) \in Nat
    <3>1. FirstHeader + b \in Nat /\ FirstHeader + b # 0
      BY <2>1 DEF FirstHeader, b
    <3> QED
      BY <3>1, AlignedIs, Zenon
  <2>4. Aligned(FirstHeader + b) + (NextHeader + 4 + BoundsSize * n) = FrameBytes(n, b)
    BY <2>1, <2>3 DEF FrameBytes, NextHeader, BoundsSize
  <2> QED
    BY <2>1, <2>2, <2>3, <2>4 DEF b
<1>2. packets = DataPart(seq, m, bs)
  BY Zenon DEF FrameWith
<1> HIDE DEF m, n, at, bs, packets
<1>3. AddTag(packets, "ADTH", 4) = whole(NextHeader + 4)
  <2>1. /\ packets.ok /\ packets.n_bytes = m /\ packets.tags = <<head>>
    BY <1>2 DEF DataPart
  <2>2. 4 + NextHeader = NextHeader + 4 /\ ~(at + (NextHeader + 4) > MaxSize)
    BY <1>1, MuxFrameAssumption DEF NextHeader, BoundsSize
  <2>3. AddTag(packets, "ADTH", 4)
          = [packets EXCEPT !.n_bytes = at + (NextHeader + 4),
                            !.tags = Append(@, adth(NextHeader + 4))]
    BY <1>1, <2>1, <2>2, Zenon DEF AddTag, at
  <2>4. Append(<<head>>, adth(NextHeader + 4)) = <<head, adth(NextHeader + 4)>>
    BY AppendOne
  <2> QED
    BY <1>2, <2>3, <2>4 DEF DataPart, TwoTags
<1>4. AppendData(whole(NextHeader + 4), BoundsSize * n) = whole(NextHeader + 4 + BoundsSize * n)
  <2>1. NextHeader + 4 \in Nat /\ BoundsSize * n \in Nat
    BY <1>1 DEF NextHeader, BoundsSize
  <2> HIDE DEF head
  <2>2. ASSUME NEW x \in Nat, NEW d \in Nat, at + (x + d) <= MaxSize
        PROVE  AppendData(whole(x), d) = whole(x + d)
    <3>1. at \in Nat
      BY <1>1
    <3>2. ASSUME NEW y, NEW b
          PROVE  AppendData(TwoTags(seq, y, at, x, b), d) = TwoTags(seq, y, at, x + d, b)
      BY <2>2, <3>1, AppendedBounds
    <3> QED
      BY <3>2, Zenon
  <2> HIDE DEF whole
  <2> QED
    BY <1>1, <2>1, <2>2, Zenon
<1>5. DataFrame(seq, lens) = whole(NextHeader + 4 + BoundsSize * n)
  <2>1. packets.ok
    BY <1>2 DEF DataPart
  <2>2. Filled(seq, lens)[n] = packets
    BY FilledIs, Zenon DEF packets, n
  <2> QED
    BY <1>3, <1>4, <2>1, <2>2, Zenon DEF DataFrame, n
<1>6. ASSUME NEW x
      PROVE  /\ whole(x).ok /\ whole(x).n_bytes = at + x /\ whole(x).bounds = bs
             /\ whole(x).tags[1].tag = "ADBH" /\ whole(x).tags[2] = adth(x)
  BY DEF TwoTags
<1> DEFINE size == NextHeader + 4 + BoundsSize * n
           f == DataFrame(seq, lens)
<1>7. /\ f.ok /\ f.n_bytes = at + size /\ f.bounds = bs
      /\ f.tags[1].tag = "ADBH" /\ f.tags[2] = adth(size)
  <2> HIDE DEF whole, adth
  <2> QED
    BY <1>5, <1>6, Zenon
<1>8. f = TwoTags(seq, head, at, size, bs)
  BY <1>5, Zenon
<1> QED
  BY <1>7, <1>8, Zenon DEF m, n, at, bs

(* The end of a packet, in a frame whose second tag is at this offset.     *)
LEMMA PacketEnds ==
  ASSUME NEW x \in Nat, NEW y \in Nat, NEW z \in Nat, NEW len \in Nat, NEW at \in Nat,
         y = x + Padding + len, y <= z, FirstHeader + z <= at
  PROVE  /\ FirstHeader + x >= FirstHeader
         /\ FirstHeader + x + (len + Padding) <= FirstHeader + y
         /\ FirstHeader + x + (len + Padding) <= at
  BY DEF FirstHeader, Padding

(* xmm7360_net_flush always gets a whole, readable frame out of packets    *)
(* that fit, whatever their lengths: no operation on the frame fails, ADTH *)
(* is aligned, and the bounds cover the packets one after the other.       *)
THEOREM FlushBuildsFrame ==
  ASSUME NEW seq, NEW lens \in Seq(Nat), Fits(lens)
  PROVE  DataFrame(seq, lens).ok /\ WellFormed(DataFrame(seq, lens), lens)
<1> DEFINE n    == Len(lens)
           at   == Aligned(FirstHeader + Padded(lens)[n])
           size == NextHeader + 4 + BoundsSize * n
           f    == DataFrame(seq, lens)
<1>1. /\ f.ok /\ f.n_bytes = at + size /\ f.bounds = BoundsOf(lens, n)
      /\ f.tags[1].tag = "ADBH" /\ f.tags[2] = [tag |-> "ADTH", offset |-> at, length |-> size]
  BY DataFrameIs
<1>2. n \in Nat /\ Padded(lens)[n] \in Nat
  BY PaddedIs
<1>3. /\ at \in Nat /\ at % 4 = 0 /\ FirstHeader + Padded(lens)[n] <= at
      /\ size \in Nat /\ at + size <= MaxSize /\ (size - NextHeader - 4) \div BoundsSize = n
  <2> DEFINE b == Padded(lens)[n]
  <2>0. FrameBytes(n, b) <= MaxSize
    BY DEF Fits
  <2> HIDE DEF b, n
  <2>1. n \in Nat /\ b \in Nat
    BY <1>2 DEF b
  <2> DEFINE m == FirstHeader + b
  <2>2. Aligned(m) \in Nat /\ Aligned(m) % 4 = 0 /\ m <= Aligned(m)
    <3>1. m \in Nat
      BY <2>1 DEF FirstHeader
    <3> QED
      BY <3>1, AlignedIs, Zenon
  <2>3. size \in Nat /\ (size - NextHeader - 4) \div BoundsSize = n
    BY <2>1 DEF NextHeader, BoundsSize
  <2>4. Aligned(FirstHeader + b) + size <= MaxSize
    BY <2>0, <2>1, <2>2 DEF FrameBytes, NextHeader, BoundsSize
  <2> QED
    BY <2>2, <2>3, <2>4 DEF b
<1>b. \A j \in 1 .. n :
        f.bounds[j] = [offset |-> FirstHeader + Padded(lens)[j - 1], length |-> lens[j] + Padding]
  <2>1. f.bounds = BoundsOf(lens, n)
    BY <1>1, Zenon
  <2> HIDE DEF f, n
  <2> QED
    BY <2>1, Zenon DEF BoundsOf
<1>4. ASSUME NEW k \in 1 .. n
      PROVE  /\ f.bounds[k].length = lens[k] + Padding
             /\ f.bounds[k].offset >= FirstHeader
             /\ f.bounds[k].offset + f.bounds[k].length
                  <= IF k < n THEN f.bounds[k + 1].offset ELSE at
  <2> DEFINE x == Padded(lens)[k - 1]
             y == Padded(lens)[k]
  <2>1. f.bounds[k] = [offset |-> FirstHeader + x, length |-> lens[k] + Padding]
    BY <1>b, Zenon
  <2>2. k < n => f.bounds[k + 1].offset = FirstHeader + y
    <3> SUFFICES ASSUME k < n PROVE f.bounds[k + 1].offset = FirstHeader + y
      OBVIOUS
    <3>1. k + 1 \in 1 .. n /\ (k + 1) - 1 = k
      BY <1>2
    <3>2. f.bounds[k + 1] = [offset |-> FirstHeader + Padded(lens)[(k + 1) - 1],
                             length |-> lens[k + 1] + Padding]
      <4> HIDE DEF f, n
      <4> QED
        BY <1>b, <3>1, Zenon
    <3>3. f.bounds[k + 1] = [offset |-> FirstHeader + y, length |-> lens[k + 1] + Padding]
      BY <3>1, <3>2, Zenon
    <3> HIDE DEF f, y
    <3> QED
      BY <3>3
  <2>3. x \in Nat /\ y \in Nat /\ lens[k] \in Nat /\ y = x + Padding + lens[k]
        /\ y <= Padded(lens)[n]
    BY Sizes
  <2>4. /\ FirstHeader + x >= FirstHeader
        /\ FirstHeader + x + (lens[k] + Padding) <= FirstHeader + y
        /\ FirstHeader + x + (lens[k] + Padding) <= at
    <3> HIDE DEF x, y, at, n
    <3> QED
      BY <1>2, <1>3, <2>3, PacketEnds
  <2>5. f.bounds[k].offset = FirstHeader + x /\ f.bounds[k].length = lens[k] + Padding
    BY <2>1
  <2> HIDE DEF x, y, at, f, n
  <2> QED
    BY <2>2, <2>4, <2>5, Zenon
<1> HIDE DEF f, at, size
<1> QED
  BY <1>1, <1>3, <1>4 DEF WellFormed, f

-----------------------------------------------------------------------------
(* A frame and a tag by their fields.                                      *)
Frame(seq, n, bs, tags) ==
  [ok |-> TRUE, sequence |-> seq, n_bytes |-> n, bounds |-> bs, tags |-> tags]
Tag(tag, offset, length) == [tag |-> tag, offset |-> offset, length |-> length]

(* Reading the fields of a frame ...                                       *)
LEMMA FrameFields ==
  ASSUME NEW seq, NEW n, NEW bs, NEW tags
  PROVE  /\ Frame(seq, n, bs, tags).ok /\ Frame(seq, n, bs, tags).n_bytes = n
         /\ Frame(seq, n, bs, tags).bounds = bs /\ Frame(seq, n, bs, tags).tags = tags
  BY DEF Frame

(* ... and setting one of them, or two.                                    *)
WithBounds(f, x)       == [f EXCEPT !.bounds = x]
WithTags(f, x)         == [f EXCEPT !.tags = x]
WithBytes(f, x)        == [f EXCEPT !.n_bytes = x]
WithBytesTags(f, n, x) == [f EXCEPT !.n_bytes = n, !.tags = x]

LEMMA SetBounds ==
  ASSUME NEW seq, NEW n, NEW bs, NEW tags, NEW x
  PROVE  WithBounds(Frame(seq, n, bs, tags), x) = Frame(seq, n, x, tags)
<1> DEFINE Record(ok, k, b, t) ==
             [ok |-> ok, sequence |-> seq, n_bytes |-> k, bounds |-> b, tags |-> t]
<1>1. ASSUME NEW ok
      PROVE  [Record(ok, n, bs, tags) EXCEPT !.bounds = x] = Record(ok, n, x, tags)
  OBVIOUS
<1>2. [Record(TRUE, n, bs, tags) EXCEPT !.bounds = x] = Record(TRUE, n, x, tags)
  <2> HIDE DEF Record
  <2> QED
    BY <1>1, Zenon
<1> QED
  BY <1>2, Zenon DEF Frame, WithBounds

LEMMA SetTags ==
  ASSUME NEW seq, NEW n, NEW bs, NEW tags, NEW x
  PROVE  WithTags(Frame(seq, n, bs, tags), x) = Frame(seq, n, bs, x)
<1> DEFINE Record(ok, k, b, t) ==
             [ok |-> ok, sequence |-> seq, n_bytes |-> k, bounds |-> b, tags |-> t]
<1>1. ASSUME NEW ok
      PROVE  [Record(ok, n, bs, tags) EXCEPT !.tags = x] = Record(ok, n, bs, x)
  OBVIOUS
<1>2. [Record(TRUE, n, bs, tags) EXCEPT !.tags = x] = Record(TRUE, n, bs, x)
  <2> HIDE DEF Record
  <2> QED
    BY <1>1, Zenon
<1> QED
  BY <1>2, Zenon DEF Frame, WithTags

LEMMA SetBytes ==
  ASSUME NEW seq, NEW n, NEW bs, NEW tags, NEW x
  PROVE  WithBytes(Frame(seq, n, bs, tags), x) = Frame(seq, x, bs, tags)
<1> DEFINE Record(ok, k, b, t) ==
             [ok |-> ok, sequence |-> seq, n_bytes |-> k, bounds |-> b, tags |-> t]
<1>1. ASSUME NEW ok
      PROVE  [Record(ok, n, bs, tags) EXCEPT !.n_bytes = x] = Record(ok, x, bs, tags)
  OBVIOUS
<1>2. [Record(TRUE, n, bs, tags) EXCEPT !.n_bytes = x] = Record(TRUE, x, bs, tags)
  <2> HIDE DEF Record
  <2> QED
    BY <1>1, Zenon
<1> QED
  BY <1>2, Zenon DEF Frame, WithBytes

LEMMA SetBytesTags ==
  ASSUME NEW seq, NEW n, NEW bs, NEW tags, NEW m, NEW x
  PROVE  WithBytesTags(Frame(seq, n, bs, tags), m, x) = Frame(seq, m, bs, x)
<1>1. ASSUME NEW f PROVE WithBytesTags(f, m, x) = WithTags(WithBytes(f, m), x)
  BY DEF WithBytesTags, WithBytes, WithTags
<1> QED
  BY <1>1, SetBytes, SetTags

(* frame_push and get_packet set the first length alike.                   *)
LEMMA FinishFrame ==
  ASSUME NEW seq, NEW n, NEW first, NEW m, NEW last, NEW bs
  PROVE  /\ Pushed(Frame(seq, n, bs, <<Tag(first, 0, m), last>>))
              = Frame(seq, n, bs, <<Tag(first, 0, n), last>>)
         /\ get_packet(Frame(seq, n, bs, <<Tag(first, 0, m), last>>))
              = Frame(seq, n, bs, <<Tag(first, 0, n), last>>)
<1> DEFINE f == Frame(seq, n, bs, <<Tag(first, 0, m), last>>)
<1>1. f.n_bytes = n /\ f.tags = <<Tag(first, 0, m), last>>
  BY FrameFields
<1>2. [<<Tag(first, 0, m), last>> EXCEPT ![1].length = n] = <<Tag(first, 0, n), last>>
  <2>1. [Tag(first, 0, m) EXCEPT !.length = n] = Tag(first, 0, n)
    BY DEF Tag
  <2>2. \A y, z : [<<y, last>> EXCEPT ![1] = z] = <<z, last>> /\ <<y, last>>[1] = y
    OBVIOUS
  <2> QED
    BY <2>1, <2>2
<1>3. WithTags(f, <<Tag(first, 0, n), last>>) = Frame(seq, n, bs, <<Tag(first, 0, n), last>>)
  BY SetTags
<1> DEFINE First(tags) == [tags EXCEPT ![1].length = n]
           Set(g) == [g EXCEPT !.tags[1].length = n]
<1>4. ASSUME NEW g PROVE Set(g) = WithTags(g, First(g.tags))
  BY DEF WithTags
<1>8. ASSUME NEW g, g.n_bytes = n PROVE Pushed(g) = Set(g) /\ get_packet(g) = Set(g)
  BY <1>8, Zenon DEF Pushed, get_packet
<1>7. First(<<Tag(first, 0, m), last>>) = <<Tag(first, 0, n), last>>
  BY <1>2
<1> HIDE DEF f, First, Set
<1>5. Set(f) = Frame(seq, n, bs, <<Tag(first, 0, n), last>>)
  BY <1>1, <1>3, <1>4, <1>7, Zenon
<1>6. /\ Pushed(f) = Frame(seq, n, bs, <<Tag(first, 0, n), last>>)
      /\ get_packet(f) = Frame(seq, n, bs, <<Tag(first, 0, n), last>>)
  BY <1>1, <1>5, <1>8, Zenon
<1> QED
  BY <1>6, Zenon DEF f

(* Two tags in mux.py: the second one is aligned.                          *)
LEMMA TwoAppendedTags ==
  ASSUME NEW seq, NEW first, NEW second, NEW d \in Nat, NEW e \in Nat
  PROVE  append_tag(append_tag(NewPacket(seq), first, d), second, e)
           = Frame(seq, Aligned(d + 16) + (e + 12), <<>>,
                   <<Tag(first, 0, d + 16), Tag(second, Aligned(d + 16), e + 12)>>)
<1> DEFINE new == Frame(seq, 0, <<>>, <<>>)
           one == Frame(seq, d + 16, <<>>, <<Tag(first, 0, d + 16)>>)
           at  == Aligned(d + 16)
<1>1. new.n_bytes = 0 /\ new.tags = <<>>
      /\ one.n_bytes = d + 16 /\ one.tags = <<Tag(first, 0, d + 16)>>
  BY FrameFields
<1>2. /\ WithBytesTags(new, d + 16, <<Tag(first, 0, d + 16)>>) = one
      /\ WithBytesTags(one, at + (e + 12), <<Tag(first, 0, d + 16), Tag(second, at, e + 12)>>)
           = Frame(seq, at + (e + 12), <<>>, <<Tag(first, 0, d + 16), Tag(second, at, e + 12)>>)
  BY SetBytesTags
<1>3. NewPacket(seq) = new
  BY Zenon DEF NewPacket, Frame
<1> HIDE DEF new, one
<1>4. append_tag(new, first, d) = one
  <2>1. Aligned(0) = 0 /\ d + 8 + 8 = d + 16 /\ 0 + (d + 16) = d + 16
    BY DEF Aligned
  <2>2. d + (IF new.n_bytes = 0 THEN 8 ELSE 4) + 8 = d + 16
    BY <1>1, <2>1
  <2>3. Append(<<>>, Tag(first, 0, d + 16)) = <<Tag(first, 0, d + 16)>>
    OBVIOUS
  <2>4. append_tag(new, first, d)
          = WithBytesTags(new, Aligned(new.n_bytes) + (d + 16),
                          Append(new.tags, Tag(first, Aligned(new.n_bytes), d + 16)))
    BY <2>2, Zenon DEF append_tag, Tag, WithBytesTags
  <2> QED
    BY <1>1, <1>2, <2>1, <2>3, <2>4, Zenon
<1>5. append_tag(one, second, e)
        = Frame(seq, at + (e + 12), <<>>, <<Tag(first, 0, d + 16), Tag(second, at, e + 12)>>)
  <2>1. e + (IF one.n_bytes = 0 THEN 8 ELSE 4) + 8 = e + 12
    <3>1. d + 16 # 0
      OBVIOUS
    <3> QED
      BY <1>1, <3>1
  <2>2. append_tag(one, second, e)
          = WithBytesTags(one, Aligned(one.n_bytes) + (e + 12),
                          Append(one.tags, Tag(second, Aligned(one.n_bytes), e + 12)))
    BY <2>1, Zenon DEF append_tag, Tag, WithBytesTags
  <2>3. Append(one.tags, Tag(second, at, e + 12)) = <<Tag(first, 0, d + 16), Tag(second, at, e + 12)>>
    BY <1>1, AppendOne
  <2>4. Aligned(one.n_bytes) = at
    BY <1>1, Zenon
  <2>5. append_tag(one, second, e)
          = WithBytesTags(one, at + (e + 12), <<Tag(first, 0, d + 16), Tag(second, at, e + 12)>>)
    <3> HIDE DEF at
    <3> QED
      BY <2>2, <2>3, <2>4, Zenon
  <2> QED
    BY <1>2, <2>5, Zenon
<1> QED
  BY <1>3, <1>4, <1>5, Zenon

(* One packet that fits: the driver's frame for it.                        *)
LEMMA OnePacketFits ==
  ASSUME NEW len \in UpLens
  PROVE  /\ len \in Nat /\ <<len>> \in Seq(Nat) /\ Len(<<len>>) = 1
         /\ Padded(<<len>>)[0] = 0 /\ Padded(<<len>>)[1] = Padding + len /\ Fits(<<len>>)
<1>1. len \in Nat /\ ~MustFlush(0, 0, len)
  BY MuxFrameAssumption DEF UpLens
<1>2. <<len>> \in Seq(Nat) /\ Len(<<len>>) = 1 /\ <<len>>[1] = len
  BY <1>1
<1>3. Padded(<<len>>)[0] = 0 /\ Padded(<<len>>)[1] = Padded(<<len>>)[1 - 1] + Padding + <<len>>[1]
  <2> DEFINE l == <<len>>
  <2>1. l \in Seq(Nat) /\ 1 \in 1 .. Len(l)
    BY <1>2
  <2> HIDE DEF l
  <2>2. Padded(l)[0] = 0 /\ Padded(l)[1] = Padded(l)[1 - 1] + Padding + l[1]
    BY <2>1, PaddedIs
  <2> QED
    BY <2>2 DEF l
<1>4. Padded(<<len>>)[1] = Padding + len
  BY <1>1, <1>2, <1>3 DEF Padding
<1>5. FrameBytes(1, Padding + len) <= MaxSize /\ 1 <= MUX_MAX_PACKETS
  <2>1. PICK q \in Nat : MaxSize = 4 * q
    BY MuxFrameAssumption
  <2>2. 16 + 16 + len + 12 + 4 + 8 <= 4 * q
    BY <1>1, <2>1 DEF MustFlush, FirstHeader, NextHeader, BoundsSize, Padding
  <2>3. Aligned(32 + len) <= 32 + len + 3 /\ Aligned(32 + len) % 4 = 0 /\ Aligned(32 + len) \in Nat
    BY <1>1, AlignedIs
  <2>4. FrameBytes(1, Padding + len) = Aligned(32 + len) + 24
    <3>1. FirstHeader + (Padding + len) = 32 + len
      BY <1>1 DEF FirstHeader, Padding
    <3> QED
      BY <2>3, <3>1 DEF FrameBytes, NextHeader, BoundsSize
  <2> QED
    BY <1>1, <2>1, <2>2, <2>3, <2>4, MuxFrameAssumption
<1> QED
  BY <1>1, <1>2, <1>3, <1>4, <1>5 DEF Fits

(* A frame without its number, and the number.                             *)
LEMMA LayoutIs ==
  ASSUME NEW seq, NEW n, NEW bs, NEW tags
  PROVE  /\ Layout(Frame(seq, n, bs, tags)) = Frame(0, n, bs, tags)
         /\ Frame(seq, n, bs, tags).sequence = seq
<1> DEFINE Record(ok, k) ==
             [ok |-> ok, sequence |-> k, n_bytes |-> n, bounds |-> bs, tags |-> tags]
<1>1. ASSUME NEW ok, NEW k PROVE [Record(ok, seq) EXCEPT !.sequence = k] = Record(ok, k)
  OBVIOUS
<1>2. [Record(TRUE, seq) EXCEPT !.sequence = 0] = Record(TRUE, 0)
  <2> HIDE DEF Record
  <2> QED
    BY <1>1, Zenon
<1>3. Frame(seq, n, bs, tags).sequence = seq
  BY DEF Frame
<1> QED
  BY <1>2, <1>3, Zenon DEF Frame, Layout

(* What mux.py's package sends for a packet has the layout of what         *)
(* net_flush sends for a queue of that packet alone, for every packet that *)
(* fits the page, and each has the number of its own sender.               *)
THEOREM PackageIsDataFrame ==
  ASSUME NEW seq, NEW num, NEW len \in UpLens
  PROVE  /\ Layout(package(seq, len)) = Layout(Pushed(DataFrame(num, <<len>>)))
         /\ package(seq, len).sequence = NextSeq(seq)
         /\ Pushed(DataFrame(num, <<len>>)).sequence = num
<1> DEFINE at == Aligned(32 + len)
           bs == <<[offset |-> 16, length |-> Padding + len]>>
           last == Tag("ADTH", at, 24)
           f(s, x, b) == Frame(s, at + 24, b, <<Tag("ADBH", 0, x), last>>)
<1>0. /\ len \in Nat /\ <<len>> \in Seq(Nat) /\ Len(<<len>>) = 1 /\ Fits(<<len>>)
      /\ Padded(<<len>>)[0] = 0 /\ Padded(<<len>>)[1] = Padding + len
  BY OnePacketFits
<1>1. /\ FirstHeader + Padded(<<len>>)[1] = 32 + len /\ NextHeader + 4 + BoundsSize * 1 = 24
      /\ (Padding + len) + 16 = 32 + len /\ 12 + 12 = 24 /\ Padding + len \in Nat /\ 12 \in Nat
  BY <1>0 DEF FirstHeader, Padding, NextHeader, BoundsSize
<1>2. BoundsOf(<<len>>, 1) = bs
  <2>1. /\ \A j \in 1 .. 1 : Padded(<<len>>)[j - 1] = 0 /\ <<len>>[j] = len
        /\ FirstHeader + 0 = 16 /\ len + Padding = Padding + len
    BY <1>0 DEF FirstHeader, Padding
  <2>2. BoundsOf(<<len>>, 1) = [j \in 1 .. 1 |-> [offset |-> 16, length |-> Padding + len]]
    BY <2>1 DEF BoundsOf
  <2> QED
    BY <2>2
<1>3. DataFrame(num, <<len>>) = f(num, 32 + len, bs)
  <2> DEFINE l == <<len>>
             head(x) == [tag |-> "ADBH", offset |-> 0, length |-> x]
  <2>1. /\ l \in Seq(Nat) /\ Fits(l) /\ Len(l) = 1 /\ FirstHeader + Padded(l)[1] = 32 + len
        /\ BoundsOf(l, 1) = bs
    BY <1>0, <1>1, <1>2, Zenon
  <2> HIDE DEF l
  <2>2. DataFrame(num, l) = TwoTags(num, head(FirstHeader + Padded(l)[Len(l)]),
                                    Aligned(FirstHeader + Padded(l)[Len(l)]),
                                    NextHeader + 4 + BoundsSize * Len(l), BoundsOf(l, Len(l)))
    BY <2>1, DataFrameIs, Zenon
  <2>3. DataFrame(num, l) = TwoTags(num, head(32 + len), at, 24, bs)
    <3> HIDE DEF head
    <3> QED
      BY <1>1, <2>1, <2>2, Zenon
  <2>4. \A b, a : TwoTags(num, head(32 + len), a, 24, b)
                    = Frame(num, a + 24, b, <<Tag("ADBH", 0, 32 + len), Tag("ADTH", a, 24)>>)
    BY Zenon DEF TwoTags, Frame, Tag
  <2> QED
    BY <2>3, <2>4, Zenon DEF l
<1>4. Pushed(DataFrame(num, <<len>>)) = f(num, at + 24, bs)
  BY <1>3, FinishFrame
<1> DEFINE own == NextSeq(seq)
           p == append_tag(append_tag(NewPacket(own), "ADBH", Padding + len), "ADTH", 12)
<1> HIDE DEF own
<1>5. p = f(own, 32 + len, <<>>)
  <2>1. p = Frame(own, Aligned(Padding + len + 16) + (12 + 12), <<>>,
                  <<Tag("ADBH", 0, Padding + len + 16),
                    Tag("ADTH", Aligned(Padding + len + 16), 12 + 12)>>)
    <3> DEFINE d == Padding + len
               e == 12
    <3>1. d \in Nat /\ e \in Nat
      BY <1>1
    <3> HIDE DEF d, e
    <3>2. append_tag(append_tag(NewPacket(own), "ADBH", d), "ADTH", e)
            = Frame(own, Aligned(d + 16) + (e + 12), <<>>,
                    <<Tag("ADBH", 0, d + 16), Tag("ADTH", Aligned(d + 16), e + 12)>>)
      BY <3>1, TwoAppendedTags
    <3> QED
      BY <3>2, Zenon DEF d, e
  <2> QED
    BY <1>1, <2>1, Zenon
<1> HIDE DEF p
<1>6. WithBounds(p, bs) = f(own, 32 + len, bs)
  BY <1>5, SetBounds
<1>7. package(seq, len) = f(own, at + 24, bs)
  <2>1. package(seq, len) = get_packet(WithBounds(p, bs))
    BY Zenon DEF package, p, own, WithBounds
  <2> QED
    BY <1>6, <2>1, FinishFrame
<1>8. ASSUME NEW s
      PROVE  Layout(f(s, at + 24, bs)) = f(0, at + 24, bs) /\ f(s, at + 24, bs).sequence = s
  BY LayoutIs
<1> HIDE DEF f
<1> QED
  BY <1>4, <1>7, <1>8 DEF own

(* The two frames that open the channel have one layout; mux.py's number   *)
(* is 0, the driver's is xn->sequence.                                     *)
THEOREM ControlIsControlFrame ==
  ASSUME NEW seq, ControlFrame(0).ok
  PROVE  /\ Layout(control) = Layout(Pushed(ControlFrame(seq)))
         /\ control.sequence = 0 /\ Pushed(ControlFrame(seq)).sequence = seq
<1> DEFINE last == Tag("CMDH", 16, 28)
           one(s) == Frame(s, 16, <<>>, <<Tag("ACBH", 0, 16)>>)
           two(s, x) == Frame(s, 44, <<>>, <<Tag("ACBH", 0, x), last>>)
<1>0. Aligned(0) = 0 /\ Aligned(16) = 16 /\ 0 + 16 = 16 /\ 16 + 28 = 44
  BY DEF Aligned
<1>1. ASSUME NEW s, ~(16 > MaxSize) PROVE AddTag(FrameInit(s), "ACBH", 0) = one(s)
  <2> DEFINE new == FrameInit(s)
  <2>0. new = Frame(s, 0, <<>>, <<>>)
    BY Zenon DEF FrameInit, Frame
  <2>1. new.ok /\ new.n_bytes = 0 /\ new.tags = <<>>
    BY <2>0, FrameFields
  <2>5. WithBytesTags(new, 16, <<Tag("ACBH", 0, 16)>>) = one(s)
    BY <2>0, SetBytesTags
  <2>2. Append(<<>>, Tag("ACBH", 0, 16)) = <<Tag("ACBH", 0, 16)>>
    OBVIOUS
  <2> HIDE DEF new, one
  <2>3. 0 + (IF new.n_bytes = 0 THEN FirstHeader ELSE NextHeader) = 16
    BY <2>1 DEF FirstHeader
  <2>4. AddTag(new, "ACBH", 0)
          = WithBytesTags(new, Aligned(new.n_bytes) + 16,
                          Append(new.tags, Tag("ACBH", Aligned(new.n_bytes), 16)))
    <3>1. ~(Aligned(new.n_bytes) + 16 > MaxSize)
      BY <1>0, <1>1, <2>1
    <3> QED
      BY <2>1, <2>3, <3>1, Zenon DEF AddTag, Tag, WithBytesTags
  <2>6. AddTag(new, "ACBH", 0) = WithBytesTags(new, 0 + 16, <<Tag("ACBH", 0, 16)>>)
    BY <1>0, <2>1, <2>2, <2>4, Zenon
  <2> QED
    BY <1>0, <2>5, <2>6, Zenon DEF new
<1>2. ASSUME NEW s, ~(16 > MaxSize)
      PROVE  ControlFrame(s) = IF 44 > MaxSize THEN Failed ELSE two(s, 16)
  <2> DEFINE f == one(s)
  <2>1. f.ok /\ f.n_bytes = 16 /\ f.tags = <<Tag("ACBH", 0, 16)>>
    BY FrameFields
  <2>6. WithBytesTags(f, 44, <<Tag("ACBH", 0, 16), last>>) = two(s, 16)
    BY SetBytesTags
  <2>2. Append(<<Tag("ACBH", 0, 16)>>, last) = <<Tag("ACBH", 0, 16), last>>
    BY AppendOne, Zenon
  <2>3. ControlFrame(s) = AddTag(f, "CMDH", 16)
    BY <1>1, <1>2, Zenon DEF ControlFrame
  <2> HIDE DEF f, two
  <2>4. 16 + (IF f.n_bytes = 0 THEN FirstHeader ELSE NextHeader) = 28
    BY <2>1 DEF NextHeader
  <2>5. AddTag(f, "CMDH", 16)
          = IF 44 > MaxSize THEN Failed
            ELSE WithBytesTags(f, 44, Append(f.tags, Tag("CMDH", 16, 28)))
    <3>1. AddTag(f, "CMDH", 16)
            = IF ~f.ok \/ Aligned(f.n_bytes) + 28 > MaxSize THEN Failed
              ELSE WithBytesTags(f, Aligned(f.n_bytes) + 28,
                                 Append(f.tags, Tag("CMDH", Aligned(f.n_bytes), 28)))
      BY <2>4, Zenon DEF AddTag, Tag, WithBytesTags
    <3>2. Aligned(f.n_bytes) = 16 /\ Aligned(f.n_bytes) + 28 = 44
      BY <1>0, <2>1, Zenon
    <3>3. CASE 44 > MaxSize
      <4>1. Aligned(f.n_bytes) + 28 > MaxSize
        BY <3>2, <3>3, Zenon
      <4>2. AddTag(f, "CMDH", 16) = Failed
        BY <3>1, <4>1, Zenon
      <4> QED
        BY <3>3, <4>2, Zenon
    <3>4. CASE ~(44 > MaxSize)
      <4>1. f.ok /\ ~(Aligned(f.n_bytes) + 28 > MaxSize)
        BY <2>1, <3>2, <3>4, Zenon
      <4>2. AddTag(f, "CMDH", 16)
              = WithBytesTags(f, Aligned(f.n_bytes) + 28,
                              Append(f.tags, Tag("CMDH", Aligned(f.n_bytes), 28)))
        BY <3>1, <4>1, Zenon
      <4> QED
        BY <3>2, <3>4, <4>2, Zenon
    <3> QED
      BY <3>3, <3>4, Zenon
  <2> QED
    BY <2>1, <2>2, <2>3, <2>5, <2>6, Zenon
<1>3. ~(16 > MaxSize) /\ ~(44 > MaxSize)
  <2>1. ~Failed.ok
    BY DEF Failed
  <2>2. ASSUME 16 > MaxSize PROVE FALSE
    <3>1. FrameInit(0).n_bytes = 0
      BY DEF FrameInit
    <3>2. Aligned(FrameInit(0).n_bytes)
            + (0 + IF FrameInit(0).n_bytes = 0 THEN FirstHeader ELSE NextHeader) > MaxSize
      BY <1>0, <2>2, <3>1 DEF FirstHeader
    <3>3. AddTag(FrameInit(0), "ACBH", 0) = Failed
      BY <3>2, Zenon DEF AddTag
    <3>4. ControlFrame(0) = Failed
      BY <2>1, <3>3, Zenon DEF ControlFrame, AddTag
    <3> QED
      BY <2>1, <3>4
  <2> HIDE DEF two
  <2>3. 44 > MaxSize => ControlFrame(0) = Failed
    BY <1>2, <2>2, Zenon
  <2> QED
    BY <2>1, <2>2, <2>3
<1>4. ControlFrame(seq) = two(seq, 16)
  BY <1>2, <1>3, Zenon
<1> DEFINE own == 0
<1> HIDE DEF own
<1>5. append_tag(append_tag(NewPacket(own), "ACBH", 0), "CMDH", 16) = two(own, 16)
  <2>1. 0 \in Nat /\ 16 \in Nat /\ Aligned(0 + 16) = 16 /\ 16 + (16 + 12) = 44 /\ 16 + 12 = 28
        /\ 0 + 16 = 16
    BY DEF Aligned
  <2>2. append_tag(append_tag(NewPacket(own), "ACBH", 0), "CMDH", 16)
          = Frame(own, Aligned(0 + 16) + (16 + 12), <<>>,
                  <<Tag("ACBH", 0, 0 + 16), Tag("CMDH", Aligned(0 + 16), 16 + 12)>>)
    <3> DEFINE d == 0
               e == 16
    <3>1. d \in Nat /\ e \in Nat
      OBVIOUS
    <3> HIDE DEF d, e
    <3>2. append_tag(append_tag(NewPacket(own), "ACBH", d), "CMDH", e)
            = Frame(own, Aligned(d + 16) + (e + 12), <<>>,
                    <<Tag("ACBH", 0, d + 16), Tag("CMDH", Aligned(d + 16), e + 12)>>)
      BY <3>1, TwoAppendedTags
    <3> QED
      BY <3>2, Zenon DEF d, e
  <2> QED
    BY <2>1, <2>2, Zenon
<1>6. ASSUME NEW s
      PROVE  /\ Pushed(two(s, 16)) = two(s, 44)
             /\ get_packet(two(s, 16)) = two(s, 44)
  BY FinishFrame
<1>7. Pushed(ControlFrame(seq)) = two(seq, 44)
  BY <1>4, <1>6
<1>8. control = two(own, 44)
  <2>1. control = get_packet(two(own, 16))
    BY <1>5, Zenon DEF control, own
  <2> QED
    BY <1>6, <2>1
<1>9. ASSUME NEW s PROVE Layout(two(s, 44)) = two(0, 44) /\ two(s, 44).sequence = s
  BY LayoutIs
<1> HIDE DEF two
<1> QED
  BY <1>7, <1>8, <1>9 DEF own

-----------------------------------------------------------------------------
(* The downlink: what xmm7360_net_mux_handle_frame and read_mux make of a  *)
(* frame with any number of packets of any lengths.                        *)

(* A packet is its length and IP version, bounds are what ADTH says of it. *)
IpPackets    == [len : Nat, version : Nat]
PacketBounds == [offset : Nat, length : Nat]

(* Ends is the function its definition says.                               *)
LEMMA EndsIs ==
  ASSUME NEW packets \in Seq(IpPackets)
  PROVE  /\ Ends(packets)[0] = FirstHeader
         /\ \A k \in 1 .. Len(packets) : Ends(packets)[k] = Ends(packets)[k - 1] + packets[k].len
<1> DEFINE n == Len(packets)
           Step(x, k) == x + packets[k].len
           Upto(f, m) == f[0] = FirstHeader /\ \A k \in 1 .. m : f[k] = Step(f[k - 1], k)
           S == {m \in 0 .. n : \E f : Upto(f, m)}
           Eq(f) == f = [k \in 0 .. n |-> IF k = 0 THEN FirstHeader ELSE Step(f[k - 1], k)]
           p == Ends(packets)
<1>0. n \in Nat /\ 0 \in 0 .. n /\ n \in 0 .. n
  OBVIOUS
<1>r. \A k \in 1 .. n : k \in 0 .. n /\ k - 1 \in 0 .. n /\ k # 0
  BY <1>0
<1>6. p = CHOOSE g : Eq(g)
  BY Zenon DEF Ends
<1> HIDE DEF n, Step, p
<1>1. 0 \in S
  <2> DEFINE f == [k \in 0 .. 0 |-> FirstHeader]
  <2>1. f[0] = FirstHeader /\ ~(\E k : k \in 1 .. 0)
    OBVIOUS
  <2> QED
    BY <1>0, <2>1, Zenon
<1>2. ASSUME NEW m \in 1 .. n, m - 1 \in S PROVE m \in S
  <2>1. PICK f : Upto(f, m - 1)
    BY <1>2, Zenon
  <2> DEFINE g == [k \in 0 .. m |-> IF k = m THEN Step(f[m - 1], m) ELSE f[k]]
  <2>2. /\ m \in 0 .. n /\ m \in Nat /\ 0 \in 0 .. m /\ 0 # m /\ m \in 0 .. m
        /\ \A k \in 1 .. m : k \in 0 .. m /\ k - 1 \in 0 .. m /\ k - 1 # m
        /\ \A k \in 1 .. m : k # m => k \in 1 .. m - 1
    BY <1>0
  <2>3. \A k \in 0 .. m : g[k] = IF k = m THEN Step(f[m - 1], m) ELSE f[k]
    BY Zenon
  <2> HIDE DEF g
  <2>4. g[0] = FirstHeader
    BY <2>1, <2>2, <2>3, Zenon
  <2>5. ASSUME NEW k \in 1 .. m PROVE g[k] = Step(g[k - 1], k)
    <3>1. g[k - 1] = f[k - 1]
      BY <2>2, <2>3, <2>5, Zenon
    <3>2. CASE k = m
      BY <2>2, <2>3, <2>5, <3>1, <3>2, Zenon
    <3>3. CASE k # m
      <4>1. g[k] = f[k] /\ k \in 1 .. m - 1
        BY <2>2, <2>3, <2>5, <3>3, Zenon
      <4> QED
        BY <2>1, <3>1, <4>1, Zenon
    <3> QED
      BY <3>2, <3>3, Zenon
  <2> QED
    BY <2>2, <2>4, <2>5, Zenon
<1>3. \A k \in 0 .. n : k \in S
  <2>1. \A k \in 1 .. n : k - 1 \in S => k \in S
    BY <1>2
  <2> HIDE DEF S
  <2> QED
    BY <1>0, <1>1, <2>1, UpTo
<1>4. PICK f : Upto(f, n)
  BY <1>0, <1>3, Zenon
<1> DEFINE h == [k \in 0 .. n |-> f[k]]
<1>5. Eq(h)
  <2>1. \A k \in 0 .. n : h[k] = f[k] /\ (k # 0 => k \in 1 .. n)
    BY <1>0
  <2> HIDE DEF h
  <2>2. \A k \in 0 .. n : h[k] = IF k = 0 THEN FirstHeader ELSE Step(h[k - 1], k)
    BY <1>4, <1>r, <2>1, Zenon
  <2>3. h = [k \in 0 .. n |-> h[k]]
    BY Zenon DEF h
  <2> QED
    BY <2>2, <2>3, Zenon
<1>7. Eq(p)
  <2>1. \E g : Eq(g)
    BY <1>5, Zenon
  <2> HIDE DEF Eq
  <2> QED
    BY <1>6, <2>1, Zenon
<1>8. p[0] = FirstHeader /\ \A k \in 1 .. n : p[k] = Step(p[k - 1], k)
  <2>1. \A k \in 0 .. n : p[k] = IF k = 0 THEN FirstHeader ELSE Step(p[k - 1], k)
    BY <1>7, Zenon
  <2> QED
    BY <1>0, <1>r, <2>1, Zenon
<1> QED
  BY <1>8 DEF n, Step, p

(* Nonempty is the function its definition says.                           *)
LEMMA NonemptyIs ==
  ASSUME NEW bounds \in Seq(PacketBounds)
  PROVE  /\ Nonempty(bounds)[0] = <<>>
         /\ \A k \in 1 .. Len(bounds) :
              Nonempty(bounds)[k] = IF bounds[k].length = 0 THEN Nonempty(bounds)[k - 1]
                                    ELSE Append(Nonempty(bounds)[k - 1], bounds[k])
<1> DEFINE n == Len(bounds)
           Step(x, k) == IF bounds[k].length = 0 THEN x ELSE Append(x, bounds[k])
           Upto(f, m) == f[0] = <<>> /\ \A k \in 1 .. m : f[k] = Step(f[k - 1], k)
           S == {m \in 0 .. n : \E f : Upto(f, m)}
           Eq(f) == f = [k \in 0 .. n |-> IF k = 0 THEN <<>> ELSE Step(f[k - 1], k)]
           p == Nonempty(bounds)
<1>0. n \in Nat /\ 0 \in 0 .. n /\ n \in 0 .. n
  OBVIOUS
<1>r. \A k \in 1 .. n : k \in 0 .. n /\ k - 1 \in 0 .. n /\ k # 0
  BY <1>0
<1>6. p = CHOOSE g : Eq(g)
  BY Zenon DEF Nonempty
<1> HIDE DEF n, Step, p
<1>1. 0 \in S
  <2> DEFINE f == [k \in 0 .. 0 |-> <<>>]
  <2>1. f[0] = <<>> /\ ~(\E k : k \in 1 .. 0)
    OBVIOUS
  <2> QED
    BY <1>0, <2>1, Zenon
<1>2. ASSUME NEW m \in 1 .. n, m - 1 \in S PROVE m \in S
  <2>1. PICK f : Upto(f, m - 1)
    BY <1>2, Zenon
  <2> DEFINE g == [k \in 0 .. m |-> IF k = m THEN Step(f[m - 1], m) ELSE f[k]]
  <2>2. /\ m \in 0 .. n /\ m \in Nat /\ 0 \in 0 .. m /\ 0 # m /\ m \in 0 .. m
        /\ \A k \in 1 .. m : k \in 0 .. m /\ k - 1 \in 0 .. m /\ k - 1 # m
        /\ \A k \in 1 .. m : k # m => k \in 1 .. m - 1
    BY <1>0
  <2>3. \A k \in 0 .. m : g[k] = IF k = m THEN Step(f[m - 1], m) ELSE f[k]
    BY Zenon
  <2> HIDE DEF g
  <2>4. g[0] = <<>>
    BY <2>1, <2>2, <2>3, Zenon
  <2>5. ASSUME NEW k \in 1 .. m PROVE g[k] = Step(g[k - 1], k)
    <3>1. g[k - 1] = f[k - 1]
      BY <2>2, <2>3, <2>5, Zenon
    <3>2. CASE k = m
      BY <2>2, <2>3, <2>5, <3>1, <3>2, Zenon
    <3>3. CASE k # m
      <4>1. g[k] = f[k] /\ k \in 1 .. m - 1
        BY <2>2, <2>3, <2>5, <3>3, Zenon
      <4> QED
        BY <2>1, <3>1, <4>1, Zenon
    <3> QED
      BY <3>2, <3>3, Zenon
  <2> QED
    BY <2>2, <2>4, <2>5, Zenon
<1>3. \A k \in 0 .. n : k \in S
  <2>1. \A k \in 1 .. n : k - 1 \in S => k \in S
    BY <1>2
  <2> HIDE DEF S
  <2> QED
    BY <1>0, <1>1, <2>1, UpTo
<1>4. PICK f : Upto(f, n)
  BY <1>0, <1>3, Zenon
<1> DEFINE h == [k \in 0 .. n |-> f[k]]
<1>5. Eq(h)
  <2>1. \A k \in 0 .. n : h[k] = f[k] /\ (k # 0 => k \in 1 .. n)
    BY <1>0
  <2> HIDE DEF h
  <2>2. \A k \in 0 .. n : h[k] = IF k = 0 THEN <<>> ELSE Step(h[k - 1], k)
    BY <1>4, <1>r, <2>1, Zenon
  <2>3. h = [k \in 0 .. n |-> h[k]]
    BY Zenon DEF h
  <2> QED
    BY <2>2, <2>3, Zenon
<1>7. Eq(p)
  <2>1. \E g : Eq(g)
    BY <1>5, Zenon
  <2> HIDE DEF Eq
  <2> QED
    BY <1>6, <2>1, Zenon
<1>8. p[0] = <<>> /\ \A k \in 1 .. n : p[k] = Step(p[k - 1], k)
  <2>1. \A k \in 0 .. n : p[k] = IF k = 0 THEN <<>> ELSE Step(p[k - 1], k)
    BY <1>7, Zenon
  <2> QED
    BY <1>0, <1>r, <2>1, Zenon
<1> QED
  BY <1>8 DEF n, Step, p

(* Packets end in order, behind the first header.                          *)
LEMMA EndsGrow ==
  ASSUME NEW packets \in Seq(IpPackets)
  PROVE  \A k \in 0 .. Len(packets) :
           /\ Ends(packets)[k] \in Nat
           /\ Ends(packets)[k] <= Ends(packets)[Len(packets)]
<1> DEFINE n == Len(packets)
           p == Ends(packets)
           S == {m \in 0 .. n : p[m] \in Nat /\ \A j \in 0 .. m : p[j] \in Nat /\ p[j] <= p[m]}
<1>0. n \in Nat /\ \A k \in 1 .. n : packets[k].len \in Nat
  <2>1. n \in Nat /\ \A k \in 1 .. n : packets[k] \in IpPackets
    OBVIOUS
  <2>2. \A x \in IpPackets : x.len \in Nat
    BY DEF IpPackets
  <2> QED
    BY <2>1, <2>2, Zenon
<1>1. p[0] = FirstHeader /\ \A k \in 1 .. n : p[k] = p[k - 1] + packets[k].len
  BY EndsIs
<1> HIDE DEF n, p
<1>2. 0 \in S
  BY <1>0, <1>1 DEF FirstHeader
<1>3. \A k \in 1 .. n : k - 1 \in S => k \in S
  <2> SUFFICES ASSUME NEW k \in 1 .. n, k - 1 \in S PROVE k \in S
    OBVIOUS
  <2>1. p[k - 1] \in Nat /\ \A j \in 0 .. k - 1 : p[j] \in Nat /\ p[j] <= p[k - 1]
    BY Zenon
  <2>2. p[k] = p[k - 1] + packets[k].len /\ packets[k].len \in Nat
    BY <1>0, <1>1, Zenon
  <2>3. p[k] \in Nat /\ p[k - 1] <= p[k]
    BY <2>1, <2>2
  <2>4. k \in 0 .. n /\ k \in Nat
    BY <1>0
  <2>5. ASSUME NEW j \in 0 .. k PROVE p[j] \in Nat /\ p[j] <= p[k]
    <3>1. CASE j = k
      BY <2>3, <3>1
    <3>2. CASE j # k
      <4>1. j \in 0 .. k - 1
        BY <2>4, <3>2
      <4>2. p[j] \in Nat /\ p[j] <= p[k - 1]
        BY <2>1, <4>1, Zenon
      <4> QED
        BY <2>1, <2>3, <4>2
    <3> QED
      BY <3>1, <3>2
  <2> QED
    BY <2>3, <2>4, <2>5, Zenon
<1>4. \A k \in 0 .. n : k \in S
  <2> HIDE DEF S
  <2> QED
    BY <1>0, <1>2, <1>3, UpTo
<1>5. n \in S
  BY <1>0, <1>4
<1> QED
  BY <1>5, Zenon DEF p, n

(* A sequence is a prefix of itself.                                       *)
LEMMA PrefixSelf ==
  ASSUME NEW s \in Seq(PacketBounds)
  PROVE  IsPrefix(s, s)
  BY DEF IsPrefix

(* A prefix stays one when the sequence grows.                             *)
LEMMA PrefixAppend ==
  ASSUME NEW s \in Seq(PacketBounds), NEW t \in Seq(PacketBounds), NEW x \in PacketBounds,
         IsPrefix(s, t)
  PROVE  IsPrefix(s, Append(t, x))
<1> DEFINE u == Append(t, x)
<1>1. Len(s) \in Nat /\ Len(t) \in Nat /\ Len(s) <= Len(t) /\ SubSeq(s, 1, Len(s)) = SubSeq(t, 1, Len(s))
  BY DEF IsPrefix
<1>2. u \in Seq(PacketBounds) /\ Len(u) = Len(t) + 1 /\ \A k \in 1 .. Len(t) : u[k] = t[k]
  OBVIOUS
<1> HIDE DEF u
<1>3. SubSeq(u, 1, Len(s)) = [k \in 1 .. Len(s) |-> u[k]]
  BY <1>1, <1>2
<1>4. SubSeq(t, 1, Len(s)) = [k \in 1 .. Len(s) |-> t[k]]
  BY <1>1
<1>5. \A k \in 1 .. Len(s) : u[k] = t[k]
  BY <1>1, <1>2
<1>6. SubSeq(u, 1, Len(s)) = SubSeq(t, 1, Len(s))
  BY <1>3, <1>4, <1>5, Zenon
<1>7. Len(s) <= Len(u)
  BY <1>1, <1>2
<1>8. IsPrefix(s, u)
  BY <1>1, <1>6, <1>7, Zenon DEF IsPrefix
<1> QED
  BY <1>8, Zenon DEF u

(* What is kept is a sequence of bounds.                                   *)
LEMMA KeptTypes ==
  ASSUME NEW bounds \in Seq(PacketBounds)
  PROVE  \A k \in 0 .. Len(bounds) : Nonempty(bounds)[k] \in Seq(PacketBounds)
<1> DEFINE n == Len(bounds)
           p == Nonempty(bounds)
           S == {k \in 0 .. n : p[k] \in Seq(PacketBounds)}
<1>0. n \in Nat /\ \A k \in 1 .. n : bounds[k] \in PacketBounds
  OBVIOUS
<1>1. p[0] = <<>> /\ \A k \in 1 .. n : p[k] = IF bounds[k].length = 0 THEN p[k - 1]
                                              ELSE Append(p[k - 1], bounds[k])
  BY NonemptyIs
<1> HIDE DEF n, p
<1>2. 0 \in S
  <2>1. <<>> \in Seq(PacketBounds) /\ 0 \in 0 .. n
    BY <1>0
  <2> QED
    BY <1>1, <2>1, Zenon
<1>3. \A k \in 1 .. n : k - 1 \in S => k \in S
  <2> SUFFICES ASSUME NEW k \in 1 .. n, k - 1 \in S PROVE k \in S
    OBVIOUS
  <2> DEFINE q == p[k - 1]
             x == bounds[k]
  <2>1. q \in Seq(PacketBounds) /\ x \in PacketBounds
    BY <1>0, Zenon
  <2>2. p[k] = q \/ p[k] = Append(q, x)
    BY <1>1, Zenon
  <2> HIDE DEF q, x
  <2>3. Append(q, x) \in Seq(PacketBounds)
    BY <2>1
  <2>4. k \in 0 .. n
    BY <1>0
  <2> QED
    BY <2>1, <2>2, <2>3, <2>4, Zenon
<1>4. \A k \in 0 .. n : k \in S
  <2> HIDE DEF S
  <2> QED
    BY <1>0, <1>2, <1>3, UpTo
<1> QED
  BY <1>4, Zenon DEF p, n

(* What is kept of the first bounds begins what is kept of all.            *)
LEMMA KeptGrows ==
  ASSUME NEW bounds \in Seq(PacketBounds), NEW i \in 0 .. Len(bounds)
  PROVE  IsPrefix(Nonempty(bounds)[i], Nonempty(bounds)[Len(bounds)])
<1> DEFINE n == Len(bounds)
           m == n - i
           p == Nonempty(bounds)
           S == {k \in 0 .. m : IsPrefix(p[i], p[i + k])}
<1>0. /\ n \in Nat /\ m \in Nat /\ i \in Nat /\ i + m = n /\ i + 0 = i /\ 0 \in 0 .. m /\ m \in 0 .. m
      /\ \A k \in 1 .. n : bounds[k] \in PacketBounds
  OBVIOUS
<1>1. \A k \in 1 .. n : p[k] = IF bounds[k].length = 0 THEN p[k - 1]
                                                       ELSE Append(p[k - 1], bounds[k])
  BY NonemptyIs
<1>t. \A k \in 0 .. n : p[k] \in Seq(PacketBounds)
  BY KeptTypes
<1>s. p[i] \in Seq(PacketBounds)
  BY <1>t
<1> HIDE DEF n, p, m
<1>2. 0 \in S
  BY <1>0, <1>s, PrefixSelf, Zenon
<1>3. \A k \in 1 .. m : k - 1 \in S => k \in S
  <2> SUFFICES ASSUME NEW k \in 1 .. m, k - 1 \in S PROVE k \in S
    OBVIOUS
  <2> DEFINE j == i + k
             q == p[j - 1]
             x == bounds[j]
             s == p[i]
  <2>0. j \in 1 .. n /\ j - 1 \in 0 .. n /\ i + (k - 1) = j - 1 /\ k \in 0 .. m
    BY <1>0
  <2>1. q \in Seq(PacketBounds) /\ x \in PacketBounds /\ s \in Seq(PacketBounds)
    BY <1>0, <1>t, <1>s, <2>0, Zenon
  <2>2. p[j] = q \/ p[j] = Append(q, x)
    BY <1>1, <2>0, Zenon
  <2>3. IsPrefix(s, q)
    BY <2>0, Zenon
  <2> HIDE DEF q, x, s
  <2>4. IsPrefix(s, Append(q, x))
    BY <2>1, <2>3, PrefixAppend
  <2>5. IsPrefix(s, p[j])
    BY <2>2, <2>3, <2>4, Zenon
  <2> QED
    BY <2>0, <2>5, Zenon DEF s
<1>4. \A k \in 0 .. m : k \in S
  <2> HIDE DEF S
  <2> QED
    BY <1>0, <1>2, <1>3, UpTo
<1>5. m \in S
  BY <1>0, <1>4, Zenon
<1> QED
  BY <1>0, <1>5, Zenon DEF p, n

(* What is kept of the first m bounds depends on them alone.               *)
LEMMA KeptSame ==
  ASSUME NEW b \in Seq(PacketBounds), NEW c \in Seq(PacketBounds), NEW m \in Nat,
         m <= Len(b), m <= Len(c), \A k \in 1 .. m : b[k] = c[k]
  PROVE  Nonempty(b)[m] = Nonempty(c)[m]
<1> DEFINE p == Nonempty(b)
           q == Nonempty(c)
           S == {k \in 0 .. m : p[k] = q[k]}
<1>0. /\ 0 \in 0 .. m /\ m \in 0 .. m
      /\ \A k \in 1 .. m : k \in 0 .. m /\ k \in 1 .. Len(b) /\ k \in 1 .. Len(c)
  OBVIOUS
<1>1. p[0] = <<>> /\ \A k \in 1 .. Len(b) : p[k] = IF b[k].length = 0 THEN p[k - 1]
                                                   ELSE Append(p[k - 1], b[k])
  BY NonemptyIs
<1>2. q[0] = <<>> /\ \A k \in 1 .. Len(c) : q[k] = IF c[k].length = 0 THEN q[k - 1]
                                                   ELSE Append(q[k - 1], c[k])
  BY NonemptyIs
<1> HIDE DEF p, q
<1>3. 0 \in S
  BY <1>0, <1>1, <1>2, Zenon
<1>4. \A k \in 1 .. m : k - 1 \in S => k \in S
  <2> SUFFICES ASSUME NEW k \in 1 .. m, k - 1 \in S PROVE k \in S
    OBVIOUS
  <2>1. p[k - 1] = q[k - 1] /\ b[k] = c[k]
    BY Zenon
  <2>2. p[k] = IF b[k].length = 0 THEN p[k - 1] ELSE Append(p[k - 1], b[k])
    BY <1>0, <1>1, Zenon
  <2>3. q[k] = IF c[k].length = 0 THEN q[k - 1] ELSE Append(q[k - 1], c[k])
    BY <1>0, <1>2, Zenon
  <2> QED
    BY <1>0, <2>1, <2>2, <2>3, Zenon
<1>5. \A k \in 0 .. m : k \in S
  <2> HIDE DEF S
  <2> QED
    BY <1>3, <1>4, UpTo
<1> QED
  BY <1>0, <1>5, Zenon DEF p, q

(* A function on 1 .. k is a sequence of k elements.                       *)
LEMMA ListIsSeq ==
  ASSUME NEW D, NEW k \in Nat, NEW s \in [1 .. k -> D]
  PROVE  s \in Seq(D) /\ Len(s) = k
  OBVIOUS

(* The modem's frame: the bounds of its packets lie in front of ADTH, one  *)
(* behind the other, and ADTH's length gives their number.                 *)
Carries(f, packets, trailer) ==
  /\ f.bounds \in Seq(PacketBounds) /\ Len(f.bounds) = Len(packets)
  /\ \A k \in 1 .. Len(packets) :
       f.bounds[k].offset + f.bounds[k].length <= f.tags[2].offset
  /\ f.tags[1].tag = "ADBH" /\ f.tags[2].tag = "ADTH"
  /\ f.tags[2].offset \in Nat
  /\ f.tags[2].length = NextHeader + 4 + BoundsSize * Len(packets)
  /\ ~trailer => f.n_bytes = f.tags[2].offset + f.tags[2].length

(* DownFrame lays every list of packets out so.                            *)
LEMMA DownFrameCarries ==
  ASSUME NEW seq, NEW packets \in Seq(IpPackets), NEW trailer \in BOOLEAN
  PROVE  Carries(DownFrame(seq, packets, trailer), packets, trailer)
<1> DEFINE n == Len(packets)
           end == Ends(packets)
           at == Aligned(end[n])
           len == NextHeader + 4 + BoundsSize * n
           adbh == [tag |-> "ADBH", offset |-> 0, length |-> end[n]]
           adth == [tag |-> "ADTH", offset |-> at, length |-> len]
           last == adth.offset + adth.length
           qlth == [tag |-> "QLTH", offset |-> last, length |-> NextHeader + 12]
           bytes == IF trailer THEN last + qlth.length ELSE last
           bs == [k \in 1 .. n |-> [offset |-> end[k - 1], length |-> packets[k].len]]
           ts == IF trailer THEN <<adbh, adth, qlth>> ELSE <<adbh, adth>>
           f == DownFrame(seq, packets, trailer)
<1>1. f = [sequence |-> seq, n_bytes |-> bytes, bounds |-> bs, tags |-> ts]
  BY Zenon DEF DownFrame
<1>2. f.n_bytes = bytes /\ f.bounds = bs /\ f.tags = ts
  <2> HIDE DEF f, bytes, bs, ts
  <2> QED
    BY <1>1
<1>3. ts[1].tag = "ADBH" /\ ts[2].tag = "ADTH" /\ ts[2].offset = at /\ ts[2].length = len
  <2>1. ts[1] = adbh /\ ts[2] = adth
    <3>1. CASE trailer
      <4> HIDE DEF adbh, adth, qlth
      <4>1. ts = <<adbh, adth, qlth>>
        BY <3>1, Zenon
      <4> HIDE DEF ts
      <4> QED
        BY <4>1
    <3>2. CASE ~trailer
      <4> HIDE DEF adbh, adth
      <4>1. ts = <<adbh, adth>>
        BY <3>2, Zenon
      <4> HIDE DEF ts
      <4> QED
        BY <4>1
    <3> QED
      BY <3>1, <3>2, Zenon
  <2>2. adbh.tag = "ADBH" /\ adth.tag = "ADTH" /\ adth.offset = at /\ adth.length = len
    <3> HIDE DEF end, at, len
    <3> QED
      OBVIOUS
  <2> HIDE DEF ts, adbh, adth
  <2> QED
    BY <2>1, <2>2, Zenon
<1>4. ~trailer => bytes = at + len
  <2>1. adth.offset = at /\ adth.length = len
    <3> HIDE DEF end, at, len
    <3> QED
      OBVIOUS
  <2> HIDE DEF adth, at, len
  <2> QED
    BY <2>1, Zenon
<1>5. /\ n \in Nat /\ n \in 0 .. n
      /\ \A k \in 1 .. n : packets[k].len \in Nat
      /\ \A k \in 1 .. n : end[k] = end[k - 1] + packets[k].len
      /\ \A k \in 0 .. n : end[k] \in Nat /\ end[k] <= end[n]
  <2>1. n \in Nat /\ n \in 0 .. n /\ \A k \in 1 .. n : packets[k] \in IpPackets
    OBVIOUS
  <2>2. \A x \in IpPackets : x.len \in Nat
    BY DEF IpPackets
  <2>3. \A k \in 1 .. n : end[k] = end[k - 1] + packets[k].len
    BY EndsIs
  <2>4. \A k \in 0 .. n : end[k] \in Nat /\ end[k] <= end[n]
    BY EndsGrow
  <2> QED
    BY <2>1, <2>2, <2>3, <2>4, Zenon
<1> HIDE DEF end, n
<1>6. at \in Nat /\ end[n] <= at /\ end[n] \in Nat
  <2>1. end[n] \in Nat
    BY <1>5, Zenon
  <2> QED
    BY <2>1, AlignedIs
<1>7. ASSUME NEW k \in 1 .. n
      PROVE  /\ bs[k] \in PacketBounds /\ bs[k].offset + bs[k].length <= at
  <2>1. k \in 0 .. n /\ k - 1 \in 0 .. n
    BY <1>5
  <2>2. bs[k] = [offset |-> end[k - 1], length |-> packets[k].len]
    BY Zenon
  <2> DEFINE e1 == end[k - 1]
             e2 == end[k]
             l == packets[k].len
  <2>3. e1 \in Nat /\ l \in Nat /\ e2 = e1 + l /\ e2 \in Nat /\ e2 <= end[n]
    BY <1>5, <2>1, Zenon
  <2> HIDE DEF bs, e1, e2, l, at
  <2>4. bs[k] = [offset |-> e1, length |-> l]
    BY <2>2, Zenon DEF e1, l
  <2>5. bs[k].offset = e1 /\ bs[k].length = l /\ bs[k] \in PacketBounds
    BY <2>3, <2>4 DEF PacketBounds
  <2> QED
    BY <1>6, <2>3, <2>5
<1>8. bs \in Seq(PacketBounds) /\ Len(bs) = n
  <2>1. bs \in [1 .. n -> PacketBounds]
    <3>1. bs = [k \in 1 .. n |-> bs[k]]
      BY Zenon
    <3> HIDE DEF bs
    <3> QED
      BY <1>7, <3>1
  <2> HIDE DEF bs
  <2> QED
    BY <1>5, <2>1, ListIsSeq
<1> HIDE DEF bs, ts, f, bytes, at, len
<1>9. Carries(f, packets, trailer)
  <2>1. f.tags[2].length = NextHeader + 4 + BoundsSize * n
    BY <1>2, <1>3, Zenon DEF len
  <2>2. ~trailer => f.n_bytes = f.tags[2].offset + f.tags[2].length
    BY <1>2, <1>3, <1>4, Zenon
  <2>3. \A k \in 1 .. n : f.bounds[k].offset + f.bounds[k].length <= f.tags[2].offset
    BY <1>2, <1>3, <1>7, Zenon
  <2> QED
    BY <1>2, <1>3, <1>6, <1>8, <2>1, <2>2, <2>3, Zenon DEF Carries, n
<1> QED
  BY <1>9, Zenon DEF f

(* The number of bounds in front of a position.                            *)
LEMMA BoundsCount ==
  ASSUME NEW x \in Nat
  PROVE  /\ (BoundsSize * x) \div BoundsSize = x
         /\ \A y \in Nat : y <= BoundsSize * x => y \div BoundsSize \in 0 .. x
         /\ \A y \in Nat : y \div BoundsSize \in Nat
  BY DEF BoundsSize

(* xmm7360_net_mux_handle_frame hands up what the first bounds hold, all   *)
(* of it if every packet is IP.                                            *)
LEMMA DriverReads ==
  ASSUME NEW f, NEW packets \in Seq(IpPackets), NEW trailer, Carries(f, packets, trailer)
  PROVE  /\ \E i \in 0 .. Len(packets) : HandleFrame(f, packets) = Nonempty(f.bounds)[i]
         /\ (\A k \in DOMAIN packets : packets[k].version \in {4, 6}) =>
              HandleFrame(f, packets) = Nonempty(f.bounds)[Len(packets)]
<1> DEFINE m == Len(packets)
           n == (f.tags[2].length - NextHeader - 4) \div BoundsSize
           ends == {k \in 1 .. n : packets[k].len # 0 /\ packets[k].version \notin {4, 6}}
           upto == IF ends = {} THEN n ELSE Min(ends) - 1
<1>0. m \in Nat /\ m \in 0 .. m /\ DOMAIN packets = 1 .. m
  OBVIOUS
<1>1. f.tags[1].tag = "ADBH" /\ f.tags[2].tag = "ADTH" /\ f.tags[2].length = NextHeader + 4 + BoundsSize * m
  BY Zenon DEF Carries
<1>2. HandleFrame(f, packets) = Nonempty(f.bounds)[upto]
  BY <1>1, Zenon DEF HandleFrame
<1>3. n = m
  <2> DEFINE l == f.tags[2].length
             b == BoundsSize * m
  <2>1. l = NextHeader + 4 + b /\ b \in Nat
    BY <1>0, <1>1 DEF BoundsSize
  <2>2. b \div BoundsSize = m
    BY <1>0, BoundsCount
  <2> HIDE DEF l, b
  <2>3. l - NextHeader - 4 = b
    BY <2>1 DEF NextHeader
  <2> QED
    BY <2>2, <2>3, Zenon DEF l
<1> HIDE DEF n
<1>4. upto \in 0 .. m
  <2>1. CASE ends = {}
    BY <1>0, <1>3, <2>1, Zenon
  <2>2. CASE ends # {}
    <3>1. ends \subseteq Nat /\ ends \subseteq 1 .. m
      BY <1>0, <1>3
    <3> HIDE DEF ends
    <3>2. \E x \in ends : \A y \in ends : x <= y
      BY <2>2, <3>1, LeastNat
    <3>3. Min(ends) \in ends
      BY <3>2, Zenon DEF Min
    <3> DEFINE e == Min(ends)
    <3>4. e \in 1 .. m
      BY <3>1, <3>3, Zenon
    <3> HIDE DEF e
    <3>5. e - 1 \in 0 .. m
      BY <1>0, <3>4
    <3> QED
      BY <2>2, <3>5, Zenon DEF e
  <2> QED
    BY <2>1, <2>2, Zenon
<1>5. (\A k \in DOMAIN packets : packets[k].version \in {4, 6}) => upto = m
  <2> SUFFICES ASSUME \A k \in DOMAIN packets : packets[k].version \in {4, 6} PROVE upto = m
    BY Zenon
  <2>1. ends = {}
    BY <1>0, <1>3, Zenon
  <2> QED
    BY <1>3, <2>1, Zenon
<1> HIDE DEF upto
<1> QED
  BY <1>2, <1>4, <1>5, Zenon DEF m

(* The least of two numbers.                                               *)
LEMMA MinOfTwo ==
  ASSUME NEW x \in Int, NEW y \in Int
  PROVE  Min({x, y}) = IF x <= y THEN x ELSE y
<1> DEFINE z == IF x <= y THEN x ELSE y
<1>1. z \in {x, y} /\ \A w \in {x, y} : z <= w
  OBVIOUS
<1>2. \A w \in {x, y} : (\A v \in {x, y} : w <= v) => w = z
  OBVIOUS
<1> HIDE DEF z
<1>3. Min({x, y}) \in {x, y} /\ \A v \in {x, y} : Min({x, y}) <= v
  BY <1>1, Zenon DEF Min
<1> QED
  BY <1>2, <1>3, Zenon DEF z

(* The greatest of zero and a natural.                                     *)
LEMMA MaxWithZero ==
  ASSUME NEW x \in Nat
  PROVE  Max({0, x}) = x
<1>1. x \in {0, x} /\ \A w \in {0, x} : x >= w
  OBVIOUS
<1>2. \A w \in {0, x} : (\A v \in {0, x} : w >= v) => w = x
  OBVIOUS
<1>3. Max({0, x}) \in {0, x} /\ \A v \in {0, x} : Max({0, x}) >= v
  BY <1>1, Zenon DEF Max
<1> QED
  BY <1>2, <1>3, Zenon

(* read_mux takes the same bounds, as many as it has read, and whole.      *)
LEMMA MuxPyReads ==
  ASSUME NEW f, NEW packets \in Seq(IpPackets), Carries(f, packets, FALSE)
  PROVE  /\ ReadMux(f) \in Seq(PacketBounds)
         /\ Len(ReadMux(f)) <= Len(packets)
         /\ \A k \in 1 .. Len(ReadMux(f)) : ReadMux(f)[k] = f.bounds[k]
         /\ f.n_bytes <= ReadSize => Len(ReadMux(f)) = Len(packets) /\ ~ReadMuxFails(f)
<1> DEFINE m == Len(packets)
           bs == f.bounds
           at == f.tags[2].offset
           size == f.n_bytes
           data == Min({f.n_bytes, ReadSize})
           tail == data - f.tags[2].offset - 16
           n == IF tail < 0 THEN 0 ELSE tail \div BoundsSize
           cut(b) == [offset |-> b.offset, length |-> Max({0, Min({b.length, data - b.offset})})]
           r == ReadMux(f)
<1>0. m \in Nat
  OBVIOUS
<1>1. /\ bs \in Seq(PacketBounds) /\ Len(bs) = m
      /\ \A k \in 1 .. m : bs[k].offset + bs[k].length <= at
      /\ f.tags[1].tag = "ADBH" /\ f.tags[2].tag = "ADTH" /\ at \in Nat
      /\ size = at + (NextHeader + 4 + BoundsSize * m)
  BY Zenon DEF Carries
<1>d. DOMAIN bs = 1 .. m /\ \A k \in 1 .. m : bs[k] \in PacketBounds
  <2> HIDE DEF bs, m
  <2> QED
    BY <1>1
<1>2. r = [k \in 1 .. n |-> IF k \in DOMAIN f.bounds THEN cut(f.bounds[k]) ELSE Junk]
  BY <1>1, Zenon DEF ReadMux
<1> HIDE DEF m, r, bs
<1>s. size \in Nat /\ ReadSize \in Nat /\ size = at + (16 + 8 * m)
  <2>1. ReadSize \in Nat
    BY MuxFrameAssumption DEF ReadSize
  <2>2. NextHeader + 4 + BoundsSize * m = 16 + 8 * m /\ 16 + 8 * m \in Nat
    BY <1>0 DEF NextHeader, BoundsSize
  <2> HIDE DEF size, at
  <2>3. size = at + (16 + 8 * m)
    BY <1>1, <2>2, Zenon
  <2> QED
    <3> DEFINE x == 16 + 8 * m
    <3>1. x \in Nat /\ at \in Nat /\ size = at + x
      BY <1>1, <2>2, <2>3, Zenon
    <3> HIDE DEF x
    <3>2. size \in Nat
      BY <3>1
    <3> QED
      BY <2>1, <2>3, <3>2, Zenon
<1>3. data = IF size <= ReadSize THEN size ELSE ReadSize
  <2>1. size \in Int /\ ReadSize \in Int
    BY <1>s
  <2> QED
    BY <2>1, MinOfTwo, Zenon
<1> HIDE DEF data, at, size
<1>4. data \in Nat /\ data <= size /\ (size <= ReadSize => data = size)
  BY <1>s, <1>3
<1>t. tail = (data - at) - 16
  BY Zenon DEF at
<1>5. n \in 0 .. m /\ (0 < n => at <= data) /\ (size <= ReadSize => n = m)
  <2>1. tail \in Int /\ tail <= BoundsSize * m /\ (size <= ReadSize => tail = BoundsSize * m)
    <3> DEFINE x == 8 * m
    <3>1. x \in Nat /\ BoundsSize * m = x
      BY <1>0 DEF BoundsSize
    <3>2. size = at + (16 + x) /\ at \in Nat
      BY <1>1, <1>s, Zenon
    <3> HIDE DEF x, tail
    <3>3. tail \in Int /\ tail <= x /\ (size <= ReadSize => tail = x)
      BY <1>4, <1>s, <1>t, <3>1, <3>2
    <3> QED
      BY <3>1, <3>3, Zenon
  <2>2. 0 <= tail => at <= data
    BY <1>1, <1>4, <1>t
  <2>3. BoundsSize * m \in Nat /\ 0 \in 0 .. m
    BY <1>0 DEF BoundsSize
  <2> HIDE DEF tail
  <2>4. CASE tail < 0
    <3>1. n = 0 /\ ~(size <= ReadSize)
      BY <2>1, <2>3, <2>4
    <3> QED
      BY <2>3, <3>1
  <2>5. CASE ~(tail < 0)
    <3>1. tail \in Nat /\ n = tail \div BoundsSize
      BY <2>1, <2>5
    <3>2. tail \div BoundsSize \in 0 .. m
      BY <1>0, <2>1, <3>1, BoundsCount
    <3>3. (BoundsSize * m) \div BoundsSize = m
      BY <1>0, BoundsCount
    <3>4. size <= ReadSize => n = m
      BY <2>1, <3>1, <3>3, Zenon
    <3>5. 0 <= tail
      BY <3>1
    <3> QED
      BY <2>2, <3>1, <3>2, <3>4, <3>5, Zenon
  <2> QED
    BY <2>4, <2>5
<1> HIDE DEF n, tail
<1>6. ASSUME NEW k \in 1 .. n PROVE r[k] = bs[k]
  <2>1. k \in 1 .. m /\ 0 < n
    BY <1>0, <1>5
  <2> DEFINE b == bs[k]
             o == b.offset
             l == b.length
  <2>2. r[k] = cut(b)
    BY <1>2, <1>d, <1>6, <2>1, Zenon DEF bs
  <2>3. b \in PacketBounds
    BY <1>d, <2>1, Zenon
  <2>4. o + l <= at
    BY <1>1, <2>1, Zenon
  <2> HIDE DEF b
  <2>5. o \in Nat /\ l \in Nat /\ b = [offset |-> o, length |-> l]
    BY <2>3 DEF PacketBounds
  <2> HIDE DEF o, l
  <2>6. data - o \in Int /\ l <= data - o
    BY <1>1, <1>4, <1>5, <2>1, <2>4, <2>5
  <2>7. Min({l, data - o}) = l
    <3> DEFINE y == data - o
    <3> HIDE DEF y
    <3>1. l \in Int /\ y \in Int /\ l <= y
      BY <2>5, <2>6 DEF y
    <3>2. Min({l, y}) = l
      BY <3>1, MinOfTwo, Zenon
    <3> QED
      BY <3>2, Zenon DEF y
  <2>8. Max({0, l}) = l
    BY <2>5, MaxWithZero
  <2>9. cut(b) = [offset |-> o, length |-> l]
    BY <2>7, <2>8, Zenon DEF o, l
  <2> QED
    BY <2>2, <2>5, <2>9, Zenon DEF b
<1>7. r \in [1 .. n -> PacketBounds]
  <2>1. \A k \in 1 .. n : k \in 1 .. m
    BY <1>0, <1>5
  <2>2. \A k \in 1 .. n : r[k] \in PacketBounds
    BY <1>6, <1>d, <2>1, Zenon
  <2>3. r = [k \in 1 .. n |-> r[k]]
    BY <1>2, Zenon
  <2> QED
    BY <2>2, <2>3
<1>8. n \in Nat /\ n <= m
  BY <1>0, <1>5
<1>9. r \in Seq(PacketBounds) /\ Len(r) = n
  BY <1>7, <1>8, ListIsSeq
<1>10. size <= ReadSize => ~ReadMuxFails(f)
  <2>1. size <= ReadSize => ~(size > ReadSize)
    BY <1>s
  <2> QED
    BY <2>1, Zenon DEF ReadMuxFails, size
<1> QED
  BY <1>5, <1>6, <1>8, <1>9, <1>10, Zenon DEF r, m, bs, size

(* The driver hands up the packets of a frame in order, without the empty  *)
(* ones, all of them if they are IP; mux.py writes the same packets when   *)
(* the frame fits its read, and a beginning of them, none cut short, when  *)
(* it does not: for any number of packets of any lengths and page size.    *)
THEOREM ReadersReadTheSame ==
  ASSUME NEW seq, NEW packets \in Seq(IpPackets), NEW trailer \in BOOLEAN
  PROVE  ReadersAgree(DownFrame(seq, packets, trailer), packets, trailer)
<1> DEFINE f == DownFrame(seq, packets, trailer)
           m == Len(packets)
           bs == f.bounds
           kept == Nonempty(bs)
           all == kept[m]
           driver == HandleFrame(f, packets)
           read == ReadMux(f)
           tun == Nonempty(read)[Len(read)]
<1>1. Carries(f, packets, trailer)
  BY DownFrameCarries
<1> HIDE DEF f
<1>2. bs \in Seq(PacketBounds) /\ Len(bs) = m
  BY <1>1, Zenon DEF Carries
<1>3. /\ \E i \in 0 .. m : driver = kept[i]
      /\ (\A k \in DOMAIN packets : packets[k].version \in {4, 6}) => driver = all
  BY <1>1, DriverReads
<1>4. ASSUME NEW i \in 0 .. m PROVE IsPrefix(kept[i], all)
  <2> HIDE DEF bs
  <2>1. i \in 0 .. Len(bs)
    BY <1>2, <1>4, Zenon
  <2>2. IsPrefix(Nonempty(bs)[i], Nonempty(bs)[Len(bs)])
    BY <1>2, <2>1, KeptGrows
  <2> QED
    BY <1>2, <2>2, Zenon
<1>5. IsPrefix(driver, all)
  <2> HIDE DEF driver, kept
  <2> QED
    BY <1>3, <1>4, Zenon
<1>6. ASSUME ~trailer
      PROVE  IsPrefix(tun, all) /\ (f.n_bytes <= ReadSize => tun = all /\ ~ReadMuxFails(f))
  <2>1. Carries(f, packets, FALSE)
    BY <1>1, <1>6, Zenon DEF Carries
  <2>2. /\ read \in Seq(PacketBounds) /\ Len(read) <= m
        /\ \A k \in 1 .. Len(read) : read[k] = bs[k]
        /\ f.n_bytes <= ReadSize => Len(read) = m /\ ~ReadMuxFails(f)
    BY <2>1, MuxPyReads
  <2> DEFINE n == Len(read)
  <2>3. n \in Nat /\ m \in Nat /\ n <= n /\ n <= Len(bs) /\ n \in 0 .. m
    <3> HIDE DEF read, bs
    <3> QED
      BY <1>2, <2>2
  <2>4. Nonempty(read)[n] = Nonempty(bs)[n]
    <3>1. \A k \in 1 .. n : read[k] = bs[k]
      BY <2>2, Zenon
    <3>2. n <= Len(read)
      BY <2>3, Zenon
    <3> HIDE DEF read, bs, n
    <3> QED
      BY <1>2, <2>2, <2>3, <3>1, <3>2, KeptSame
  <2>5. tun = kept[n]
    BY <2>4, Zenon
  <2> HIDE DEF tun, kept, read
  <2> QED
    BY <1>4, <2>2, <2>3, <2>5, Zenon
<1>7. /\ (\A k \in DOMAIN packets : packets[k].version \in {4, 6}) => driver = all
      /\ ~trailer => IsPrefix(tun, all)
      /\ ~trailer /\ f.n_bytes <= ReadSize => tun = all /\ ~ReadMuxFails(f)
  <2> HIDE DEF tun, all, driver
  <2> QED
    BY <1>3, <1>6, Zenon
<1>8. ReadersAgree(f, packets, trailer)
  BY <1>5, <1>7, Zenon DEF ReadersAgree
<1> QED
  BY <1>8, Zenon DEF f

=============================================================================
