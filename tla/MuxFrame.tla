----------------------------- MODULE MuxFrame ------------------------------
(***************************************************************************)
(* Frames of the multiplexed network channel (struct mux_frame and its     *)
(* operations in xmm7360.c): a tag ADBH, the packets, each behind 16 bytes *)
(* of padding, and a tag ADTH with the bounds of every packet.  A frame is *)
(* its layout: sizes and offsets, not bytes.                               *)
(***************************************************************************)
EXTENDS Integers, Sequences, SequencesExt

CONSTANTS
  MaxSize,          \* frame->max_size, the page size of ring 0 (16384)
  MUX_MAX_PACKETS   \* packets per frame (64)

ASSUME MuxFrameAssumption ==
  /\ MaxSize \in Nat /\ MaxSize % 4 = 0
  /\ MUX_MAX_PACKETS \in Nat /\ MUX_MAX_PACKETS > 0

FirstHeader == 16   \* sizeof(struct mux_first_header)
NextHeader  == 12   \* sizeof(struct mux_next_header)
BoundsSize  == 8    \* sizeof(struct mux_bounds)
Padding     == 16   \* zeros in front of every packet

(* The frame of a failed operation: every operation returns -1 from there. *)
Failed == [ok |-> FALSE]

(* xmm7360_mux_frame_init, which ignores its argument: the frame gets      *)
(* xn->sequence, the number net_flush has already advanced.                *)
FrameInit(seq) ==
  [ok |-> TRUE, sequence |-> seq, n_bytes |-> 0, bounds |-> <<>>, tags |-> <<>>]

(* Broken variant: frame->n_bytes is not rounded up.                       *)
NotAligned(n) == n

(* while (frame->n_bytes & 3) frame->n_bytes++                             *)
Aligned(n) == n + ((4 - (n % 4)) % 4)

(* xmm7360_mux_frame_add_tag; hdr->next of the tag before is the offset of *)
(* this one.                                                               *)
AddTag(f, tag, data_len) ==
  LET at    == Aligned(f.n_bytes)
      total == data_len + IF f.n_bytes = 0 THEN FirstHeader ELSE NextHeader
  IN IF ~f.ok \/ at + total > MaxSize THEN Failed
     ELSE [f EXCEPT !.n_bytes = at + total,
                    !.tags = Append(@, [tag |-> tag, offset |-> at, length |-> total])]

(* xmm7360_mux_frame_append_data                                           *)
AppendData(f, data_len) ==
  IF ~f.ok \/ f.n_bytes + data_len > MaxSize THEN Failed
  ELSE [f EXCEPT !.n_bytes = @ + data_len,
                 !.tags[Len(f.tags)].length = @ + data_len]

(* xmm7360_mux_frame_append_packet                                         *)
AppendPacket(f, len) ==
  IF \/ ~f.ok
     \/ Len(f.bounds) >= MUX_MAX_PACKETS
     \/ f.n_bytes + len + Padding + NextHeader + 4
          + (Len(f.bounds) + 1) * BoundsSize > MaxSize
  THEN Failed
  ELSE AppendData(
         AppendData([f EXCEPT !.bounds = Append(@, [offset |-> f.n_bytes,
                                                    length |-> len + Padding])],
                    Padding),
         len)

(* xmm7360_net_flush's loop: the frame after each of the packets of these  *)
(* lengths.                                                                *)
Filled(seq, lens) ==
  LET frame[k \in 0 .. Len(lens)] ==
        IF k = 0 THEN AddTag(FrameInit(seq), "ADBH", 0)
        ELSE AppendPacket(frame[k - 1], lens[k])
  IN frame

(* xmm7360_net_flush up to the push: the data frame for these packets.     *)
DataFrame(seq, lens) ==
  LET packets == Filled(seq, lens)[Len(lens)]
  IN IF ~packets.ok THEN Failed
     ELSE AppendData(AddTag(packets, "ADTH", 4), BoundsSize * Len(lens))

(* xmm7360_mux_control's frame: the tags ACBH and CMDH with four arguments.*)
ControlFrame(seq) == AddTag(AddTag(FrameInit(seq), "ACBH", 0), "CMDH", 16)

(* Broken variant: the bounds of the new packet are not counted.           *)
MustFlushNoBounds(packets, bytes, len) ==
  \/ packets >= MUX_MAX_PACKETS
  \/ FirstHeader + bytes + NextHeader + 4 + BoundsSize * packets
       + Padding + len > MaxSize

(* xmm7360_net_must_flush: may a packet of this length not join the queue? *)
MustFlush(packets, bytes, len) ==
  \/ packets >= MUX_MAX_PACKETS
  \/ FirstHeader + bytes + NextHeader + 4 + BoundsSize * packets
       + Padding + len + BoundsSize > MaxSize

-----------------------------------------------------------------------------
(* The bytes that the first packets of these lengths take in a frame.      *)
Padded(lens) ==
  LET bytes[k \in 0 .. Len(lens)] ==
        IF k = 0 THEN 0 ELSE bytes[k - 1] + Padding + lens[k]
  IN bytes

(* The size of a frame of n packets that take b bytes.                     *)
FrameBytes(n, b) == Aligned(FirstHeader + b) + NextHeader + 4 + BoundsSize * n

(* A frame the receiver can take apart (xmm7360_net_mux_handle_frame's way *)
(* of reading one): ADTH is aligned and follows the packets, its length    *)
(* gives their number, and their bounds neither overlap nor leave the      *)
(* space between the two tags.                                             *)
WellFormed(f, lens) ==
  LET adth == f.tags[2]
  IN /\ f.n_bytes <= MaxSize
     /\ f.tags[1].tag = "ADBH" /\ adth.tag = "ADTH"
     /\ adth.offset % 4 = 0
     /\ adth.offset + adth.length = f.n_bytes
     /\ (adth.length - NextHeader - 4) \div BoundsSize = Len(lens)
     /\ \A k \in 1 .. Len(lens) :
          LET b == f.bounds[k]
          IN /\ b.length = lens[k] + Padding
             /\ b.offset >= FirstHeader
             /\ b.offset + b.length <=
                  IF k < Len(lens) THEN f.bounds[k + 1].offset ELSE adth.offset

=============================================================================
