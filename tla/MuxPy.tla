------------------------------- MODULE MuxPy -------------------------------
(***************************************************************************)
(* Two programs that write and read the frames of the network channel:     *)
(* mux.py, the user-space multiplexer, and the driver.  The uplink is one  *)
(* packet per frame in mux.py; the downlink is read by read_mux and by     *)
(* xmm7360_net_mux_handle_frame.  Frames are layouts, as in MuxFrame.      *)
(***************************************************************************)
EXTENDS MuxFrame, FiniteSetsExt

ReadSize == MaxSize \div 2   \* read_mux reads 8192 bytes, a page has 16384

-----------------------------------------------------------------------------
(* MuxPacket and package.                                                  *)

NewPacket(seq) ==
  [ok |-> TRUE, sequence |-> seq, n_bytes |-> 0, bounds |-> <<>>, tags |-> <<>>]

(* Broken variant: the packet is not padded to a multiple of four.         *)
append_tag_unaligned(p, tag, data_len) ==
  LET total == data_len + (IF p.n_bytes = 0 THEN 8 ELSE 4) + 8
  IN [p EXCEPT !.n_bytes = @ + total,
               !.tags = Append(@, [tag |-> tag, offset |-> p.n_bytes, length |-> total])]

(* append_tag: the first header has a sequence number; a later one is      *)
(* aligned, and the next-tag pointer of the one before is set to it.       *)
append_tag(p, tag, data_len) ==
  LET at    == Aligned(p.n_bytes)
      total == data_len + (IF p.n_bytes = 0 THEN 8 ELSE 4) + 8
  IN [p EXCEPT !.n_bytes = at + total,
               !.tags = Append(@, [tag |-> tag, offset |-> at, length |-> total])]

(* get_packet: the first header's length becomes that of the whole packet. *)
get_packet(p) == [p EXCEPT !.tags[1].length = p.n_bytes]

(* package's self.seq = (self.seq + 1) & 0xff                              *)
NextSeq(seq) == (seq + 1) % 256

(* package, with self.seq = seq before the call and NextSeq(seq) after it. *)
package(seq, len) ==
  LET p == append_tag(append_tag(NewPacket(NextSeq(seq)), "ADBH", Padding + len), "ADTH", 12)
  IN get_packet([p EXCEPT !.bounds = <<[offset |-> 16, length |-> Padding + len]>>])

(* The frame that opens the channel: MuxPacket()'s number is always 0.     *)
control == get_packet(append_tag(append_tag(NewPacket(0), "ACBH", 0), "CMDH", 16))

(* xmm7360_mux_frame_push, before the write.                               *)
Pushed(f) == [f EXCEPT !.tags[1].length = f.n_bytes]

(* A frame without its sequence number.                                    *)
Layout(f) == [f EXCEPT !.sequence = 0]

-----------------------------------------------------------------------------
(* Downlink.  A packet is its length and IP version; the modem's frame     *)
(* (external) has the packets one behind the other, and ADTH with their    *)
(* bounds, which another tag may follow.                                   *)

Ends(packets) ==
  LET end[k \in 0 .. Len(packets)] ==
        IF k = 0 THEN FirstHeader ELSE end[k - 1] + packets[k].len
  IN end

DownFrame(seq, packets, trailer) ==
  LET n    == Len(packets)
      end  == Ends(packets)
      adbh == [tag |-> "ADBH", offset |-> 0, length |-> end[n]]
      adth == [tag |-> "ADTH", offset |-> Aligned(end[n]),
               length |-> NextHeader + 4 + BoundsSize * n]
      last == adth.offset + adth.length
      qlth == [tag |-> "QLTH", offset |-> last, length |-> NextHeader + 12]
  IN [sequence |-> seq,
      n_bytes  |-> IF trailer THEN last + qlth.length ELSE last,
      bounds   |-> [k \in 1 .. n |-> [offset |-> end[k - 1], length |-> packets[k].len]],
      tags     |-> IF trailer THEN <<adbh, adth, qlth>> ELSE <<adbh, adth>>]

(* The bounds with bytes, among the first k.                               *)
Nonempty(bounds) ==
  LET kept[k \in 0 .. Len(bounds)] ==
        IF k = 0 THEN <<>>
        ELSE IF bounds[k].length = 0 THEN kept[k - 1] ELSE Append(kept[k - 1], bounds[k])
  IN kept

(* Broken variant: a packet without bytes ends the loop.                   *)
HandleFrameStops(f, packets) ==
  LET n    == (f.tags[2].length - NextHeader - 4) \div BoundsSize
      ends == {k \in 1 .. n : packets[k].len = 0}
  IN SubSeq(f.bounds, 1, IF ends = {} THEN n ELSE Min(ends) - 1)

(* xmm7360_net_mux_handle_frame: the bounds of the packets it hands up.  A *)
(* packet without bytes is skipped, one that is not IP ends the loop.      *)
HandleFrame(f, packets) ==
  LET adth == f.tags[2]
      n    == (adth.length - NextHeader - 4) \div BoundsSize
      ends == {k \in 1 .. n : packets[k].len # 0 /\ packets[k].version \notin {4, 6}}
      upto == IF ends = {} THEN n ELSE Min(ends) - 1
  IN IF f.tags[1].tag # "ADBH" \/ adth.tag # "ADTH" THEN <<>> ELSE Nonempty(f.bounds)[upto]

Junk == [offset |-> 0, length |-> 0]

(* read_mux: the bounds of what it writes to the tun device, from as much  *)
(* of the frame as it reads.  It takes everything behind ADTH's first      *)
(* sixteen bytes for bounds, whatever ADTH's length says.                  *)
ReadMux(f) ==
  LET data  == Min({f.n_bytes, ReadSize})
      tail  == data - f.tags[2].offset - 16
      n     == IF tail < 0 THEN 0 ELSE tail \div BoundsSize
      cut(b) == [offset |-> b.offset, length |-> Max({0, Min({b.length, data - b.offset})})]
  IN IF f.tags[1].tag # "ADBH" \/ f.tags[2].tag # "ADTH" THEN <<>>
     ELSE [k \in 1 .. n |-> IF k \in DOMAIN f.bounds THEN cut(f.bounds[k]) ELSE Junk]

(* struct.unpack of the rest of a header that the read has cut: an         *)
(* exception, which ends mux.py.                                           *)
ReadMuxFails(f) == ReadSize - f.tags[2].offset \in 4 .. 7 /\ f.n_bytes > ReadSize

(* What the two readers make of one frame.                                 *)
ReadersAgree(f, packets, trailer) ==
  LET all    == Nonempty(f.bounds)[Len(packets)]
      driver == HandleFrame(f, packets)
      read   == ReadMux(f)
      tun    == Nonempty(read)[Len(read)]
  IN /\ IsPrefix(driver, all)
     /\ (\A k \in DOMAIN packets : packets[k].version \in {4, 6}) => driver = all
     /\ ~trailer => IsPrefix(tun, all)
     /\ ~trailer /\ f.n_bytes <= ReadSize => tun = all /\ ~ReadMuxFails(f)

-----------------------------------------------------------------------------
\* Lengths of packets that fit a frame; bounded inputs: downlink packets.
UpLens      == {len \in 0 .. MaxSize : ~MustFlush(0, 0, len)}
DownPackets == [len : {0, 1, 18}, version : {0, 4, 6}]
DownLists   == UNION {[1 .. n -> DownPackets] : n \in 1 .. 3}

=============================================================================
