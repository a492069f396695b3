------------------------------- MODULE Trace -------------------------------
(***************************************************************************)
(* trace.py: reads the trace device, whose reads cut the modem's byte      *)
(* stream anywhere, splits the stream at 0x7e, removes the escapes, and    *)
(* logs the packets that hold a message.  The text of a message is the     *)
(* format and its arguments; log's filter on words is left out.            *)
(***************************************************************************)
EXTENDS Integers, Sequences, SequencesExt, FiniteSetsExt

FLAG == 126   \* 0x7e
ESC  == 125   \* 0x7d

(* Broken variant: the byte after an escape is taken as it is.             *)
UnescapeByteRaw(b) == b

(* ch | (1 << 5)                                                           *)
UnescapeByte(b) == IF (b \div 32) % 2 = 1 THEN b ELSE b + 32

(* unescape; an escape at the end of a packet is a StopIteration.          *)
Unescape(p) ==
  LET from[i \in 1 .. Len(p) + 1] ==
        CASE i > Len(p) -> [ok |-> TRUE, val |-> <<>>]
          [] i <= Len(p) /\ p[i] # ESC -> [from[i + 1] EXCEPT !.val = <<p[i]>> \o @]
          [] i < Len(p) /\ p[i] = ESC ->
               [from[i + 2] EXCEPT !.val = <<UnescapeByte(p[i + 1])>> \o @]
          [] i = Len(p) /\ p[i] = ESC -> [ok |-> FALSE, val |-> <<>>]
  IN from[1]

-----------------------------------------------------------------------------
(* decode_printf: a format is a sequence of characters, an argument the    *)
(* bytes of a string or of a number.                                       *)

(* take_string: up to the first NUL, or everything.                        *)
TakeZ(payload) ==
  LET nuls == {i \in DOMAIN payload : payload[i] = 0}
      end  == IF nuls = {} THEN Len(payload) + 1 ELSE Min(nuls)
  IN [string |-> SubSeq(payload, 1, end - 1), rest |-> SubSeq(payload, end + 1, Len(payload))]

PERCENT == 37
StringType == {115}                       \* s
NumberType == {100, 120, 112, 117, 105}   \* d x p u i
Blank      == (9 .. 13) \cup (28 .. 31)
Modifier   == (48 .. 57) \cup Blank \cup {32, 46, 108}   \* digits, isspace, . and l

(* What Python's % accepts between a percent sign and a type; %p exists    *)
(* only in the form that is replaced by 0x%x.                              *)
Accepts(mods, type) ==
  /\ type = 112 => mods = <<>>
  /\ \A i \in DOMAIN mods : mods[i] \notin Blank
  /\ \A i, j \in DOMAIN mods : i < j =>
       /\ mods[i] # 108
       /\ mods[j] = 32 => mods[i] \in {32, 48}
       /\ mods[j] = 46 => mods[i] # 46

(* One directive: its argument is taken from rest.                         *)
Directive(acc, mods, type) ==
  CASE ~acc.ok \/ ~Accepts(mods, type) -> [acc EXCEPT !.ok = FALSE]
    [] acc.ok /\ Accepts(mods, type) /\ type \in StringType ->
         [acc EXCEPT !.rest = TakeZ(@).rest, !.args = Append(@, TakeZ(acc.rest).string)]
    [] acc.ok /\ Accepts(mods, type) /\ type \in NumberType /\ Len(acc.rest) >= 4 ->
         [acc EXCEPT !.rest = SubSeq(@, 5, Len(@)), !.args = Append(@, SubSeq(acc.rest, 1, 4))]
    [] OTHER -> [acc EXCEPT !.ok = FALSE]

(* decode_printf; every exception ends in a BAD PRINTF line.               *)
DecodePrintf(payload) ==
  LET fmt      == TakeZ(payload).string
      percents == SelectSeq([i \in DOMAIN fmt |-> i], LAMBDA i : fmt[i] = PERCENT)
      type(w)  == Min({i \in w + 1 .. Len(fmt) : fmt[i] \notin Modifier} \cup {Len(fmt) + 1})
      step(acc, w) == IF type(w) > Len(fmt) THEN [acc EXCEPT !.ok = FALSE]
                      ELSE Directive(acc, SubSeq(fmt, w + 1, type(w) - 1), fmt[type(w)])
      all      == FoldLeft(step, [ok |-> TRUE, rest |-> TakeZ(payload).rest, args |-> <<>>],
                           percents)
  IN [bad |-> ~all.ok, fmt |-> fmt, args |-> IF all.ok THEN all.args ELSE <<>>]

-----------------------------------------------------------------------------
(* handle_packet: the lines it logs.  struct.unpack needs two bytes.       *)
FatalPacket(packet) == Len(packet) < 2

handle_packet(packet) ==
  LET body    == SubSeq(packet, 1, Len(packet) - 5)   \* strip checksum
      payload == SubSeq(body, IF body[9] = 0 THEN 10 ELSE 14, Len(body))
  IN IF \/ Len(packet) < 13 \/ packet[1] # 0 \/ packet[8] \notin {16, 17}
        \/ Len(body) <= 8 \/ body[9] \notin {0, 3}
     THEN <<>>
     ELSE IF packet[8] = 16 THEN <<[bad |-> FALSE, fmt |-> payload, args |-> <<>>]>>
                            ELSE <<DecodePrintf(payload)>>

(* packet = buf[1:end]                                                     *)
Between(b, start, end) == SubSeq(b, start + 1, end - 1)

(* The byte at position i of the buffer b: the first flag is where the     *)
(* buffer starts from now on, and each later one ends a packet, which is   *)
(* skipped if it is empty.  One that unescape or handle_packet cannot take *)
(* ends the program.                                                       *)
At(s, b, i) ==
  LET flag   == ~s.dead /\ b[i] = FLAG
      packet == flag /\ s.start \notin {0, i - 1}
      u      == Unescape(Between(b, s.start, i))
      fatal  == packet /\ (~u.ok \/ FatalPacket(u.val))
  IN [seen  |-> IF packet /\ ~fatal THEN Append(s.seen, u.val) ELSE s.seen,
      dead  |-> s.dead \/ fatal,
      start |-> IF flag /\ ~fatal THEN i ELSE s.start]

(* The main loop's finds, up to each position of the buffer.               *)
Scan(st, b) ==
  LET upto[i \in 0 .. Len(b)] ==
        IF i = 0 THEN [seen |-> st.seen, dead |-> st.dead, start |-> 0]
        ELSE At(upto[i - 1], b, i)
  IN upto

(* Broken variant: what a read leaves over is not kept for the next one.   *)
ReadForgets(st, new) ==
  LET b   == st.buf \o new
      end == Scan(st, b)[Len(b)]
  IN [seen |-> end.seen, dead |-> end.dead, buf |-> <<>>]

(* One turn of the main loop: the packets handled so far, whether one of   *)
(* them ended the program, and what is left in the buffer.                 *)
Read(st, new) ==
  LET b   == st.buf \o new
      end == Scan(st, b)[Len(b)]
  IN [seen |-> end.seen, dead |-> end.dead,
      buf  |-> IF end.dead \/ end.start = 0 THEN <<>> ELSE SubSeq(b, end.start, Len(b))]

Start == [seen |-> <<>>, dead |-> FALSE, buf |-> <<>>]

ReadAll(chunks) ==
  LET turn[k \in 0 .. Len(chunks)] == IF k = 0 THEN Start ELSE Read(turn[k - 1], chunks[k])
  IN turn[Len(chunks)]

-----------------------------------------------------------------------------
(* The ways in which n reads cut a stream, by the position each ends at,   *)
(* and what they return; what the modem sends (external): packets between  *)
(* flags, with flags and escapes escaped.                                  *)

Cuts(n, len) ==
  {at \in [0 .. n -> 0 .. len] : at[0] = 0 /\ at[n] = len /\ \A k \in 1 .. n : at[k - 1] < at[k]}

Chunks(stream, n, at) == [k \in 1 .. n |-> SubSeq(stream, at[k - 1] + 1, at[k])]

Escape(p) == FlattenSeq([i \in DOMAIN p |-> IF p[i] \in {FLAG, ESC} THEN <<ESC, p[i] - 32>>
                                                                  ELSE <<p[i]>>])
Framed(p) == <<FLAG>> \o Escape(p) \o <<FLAG>>

\* Bounded inputs: streams of five bytes, and messages with their arguments.
Streams  == [1 .. 5 -> {FLAG, ESC, 94, 0}]
MsgFmts  == {[fmt |-> <<72>>, args |-> <<>>],
             [fmt |-> <<37, 115>>, args |-> <<(<<126, 72>>)>>],
             [fmt |-> <<37, 48, 52, 108, 120, 32, 37, 115, 37, 112>>,
              args |-> <<(<<125, 0, 0, 126>>), <<>>, <<0, 0, 0, 0>> >>]}
Wire(fmt, args, val) ==
  LET arg(a) == IF Len(a) = 4 THEN a ELSE a \o <<0>>
  IN <<0, 1, 2, 3, 4, 5, 6, 17, val>> \o (IF val = 3 THEN <<9, 9, 9, 9>> ELSE <<>>)
     \o fmt \o <<0>> \o FlattenSeq([k \in DOMAIN args |-> arg(args[k])]) \o <<1, 2, 3, 4, 126>>

(* Reference: the parts between consecutive flags, the empty ones left     *)
(* out, up to the first that ends the program.                             *)
Parts(stream) ==
  LET flags == SetToSortSeq({j \in DOMAIN stream : stream[j] = FLAG}, <)
      parts == SelectSeq([k \in 1 .. Len(flags) - 1 |->
                            SubSeq(stream, flags[k] + 1, flags[k + 1] - 1)], LAMBDA p : p # <<>>)
      fatal == {k \in DOMAIN parts : LET u == Unescape(parts[k])
                                     IN ~u.ok \/ FatalPacket(u.val)}
      last  == IF fatal = {} THEN Len(parts) ELSE Min(fatal) - 1
  IN [k \in 1 .. last |-> Unescape(parts[k]).val]

=============================================================================
