---------------------------- MODULE MCQueuePair ----------------------------
(***************************************************************************)
(* QueuePair for TLC: rings of four descriptors and more messages than the *)
(* ring holds, so that it fills up and wraps.  trace.py is the reader of   *)
(* one such queue pair; a read returns what one transfer of the modem      *)
(* holds.  What it makes of n transfers is a constant, for all bounded     *)
(* streams; the invariants say it of the transfers that were read.         *)
(***************************************************************************)
EXTENDS QueuePair, Trace

Transfers == 0 .. MaxMsgs

SamePackets ==
  [n \in Transfers |->
     LET cuts == Cuts(n, 5)
     IN \A stream \in Streams : \A at \in cuts :
          ReadAll(Chunks(stream, n, at)) = Read(Start, stream)]

(* However the transfers read so far cut the stream - inside a packet,     *)
(* between an escape and the byte it escapes, next to a flag - the reader  *)
(* is where one read of the whole stream takes it: the same packets        *)
(* handled, in order and each once, the same rest kept, dead or alive.     *)
CutsDoNotMatter == SamePackets[Len(rx_got)]

\* What was handled is what lies between consecutive flags, unescaped.
BetweenFlags == \A stream \in Streams : Read(Start, stream).seen = Parts(stream)

\* A message behind noise and another packet; the reader has logged it.
Traced(m, val) == <<94>> \o Framed(<<0, 0>>) \o Framed(Wire(m.fmt, m.args, val))
Logged(st, m) ==
  /\ ~st.dead /\ Len(st.seen) = 2
  /\ handle_packet(st.seen[2]) = <<[bad |-> FALSE, fmt |-> m.fmt, args |-> m.args]>>

LoggedInTwo ==
  \A m \in MsgFmts, val \in {0, 3} : \A at \in Cuts(2, Len(Traced(m, val))) :
    Logged(ReadAll(Chunks(Traced(m, val), 2, at)), m)

(* A message the modem sent in the last two transfers is logged with its   *)
(* format and its arguments, in the two layouts that handle_packet knows,  *)
(* after noise and behind another packet, with flag and escape bytes       *)
(* inside, cut anywhere; and the reader survives it.  Of any other stream  *)
(* it has handled exactly what lies between consecutive flags, unescaped.  *)
MessageIsLogged ==
  /\ rx_got # <<>> => BetweenFlags
  /\ Len(rx_got) >= 2 => LoggedInTwo

=============================================================================
