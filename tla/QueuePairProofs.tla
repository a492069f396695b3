-------------------------- MODULE QueuePairProofs --------------------------
(***************************************************************************)
(* Proofs about QueuePair with at most one writer and one reader, for      *)
(* every depth: the BUG_ONs never fire, and each ring implements Channel.  *)
(* Behind the ring, trace.py: how the transfers cut its stream does not    *)
(* matter, for streams of any length.                                      *)
(***************************************************************************)
EXTENDS MCQueuePair, TLAPS, SequenceTheorems, WellFoundedInduction

SingleWriter == \A v, w \in Writers : v = w
SingleReader == \A q, r \in Readers : q = r

(* Index arithmetic: the wrap-around as a case distinction.                *)
LEMMA NextTdValue ==
  ASSUME NEW i \in Index
  PROVE  /\ NextTd(i) \in Index
         /\ NextTd(i) = IF i = Depth - 1 THEN 0 ELSE i + 1
<1>1. Depth \in Nat /\ Depth > 1 /\ i \in 0 .. Depth - 1
  BY QueuePairAssumption DEF Index
<1>2. CASE i = Depth - 1
  <2>1. i + 1 = Depth
    BY <1>1, <1>2
  <2>2. Depth % Depth = 0
    BY <1>1
  <2> QED
    BY <1>1, <1>2, <2>1, <2>2 DEF NextTd, Index
<1>3. CASE i # Depth - 1
  <2>1. i + 1 \in 0 .. Depth - 1
    BY <1>1, <1>3
  <2>2. (i + 1) % Depth = i + 1
    BY <1>1, <2>1
  <2> QED
    BY <1>1, <1>3, <2>1, <2>2 DEF NextTd, Index
<1> QED
  BY <1>2, <1>3

(* Two descriptors with the same successor are the same.                   *)
LEMMA NextTdOneToOne ==
  ASSUME NEW i \in Index, NEW j \in Index, NextTd(i) = NextTd(j)
  PROVE  i = j
  BY NextTdValue, QueuePairAssumption DEF Index

(* Two descriptors never have the same successor.                          *)
LEMMA NextTdInjective ==
  ASSUME NEW i \in Index, NEW j \in Index, i # j
  PROVE  NextTd(i) # NextTd(j)
<1>1. i \in 0 .. Depth - 1 /\ j \in 0 .. Depth - 1 /\ Depth \in Nat
  BY QueuePairAssumption DEF Index
<1>2. /\ NextTd(i) = IF i = Depth - 1 THEN 0 ELSE i + 1
      /\ NextTd(j) = IF j = Depth - 1 THEN 0 ELSE j + 1
  BY NextTdValue
<1> QED
  BY <1>1, <1>2

(* Distances along the ring.                                               *)
LEMMA DistValue ==
  ASSUME NEW i \in Index, NEW j \in Index
  PROVE  /\ Dist(i, j) \in 0 .. Depth - 1
         /\ (Dist(i, j) = 0) <=> (i = j)
         /\ i # j => Dist(NextTd(i), j) = Dist(i, j) - 1
         /\ NextTd(j) # i => Dist(i, NextTd(j)) = Dist(i, j) + 1
         /\ (NextTd(j) = i) <=> (Dist(i, j) = Depth - 1)
  BY QueuePairAssumption, NextTdValue DEF Dist, Index

(* Positions at the same distance are the same.                            *)
LEMMA DistInjective ==
  ASSUME NEW i \in Index, NEW j \in Index, NEW k \in Index, Dist(i, j) = Dist(i, k)
  PROVE  j = k
  BY QueuePairAssumption DEF Dist, Index

-----------------------------------------------------------------------------
(* The ring towards the modem.                                             *)

TxTypes ==
  /\ kind \in {"cdev", "tty"}
  /\ tx_wptr \in Index /\ tx_rptr \in Index /\ tx_page \in Pages
  /\ wpc \in [Writers -> WriterPc] /\ wmsg \in [Writers -> Messages \cup {NoMsg}]
  /\ wwptr \in [Writers -> Index]
  /\ user_buf \in Messages \cup {NoMsg}
  /\ tx_sent \in Seq(Messages) /\ tx_got \in Seq(Messages)
  /\ offered \in Nat

(* The pages between the pointers hold, in order, what was published and   *)
(* not yet taken; a writer past the full test has a free page (the modem   *)
(* only makes room), and fills it with its own message.                    *)
TxInv ==
  /\ TxTypes
  /\ Dist(tx_rptr, tx_wptr) = Len(tx_sent) - Len(tx_got)
  /\ \A i \in Index : Dist(tx_rptr, i) < Dist(tx_rptr, tx_wptr) =>
       tx_page[i] = tx_sent[Len(tx_got) + 1 + Dist(tx_rptr, i)]
  /\ \A w \in Writers :
       /\ wpc[w] # "idle" => wmsg[w] \in Messages
       /\ wpc[w] \in {"flag", "asleep"} => kind = "tty"
       /\ wpc[w] \in {"qp_write", "copy"} /\ kind = "cdev" => user_buf = wmsg[w]
       /\ wpc[w] \in {"copy", "publish"} => ~TxFull
       /\ wpc[w] = "publish" => wwptr[w] = tx_wptr /\ tx_page[tx_wptr] = wmsg[w]

(* What the modem takes is a message of the log, the next one.             *)
LEMMA TxHead ==
  ASSUME TxInv, tx_rptr # tx_wptr
  PROVE  /\ Len(tx_got) < Len(tx_sent)
         /\ tx_page[tx_rptr] = tx_sent[Len(tx_got) + 1]
         /\ tx_page[tx_rptr] \in Messages
<1>1. /\ Dist(tx_rptr, tx_rptr) = 0
      /\ Dist(tx_rptr, tx_wptr) > 0
      /\ Dist(tx_rptr, tx_wptr) \in Nat
  BY DistValue, QueuePairAssumption DEF TxInv, TxTypes
<1>2. tx_page[tx_rptr] = tx_sent[Len(tx_got) + 1 + 0]
  BY <1>1 DEF TxInv, TxTypes
<1> QED
  BY <1>1, <1>2 DEF TxInv, TxTypes

(* At first nothing is written.                                            *)
LEMMA TxInit == Init => TxInv
<1> SUFFICES ASSUME Init PROVE TxInv
  OBVIOUS
<1>1. 0 \in Index /\ Dist(0, 0) = 0
  BY QueuePairAssumption DEF Index, Dist
<1>2. \A i \in Index : Dist(0, i) \in Nat
  BY <1>1, DistValue, QueuePairAssumption
<1> QED
  BY <1>1, <1>2 DEF Init, TxInv, TxTypes, Pages, WriterPc

(* Every step keeps TxInv.                                                 *)
LEMMA TxStep == SingleWriter /\ TxInv /\ [Next]_vars => TxInv'
<1> SUFFICES ASSUME SingleWriter, TxInv, [Next]_vars PROVE TxInv'
  OBVIOUS
<1>0. TxTypes
  BY DEF TxInv
<1>1. ASSUME NEW w \in Writers, CdevWrite(w) \/ TtyWrite(w) PROVE TxInv'
  <2>1. /\ offered \in Nat /\ offered < MaxMsgs
        /\ offered' = offered + 1 /\ wmsg' = [wmsg EXCEPT ![w] = offered + 1]
        /\ wpc' = [wpc EXCEPT ![w] = "qp_write"]
        /\ kind = "cdev" => user_buf' = offered + 1
        /\ user_buf' \in {offered + 1, user_buf}
        /\ UNCHANGED <<tx_wptr, tx_rptr, tx_page, tx_sent, tx_got, wwptr, kind>>
    BY <1>0, <1>1 DEF CdevWrite, TtyWrite, WriterAt, TxTypes, txVars, devVars
  <2>2. offered + 1 \in Messages
    BY <2>1, QueuePairAssumption DEF Messages
  <2>3. TxTypes'
    BY <1>0, <2>1, <2>2 DEF TxTypes, WriterPc
  <2>4. TxFull' = TxFull
    BY <2>1 DEF TxFull
  <2>5. \A v \in Writers : v = w
    BY DEF SingleWriter
  <2> QED
    BY <1>0, <2>1, <2>2, <2>3, <2>4, <2>5 DEF TxInv, TxTypes
<1>2. ASSUME NEW w \in Writers, QpWrite(w) PROVE TxInv'
  <2>1. /\ wpc[w] = "qp_write"
        /\ \/ wpc' = [wpc EXCEPT ![w] = "idle"]
           \/ wpc' = [wpc EXCEPT ![w] = "flag"] /\ kind = "tty"
           \/ wpc' = [wpc EXCEPT ![w] = "copy"] /\ ~TxFull
        /\ UNCHANGED <<tx_wptr, tx_rptr, tx_page, tx_sent, tx_got, wmsg, wwptr, kind,
                       user_buf, offered>>
    BY <1>2 DEF QpWrite, WriterAt, txVars, devVars
  <2>2. TxTypes'
    BY <1>0, <2>1 DEF TxTypes, WriterPc
  <2>3. TxFull' = TxFull
    BY <2>1 DEF TxFull
  <2> QED
    BY <1>0, <2>1, <2>2, <2>3 DEF TxInv, TxTypes
<1>3. ASSUME NEW w \in Writers, TdRingCopy(w) PROVE TxInv'
  <2>1. /\ wpc[w] = "copy" /\ wpc' = [wpc EXCEPT ![w] = "publish"]
        /\ wwptr' = [wwptr EXCEPT ![w] = tx_wptr]
        /\ tx_page' = [tx_page EXCEPT ![tx_wptr] = wmsg[w]]
        /\ UNCHANGED <<tx_wptr, tx_rptr, tx_sent, tx_got, wmsg, kind, user_buf, offered>>
    BY <1>0, <1>3 DEF TdRingCopy, WriterAt, devVars, TxInv, TxTypes
  <2>2. wmsg[w] \in Messages
    BY <2>1 DEF TxInv
  <2>3. TxTypes'
    BY <1>0, <2>1, <2>2 DEF TxTypes, WriterPc, Pages
  <2>4. TxFull' = TxFull
    BY <2>1 DEF TxFull
  <2>5. \A i \in Index : Dist(tx_rptr, i) < Dist(tx_rptr, tx_wptr) => i # tx_wptr
    BY <1>0, DistValue, QueuePairAssumption DEF TxTypes
  <2>6. \A i \in Index : Dist(tx_rptr, i) < Dist(tx_rptr, tx_wptr) =>
          tx_page'[i] = tx_sent[Len(tx_got) + 1 + Dist(tx_rptr, i)]
    BY <1>0, <2>1, <2>5 DEF TxInv, TxTypes, Pages
  <2>7. tx_page'[tx_wptr] = wmsg[w] /\ wwptr'[w] = tx_wptr
    BY <1>0, <2>1 DEF TxTypes, Pages
  <2>8. \A v \in Writers : v = w
    BY DEF SingleWriter
  <2> QED
    BY <1>0, <2>1, <2>2, <2>3, <2>4, <2>6, <2>7, <2>8 DEF TxInv, TxTypes
<1>4. ASSUME NEW w \in Writers, TdRingWrite(w) PROVE TxInv'
  <2>1. /\ wpc[w] = "publish" /\ wpc' = [wpc EXCEPT ![w] = "ding"]
        /\ tx_wptr' = NextTd(tx_wptr) /\ NextTd(tx_wptr) # tx_rptr
        /\ tx_page[tx_wptr] = wmsg[w] /\ wmsg[w] \in Messages
        /\ tx_sent' = Append(tx_sent, wmsg[w])
        /\ UNCHANGED <<tx_rptr, tx_page, tx_got, wmsg, wwptr, kind, user_buf, offered>>
    BY <1>0, <1>4 DEF TdRingWrite, WriterAt, devVars, TxInv, TxTypes
  <2>2. TxTypes'
    BY <1>0, <2>1, NextTdValue DEF TxTypes, WriterPc
  <2>3. /\ Dist(tx_rptr, tx_wptr) \in Nat
        /\ Dist(tx_rptr, tx_wptr') = Dist(tx_rptr, tx_wptr) + 1
        /\ Len(tx_sent') = Len(tx_sent) + 1
    BY <1>0, <2>1, DistValue, QueuePairAssumption DEF TxTypes
  <2>4. ASSUME NEW i \in Index, Dist(tx_rptr, i) < Dist(tx_rptr, tx_wptr')
        PROVE  tx_page[i] = tx_sent'[Len(tx_got) + 1 + Dist(tx_rptr, i)]
    <3>1. Dist(tx_rptr, i) \in Nat /\ tx_rptr \in Index /\ tx_wptr \in Index
      BY <1>0, DistValue, QueuePairAssumption DEF TxTypes
    <3>2. CASE Dist(tx_rptr, i) < Dist(tx_rptr, tx_wptr)
      BY <1>0, <2>1, <2>3, <3>1, <3>2 DEF TxInv, TxTypes
    <3>3. CASE Dist(tx_rptr, i) = Dist(tx_rptr, tx_wptr)
      <4>1. i = tx_wptr
        BY <3>1, <3>3, DistInjective
      <4>2. Len(tx_got) + 1 + Dist(tx_rptr, i) = Len(tx_sent) + 1
        BY <1>0, <3>1, <3>3 DEF TxInv, TxTypes
      <4> QED
        BY <1>0, <2>1, <4>1, <4>2 DEF TxTypes
    <3> QED
      BY <2>3, <2>4, <3>1, <3>2, <3>3
  <2>5. \A v \in Writers : v = w
    BY DEF SingleWriter
  <2>6. Dist(tx_rptr, tx_wptr)' = (Len(tx_sent) - Len(tx_got))'
    BY <1>0, <2>1, <2>3 DEF TxInv, TxTypes, Dist
  <2> QED
    BY <1>0, <2>1, <2>2, <2>4, <2>5, <2>6 DEF TxInv, TxTypes, Dist
<1>5. ASSUME NEW w \in Writers, WriteDing(w) \/ TtyFlag(w) PROVE TxInv'
  <2>1. /\ \/ wpc' = [wpc EXCEPT ![w] = "idle"]
           \/ wpc[w] = "flag" /\ wpc' = [wpc EXCEPT ![w] = "asleep"]
        /\ UNCHANGED <<tx_wptr, tx_rptr, tx_page, tx_sent, tx_got, wmsg, wwptr, kind,
                       user_buf, offered>>
    BY <1>5 DEF WriteDing, TtyFlag, WriterAt, txVars, devVars
  <2>2. TxTypes'
    BY <1>0, <2>1 DEF TxTypes, WriterPc
  <2>3. TxFull' = TxFull
    BY <2>1 DEF TxFull
  <2> QED
    BY <1>0, <2>1, <2>2, <2>3 DEF TxInv, TxTypes
<1>6. ASSUME NEW r \in Readers, TtyWakeup(r) PROVE TxInv'
  <2>1. /\ \/ wpc' = [w \in Writers |-> IF wpc[w] = "asleep" THEN "qp_write" ELSE wpc[w]]
           \/ wpc' = wpc
        /\ UNCHANGED <<tx_wptr, tx_rptr, tx_page, tx_sent, tx_got, wmsg, wwptr, kind,
                       user_buf, offered>>
    BY <1>6 DEF TtyWakeup, txVars, devVars
  <2>2. TxTypes'
    BY <1>0, <2>1 DEF TxTypes, WriterPc
  <2>3. TxFull' = TxFull
    BY <2>1 DEF TxFull
  <2> QED
    BY <1>0, <2>1, <2>2, <2>3 DEF TxInv, TxTypes
<1>7. ASSUME ModemTake PROVE TxInv'
  <2>1. /\ tx_rptr # tx_wptr /\ tx_rptr' = NextTd(tx_rptr)
        /\ tx_got' = Append(tx_got, tx_page[tx_rptr])
        /\ UNCHANGED <<tx_wptr, tx_page, tx_sent, wpc, wmsg, wwptr, kind, user_buf, offered>>
    BY <1>7 DEF ModemTake, wVars
  <2>2. tx_page[tx_rptr] \in Messages
    BY <2>1, TxHead
  <2>3. TxTypes'
    BY <1>0, <2>1, <2>2, NextTdValue DEF TxTypes
  <2>4. /\ Dist(tx_rptr, tx_wptr) \in Nat
        /\ Dist(tx_rptr', tx_wptr) = Dist(tx_rptr, tx_wptr) - 1
        /\ Len(tx_got') = Len(tx_got) + 1
    BY <1>0, <2>1, <2>2, DistValue, QueuePairAssumption DEF TxTypes
  <2>5. ASSUME NEW i \in Index, Dist(tx_rptr', i) < Dist(tx_rptr', tx_wptr)
        PROVE  tx_page[i] = tx_sent[Len(tx_got') + 1 + Dist(tx_rptr', i)]
    <3>1. /\ tx_rptr \in Index /\ tx_rptr' \in Index
          /\ Dist(tx_rptr, i) \in Nat /\ Dist(tx_rptr', i) \in Nat
          /\ Dist(tx_rptr', tx_rptr) = Depth - 1
          /\ Dist(tx_rptr, tx_wptr) <= Depth - 1
      BY <1>0, <2>1, <2>3, DistValue, NextTdValue, QueuePairAssumption DEF TxTypes
    <3>2. i # tx_rptr
      BY <2>4, <2>5, <3>1, QueuePairAssumption
    <3>3. Dist(tx_rptr', i) = Dist(tx_rptr, i) - 1
      BY <2>1, <3>1, <3>2, DistValue
    <3>4. Dist(tx_rptr, i) < Dist(tx_rptr, tx_wptr)
      BY <2>4, <2>5, <3>1, <3>3
    <3>5. tx_page[i] = tx_sent[Len(tx_got) + 1 + Dist(tx_rptr, i)]
      BY <3>4 DEF TxInv
    <3>6. Len(tx_got) \in Nat
      BY <1>0 DEF TxTypes
    <3>7. Len(tx_got) + 1 + Dist(tx_rptr, i) = Len(tx_got') + 1 + Dist(tx_rptr', i)
      BY <2>4, <3>1, <3>3, <3>6
    <3> QED
      BY <3>5, <3>7
  <2>6. (\E w \in Writers : wpc[w] \in {"copy", "publish"}) => ~TxFull'
    <3>1. tx_rptr \in Index /\ tx_wptr \in Index /\ tx_wptr' = tx_wptr
      BY <1>0, <2>1 DEF TxTypes
    <3>2. NextTd(tx_wptr) # NextTd(tx_rptr)
      BY <2>1, <3>1, NextTdOneToOne
    <3> QED
      BY <2>1, <3>1, <3>2, Zenon DEF TxFull
  <2>7. Dist(tx_rptr, tx_wptr)' = (Len(tx_sent) - Len(tx_got))'
    BY <1>0, <2>1, <2>4 DEF TxInv, TxTypes, Dist
  <2> QED
    BY <1>0, <2>1, <2>3, <2>5, <2>6, <2>7 DEF TxInv, TxTypes, Dist
<1>8. ASSUME UNCHANGED <<kind, tx_wptr, tx_rptr, tx_page, wpc, wmsg, wwptr, user_buf,
                         tx_sent, tx_got, offered>>
      PROVE  TxInv'
  BY <1>8 DEF TxInv, TxTypes, TxFull, Dist
<1>9. ASSUME NEW r \in Readers,
             \/ CdevRead(r) \/ ReadSignal(r) \/ ReadCheck(r) \/ ReadCopy(r)
             \/ TdRingArm(r) \/ TdRingRead(r) \/ ReadDing(r) \/ ReadHandled(r)
             \/ TtyClear(r)
      PROVE  TxInv'
  BY <1>8, <1>9 DEF CdevRead, ReadSignal, ReadCheck, ReadCopy, TdRingArm, TdRingRead,
     ReadDing, ReadHandled, TtyClear, txVars, wVars, devVars
<1>10. ASSUME IrqHandler \/ ModemFill \/ ModemCrash \/ UNCHANGED vars PROVE TxInv'
  BY <1>8, <1>10 DEF IrqHandler, ModemFill, ModemCrash, vars, txVars, wVars, devVars
<1> QED
  BY <1>1, <1>2, <1>3, <1>4, <1>5, <1>6, <1>7, <1>9, <1>10
     DEF Next, WriterStep, ReaderStep

-----------------------------------------------------------------------------
(* The ring from the modem.                                                *)

(* Positions of a reader that has copied a message and not yet moved       *)
(* last_handled past it, before and after re-arming a descriptor.          *)
Copied == {"rearm", "publish", "ding", "handled"}
Rearmed == {"ding", "handled"}
Ahead == \E r \in Readers : rpc[r] \in Copied

\* The first page not yet copied.
FirstUnread == IF Ahead THEN NextTd(last_handled) ELSE last_handled

RxTypes ==
  /\ rx_wptr \in Index /\ rx_rptr \in Index /\ rx_page \in Pages
  /\ last_handled \in Index
  /\ rpc \in [Readers -> ReaderPc] /\ ridx \in [Readers -> Index]
  /\ rwptr \in [Readers -> Index]
  /\ rx_sent \in Seq(Messages) /\ rx_got \in Seq(Messages)

(* The unread pages hold, in order, what the modem sent and nobody copied; *)
(* the modem's descriptors end one short of last_handled, or at it between *)
(* re-arming and moving it; the page being read is not the modem's.        *)
RxInv ==
  /\ RxTypes
  /\ Dist(FirstUnread, rx_rptr) = Len(rx_sent) - Len(rx_got)
  /\ \A i \in Index : Dist(FirstUnread, i) < Dist(FirstUnread, rx_rptr) =>
       rx_page[i] = rx_sent[Len(rx_got) + 1 + Dist(FirstUnread, i)]
  /\ IF \E r \in Readers : rpc[r] \in Rearmed THEN rx_wptr = last_handled
                                              ELSE NextTd(rx_wptr) = last_handled
  /\ \A r \in Readers :
       /\ rpc[r] \in {"copy"} \cup Copied => ridx[r] = last_handled
       /\ rpc[r] \in {"copy", "rearm", "publish"} => HasData
       /\ rpc[r] = "publish" => rwptr[r] = rx_wptr

(* At first every receive buffer is posted, none filled.                   *)
LEMMA RxInit == Init => RxInv
<1> SUFFICES ASSUME Init PROVE RxInv
  OBVIOUS
<1>1. 0 \in Index /\ Dist(0, 0) = 0 /\ Depth - 1 \in Index
  BY QueuePairAssumption DEF Index, Dist
<1>2. NextTd(Depth - 1) = 0
  BY <1>1, NextTdValue
<1>3. \A i \in Index : Dist(0, i) \in Nat
  BY <1>1, DistValue, QueuePairAssumption
<1>4. ~Ahead /\ \A r \in Readers : rpc[r] \notin Rearmed
  BY DEF Init, Ahead, Copied, Rearmed
<1>5. FirstUnread = 0
  BY <1>4 DEF FirstUnread, Init
<1> QED
  BY <1>1, <1>2, <1>3, <1>4, <1>5 DEF Init, RxInv, RxTypes, Pages, ReaderPc, Copied

(* The positions at which a reader has no message in hand.                 *)
Quiet == {"idle", "check", "sleep", "wake", "clear"}

(* Steps between quiet positions change nothing RxInv speaks of.           *)
LEMMA RxQuietStep ==
  ASSUME RxInv,
         rpc' \in [Readers -> ReaderPc],
         \A r \in Readers : rpc'[r] = rpc[r] \/ (rpc[r] \in Quiet /\ rpc'[r] \in Quiet),
         UNCHANGED <<rx_wptr, rx_rptr, rx_page, last_handled, rx_sent, rx_got, ridx, rwptr>>
  PROVE  RxInv'
<1>1. /\ Ahead' = Ahead
      /\ (\E r \in Readers : rpc'[r] \in Rearmed) <=> (\E r \in Readers : rpc[r] \in Rearmed)
  BY DEF Ahead, Copied, Rearmed, Quiet
<1>2. FirstUnread' = FirstUnread /\ HasData' = HasData
  BY <1>1 DEF FirstUnread, HasData
<1>3. RxTypes'
  BY DEF RxInv, RxTypes
<1>4. \A r \in Readers :
        /\ rpc'[r] \in {"copy"} \cup Copied => ridx[r] = last_handled
        /\ rpc'[r] \in {"copy", "rearm", "publish"} => HasData
        /\ rpc'[r] = "publish" => rwptr[r] = rx_wptr
  BY DEF RxInv, Copied, Quiet
<1> QED
  BY <1>1, <1>2, <1>3, <1>4 DEF RxInv, Dist

(* Every step keeps RxInv.                                                 *)
LEMMA RxStep == SingleReader /\ RxInv /\ [Next]_vars => RxInv'
<1> SUFFICES ASSUME SingleReader, RxInv, [Next]_vars PROVE RxInv'
  OBVIOUS
<1>0. RxTypes
  BY DEF RxInv
<1>1. ASSUME NEW r \in Readers,
             \/ CdevRead(r) \/ ReadSignal(r) \/ TtyWakeup(r) \/ TtyClear(r)
             \/ ReadCheck(r) /\ rpc'[r] # "copy"
      PROVE  RxInv'
  <2>1. /\ rpc[r] \in Quiet
        /\ \E to \in Quiet : rpc' = [rpc EXCEPT ![r] = to]
        /\ UNCHANGED <<rx_wptr, rx_rptr, rx_page, last_handled, rx_sent, rx_got, ridx, rwptr>>
    BY <1>0, <1>1 DEF CdevRead, ReadSignal, TtyWakeup, TtyClear, ReadCheck, ReaderAt,
       rxVars, Quiet, RxTypes
  <2> QED
    BY <1>0, <2>1, RxQuietStep DEF RxTypes, ReaderPc, Quiet
<1>2. ASSUME IrqHandler PROVE RxInv'
  <2>1. /\ \E woken \in {"sleep", "idle"} :
             rpc' = [r \in Readers |-> IF rpc[r] = woken THEN "check" ELSE rpc[r]]
        /\ UNCHANGED <<rx_wptr, rx_rptr, rx_page, last_handled, rx_sent, rx_got, ridx, rwptr>>
    BY <1>2 DEF IrqHandler, rxVars
  <2> QED
    BY <1>0, <2>1, RxQuietStep DEF RxTypes, ReaderPc, Quiet
<1>3. ASSUME NEW r \in Readers, ReadCheck(r), rpc'[r] = "copy" PROVE RxInv'
  <2>1. /\ rpc[r] = "check" /\ HasData /\ rpc' = [rpc EXCEPT ![r] = "copy"]
        /\ ridx' = [ridx EXCEPT ![r] = last_handled]
        /\ UNCHANGED <<rx_wptr, rx_rptr, rx_page, last_handled, rx_sent, rx_got, rwptr>>
    BY <1>0, <1>3 DEF ReadCheck, ReaderAt, rxVars, RxTypes
  <2>2. \A q \in Readers : q = r
    BY DEF SingleReader
  <2>3. ~Ahead /\ ~Ahead' /\ ~(\E q \in Readers : rpc[q] \in Rearmed)
                         /\ ~(\E q \in Readers : rpc'[q] \in Rearmed)
    BY <1>0, <2>1, <2>2 DEF Ahead, Copied, Rearmed, RxTypes
  <2>4. FirstUnread' = FirstUnread /\ HasData'
    BY <2>1, <2>3 DEF FirstUnread, HasData
  <2>5. RxTypes'
    BY <1>0, <2>1 DEF RxTypes, ReaderPc
  <2> QED
    BY <1>0, <2>1, <2>2, <2>3, <2>4, <2>5 DEF RxInv, RxTypes, Dist
<1>4. ASSUME NEW r \in Readers, ReadCopy(r) PROVE RxInv'
  <2>1. /\ rpc[r] = "copy" /\ rpc' = [rpc EXCEPT ![r] = "rearm"]
        /\ ridx[r] = last_handled /\ HasData
        /\ rx_got' = Append(rx_got, rx_page[last_handled])
        /\ UNCHANGED <<rx_wptr, rx_rptr, rx_page, last_handled, rx_sent, ridx, rwptr>>
    BY <1>0, <1>4 DEF ReadCopy, ReaderAt, RxInv, RxTypes
  <2>2. \A q \in Readers : q = r
    BY DEF SingleReader
  <2>3. ~Ahead /\ Ahead' /\ ~(\E q \in Readers : rpc[q] \in Rearmed)
                        /\ ~(\E q \in Readers : rpc'[q] \in Rearmed)
    BY <1>0, <2>1, <2>2 DEF Ahead, Copied, Rearmed, RxTypes
  <2>4. FirstUnread = last_handled /\ FirstUnread' = NextTd(last_handled) /\ HasData'
    BY <2>1, <2>3 DEF FirstUnread, HasData
  <2>5. /\ last_handled \in Index /\ rx_rptr \in Index /\ last_handled # rx_rptr
        /\ NextTd(last_handled) \in Index
    BY <1>0, <2>1, NextTdValue DEF RxTypes, HasData
  <2>6. /\ Dist(last_handled, rx_rptr) \in Nat /\ Dist(last_handled, rx_rptr) > 0
        /\ Dist(last_handled, rx_rptr) <= Depth - 1
        /\ Dist(last_handled, last_handled) = 0
        /\ Dist(NextTd(last_handled), rx_rptr) = Dist(last_handled, rx_rptr) - 1
        /\ Dist(NextTd(last_handled), last_handled) = Depth - 1
    BY <2>5, DistValue, QueuePairAssumption
  <2>7. rx_page[last_handled] = rx_sent[Len(rx_got) + 1 + 0]
    BY <2>4, <2>5, <2>6 DEF RxInv
  <2>8. Len(rx_got) \in Nat /\ Len(rx_sent) \in Nat /\ Len(rx_got) < Len(rx_sent)
    BY <1>0, <2>4, <2>6 DEF RxInv, RxTypes
  <2>9. rx_page[last_handled] \in Messages
    BY <1>0, <2>7, <2>8 DEF RxTypes
  <2>10. Len(rx_got') = Len(rx_got) + 1
    BY <1>0, <2>1, <2>9 DEF RxTypes
  <2>11. RxTypes'
    BY <1>0, <2>1, <2>9 DEF RxTypes, ReaderPc
  <2>12. Dist(FirstUnread, rx_rptr)' = (Len(rx_sent) - Len(rx_got))'
    BY <2>1, <2>4, <2>6, <2>8, <2>10 DEF RxInv, Dist
  <2>13. ASSUME NEW i \in Index,
                Dist(NextTd(last_handled), i) < Dist(NextTd(last_handled), rx_rptr)
         PROVE  rx_page[i] = rx_sent[Len(rx_got') + 1 + Dist(NextTd(last_handled), i)]
    <3>1. i # last_handled /\ Dist(last_handled, i) \in Nat
      BY <2>5, <2>6, <2>13, DistValue, QueuePairAssumption
    <3>2. Dist(NextTd(last_handled), i) = Dist(last_handled, i) - 1
      BY <2>5, <3>1, DistValue
    <3>3. rx_page[i] = rx_sent[Len(rx_got) + 1 + Dist(last_handled, i)]
      BY <2>4, <2>6, <2>13, <3>1, <3>2 DEF RxInv
    <3>4. Len(rx_got) + 1 + Dist(last_handled, i)
            = Len(rx_got') + 1 + Dist(NextTd(last_handled), i)
      BY <2>8, <2>10, <3>1, <3>2
    <3> QED
      BY <3>3, <3>4
  <2> QED
    BY <1>0, <2>1, <2>2, <2>3, <2>4, <2>11, <2>12, <2>13 DEF RxInv, RxTypes, Dist
<1>5. ASSUME NEW r \in Readers, TdRingArm(r) \/ ReadDing(r) PROVE RxInv'
  <2>1. /\ \/ /\ rpc[r] = "rearm" /\ rpc' = [rpc EXCEPT ![r] = "publish"]
              /\ rwptr' = [rwptr EXCEPT ![r] = rx_wptr]
           \/ /\ rpc[r] = "ding" /\ rpc' = [rpc EXCEPT ![r] = "handled"]
              /\ rwptr' = rwptr
        /\ UNCHANGED <<rx_wptr, rx_rptr, rx_page, last_handled, rx_sent, rx_got, ridx>>
    BY <1>5 DEF TdRingArm, ReadDing, ReaderAt, rxVars
  <2>2. \A q \in Readers : q = r
    BY DEF SingleReader
  <2>3. /\ Ahead /\ Ahead'
        /\ (\E q \in Readers : rpc'[q] \in Rearmed) <=> (\E q \in Readers : rpc[q] \in Rearmed)
    BY <1>0, <2>1, <2>2 DEF Ahead, Copied, Rearmed, RxTypes
  <2>4. FirstUnread' = FirstUnread /\ HasData' = HasData
    BY <2>1, <2>3 DEF FirstUnread, HasData
  <2>5. RxTypes'
    BY <1>0, <2>1 DEF RxTypes, ReaderPc
  <2>6. /\ ridx[r] = last_handled
        /\ rpc'[r] = "publish" => HasData /\ rwptr'[r] = rx_wptr
        /\ rpc'[r] \in {"publish", "handled"}
    BY <1>0, <2>1 DEF RxInv, RxTypes, Copied
  <2> QED
    BY <1>0, <2>1, <2>2, <2>3, <2>4, <2>5, <2>6 DEF RxInv, RxTypes, Dist
<1>6. ASSUME NEW r \in Readers, TdRingRead(r) PROVE RxInv'
  <2>1. /\ rpc[r] = "publish" /\ rpc' = [rpc EXCEPT ![r] = "ding"]
        /\ rwptr[r] = rx_wptr /\ rx_wptr' = NextTd(rx_wptr)
        /\ UNCHANGED <<rx_rptr, rx_page, last_handled, rx_sent, rx_got, ridx, rwptr>>
    BY <1>0, <1>6 DEF TdRingRead, ReaderAt, RxInv, RxTypes
  <2>2. \A q \in Readers : q = r
    BY DEF SingleReader
  <2>3. /\ Ahead /\ Ahead' /\ rpc'[r] \in Rearmed
        /\ ~(\E q \in Readers : rpc[q] \in Rearmed)
    BY <1>0, <2>1, <2>2 DEF Ahead, Copied, Rearmed, RxTypes
  <2>4. FirstUnread' = FirstUnread
    BY <2>1, <2>3 DEF FirstUnread
  <2>5. RxTypes'
    BY <1>0, <2>1, NextTdValue DEF RxTypes, ReaderPc
  <2>6. rx_wptr' = last_handled /\ ridx[r] = last_handled
    BY <2>1, <2>3 DEF RxInv, Copied
  <2> QED
    BY <1>0, <2>1, <2>2, <2>3, <2>4, <2>5, <2>6 DEF RxInv, RxTypes, Dist
<1>7. ASSUME NEW r \in Readers, ReadHandled(r) PROVE RxInv'
  <2>1. /\ rpc[r] = "handled" /\ \E to \in {"idle", "check"} : rpc' = [rpc EXCEPT ![r] = to]
        /\ last_handled' = NextTd(last_handled)
        /\ UNCHANGED <<rx_wptr, rx_rptr, rx_page, rx_sent, rx_got, ridx, rwptr>>
    BY <1>0, <1>7 DEF ReadHandled, ReaderAt, RxInv, RxTypes, Copied
  <2>2. \A q \in Readers : q = r
    BY DEF SingleReader
  <2>3. /\ Ahead /\ ~Ahead' /\ rpc[r] \in Rearmed
        /\ ~(\E q \in Readers : rpc'[q] \in Rearmed)
    BY <1>0, <2>1, <2>2 DEF Ahead, Copied, Rearmed, RxTypes
  <2>4. FirstUnread' = FirstUnread
    BY <2>1, <2>3 DEF FirstUnread
  <2>5. RxTypes'
    BY <1>0, <2>1, NextTdValue DEF RxTypes, ReaderPc
  <2>6. NextTd(rx_wptr) = last_handled'
    BY <2>1, <2>3 DEF RxInv
  <2>7. rpc'[r] \in {"idle", "check"}
    BY <1>0, <2>1 DEF RxTypes
  <2> QED
    BY <1>0, <2>1, <2>2, <2>3, <2>4, <2>5, <2>6, <2>7 DEF RxInv, RxTypes, Dist, Copied
<1>8. ASSUME ModemFill PROVE RxInv'
  <2> DEFINE m == Len(rx_sent) + 1
  <2>1. /\ rx_rptr # rx_wptr /\ Len(rx_sent) < MaxMsgs
        /\ rx_page' = [rx_page EXCEPT ![rx_rptr] = m]
        /\ rx_sent' = Append(rx_sent, m)
        /\ rx_rptr' = NextTd(rx_rptr)
        /\ UNCHANGED <<rx_wptr, last_handled, rx_got, rpc, ridx, rwptr>>
    BY <1>8 DEF ModemFill, rVars
  <2>2. m \in Messages /\ Len(rx_sent) \in Nat /\ Len(rx_got) \in Nat
    BY <1>0, <2>1, QueuePairAssumption DEF RxTypes, Messages
  <2>3. RxTypes'
    BY <1>0, <2>1, <2>2, NextTdValue DEF RxTypes, Pages
  <2>4. FirstUnread' = FirstUnread /\ FirstUnread \in Index
    BY <1>0, <2>1, NextTdValue DEF FirstUnread, Ahead, RxTypes
  <2>5. NextTd(rx_rptr) # FirstUnread
    <3>1. CASE \E r \in Readers : rpc[r] \in Rearmed
      <4>1. Ahead
        BY <3>1 DEF Ahead, Rearmed, Copied
      <4>2. FirstUnread = NextTd(last_handled) /\ rx_wptr = last_handled
        BY <3>1, <4>1 DEF FirstUnread, RxInv
      <4> QED
        BY <1>0, <2>1, <4>2, NextTdInjective DEF RxTypes
    <3>2. CASE ~(\E r \in Readers : rpc[r] \in Rearmed) /\ ~Ahead
      <4>1. FirstUnread = last_handled /\ NextTd(rx_wptr) = last_handled
        BY <3>2 DEF FirstUnread, RxInv
      <4> QED
        BY <1>0, <2>1, <4>1, NextTdInjective DEF RxTypes
    <3>3. CASE ~(\E r \in Readers : rpc[r] \in Rearmed) /\ Ahead
      <4>1. FirstUnread = NextTd(last_handled) /\ rx_rptr # last_handled
        BY <3>3 DEF FirstUnread, RxInv, Ahead, Copied, Rearmed, HasData
      <4> QED
        BY <1>0, <4>1, NextTdInjective DEF RxTypes
    <3> QED
      BY <3>1, <3>2, <3>3
  <2>6. /\ Dist(FirstUnread, rx_rptr) \in Nat
        /\ Dist(FirstUnread, rx_rptr') = Dist(FirstUnread, rx_rptr) + 1
        /\ Len(rx_sent') = m
    BY <1>0, <2>1, <2>2, <2>4, <2>5, DistValue, QueuePairAssumption DEF RxTypes
  <2>7. Dist(FirstUnread, rx_rptr)' = (Len(rx_sent) - Len(rx_got))'
    BY <2>1, <2>2, <2>4, <2>6 DEF RxInv, Dist
  <2>8. ASSUME NEW i \in Index, Dist(FirstUnread, i) < Dist(FirstUnread, rx_rptr')
        PROVE  rx_page'[i] = rx_sent'[Len(rx_got) + 1 + Dist(FirstUnread, i)]
    <3>1. Dist(FirstUnread, i) \in Nat /\ rx_rptr \in Index
      BY <1>0, <2>4, DistValue, QueuePairAssumption DEF RxTypes
    <3>2. CASE i = rx_rptr
      <4>1. Len(rx_got) + 1 + Dist(FirstUnread, i) = Len(rx_sent) + 1
        BY <2>2, <3>1, <3>2 DEF RxInv
      <4> QED
        BY <1>0, <2>1, <2>2, <3>2, <4>1 DEF RxTypes, Pages
    <3>3. CASE i # rx_rptr
      <4>1. Dist(FirstUnread, i) < Dist(FirstUnread, rx_rptr)
        BY <2>4, <2>6, <2>8, <3>1, <3>3, DistInjective
      <4>2. rx_page[i] = rx_sent[Len(rx_got) + 1 + Dist(FirstUnread, i)]
        BY <4>1 DEF RxInv
      <4>3. Len(rx_got) + 1 + Dist(FirstUnread, i) \in 1 .. Len(rx_sent)
        BY <2>2, <2>6, <3>1, <4>1 DEF RxInv
      <4> QED
        BY <1>0, <2>1, <2>2, <3>3, <4>2, <4>3 DEF RxTypes, Pages
    <3> QED
      BY <3>2, <3>3
  <2>9. ASSUME NEW r \in Readers, rpc[r] \in {"copy", "rearm", "publish"} PROVE HasData'
    <3>1. NextTd(rx_wptr) = last_handled
      BY <2>9 DEF RxInv, Rearmed, SingleReader
    <3> QED
      BY <1>0, <2>1, <3>1, NextTdInjective DEF RxTypes, HasData
  <2> QED
    BY <2>1, <2>3, <2>4, <2>7, <2>8, <2>9 DEF RxInv, Dist
<1>9. ASSUME UNCHANGED <<rxVars, rVars>> PROVE RxInv'
  BY <1>9 DEF RxInv, RxTypes, FirstUnread, Ahead, HasData, Dist, rxVars, rVars
<1>10. ASSUME NEW w \in Writers,
              \/ CdevWrite(w) \/ TtyWrite(w) \/ QpWrite(w) \/ TdRingCopy(w)
              \/ TdRingWrite(w) \/ WriteDing(w) \/ TtyFlag(w)
       PROVE  RxInv'
  BY <1>9, <1>10 DEF CdevWrite, TtyWrite, QpWrite, TdRingCopy, TdRingWrite, WriteDing, TtyFlag
<1>11. ASSUME ModemTake \/ ModemCrash \/ UNCHANGED vars PROVE RxInv'
  BY <1>9, <1>11 DEF ModemTake, ModemCrash, vars
<1> QED
  BY <1>1, <1>2, <1>3, <1>4, <1>5, <1>6, <1>7, <1>8, <1>10, <1>11
     DEF Next, WriterStep, ReaderStep

-----------------------------------------------------------------------------
(* The types, for any number of writers and readers, in three parts.       *)
PointerTypes ==
  /\ tx_wptr \in Index /\ tx_rptr \in Index /\ rx_wptr \in Index /\ rx_rptr \in Index
  /\ last_handled \in Index
  /\ wwptr \in [Writers -> Index] /\ ridx \in [Readers -> Index] /\ rwptr \in [Readers -> Index]

DataTypes ==
  /\ tx_page \in Pages /\ rx_page \in Pages
  /\ user_buf \in Messages \cup {NoMsg} /\ wmsg \in [Writers -> Messages \cup {NoMsg}]
  /\ tx_sent \in Seq(Messages \cup {NoMsg}) /\ tx_got \in Seq(Messages \cup {NoMsg})
  /\ rx_sent \in Seq(Messages) /\ rx_got \in Seq(Messages \cup {NoMsg})
  /\ offered \in Nat /\ reported \in Nat

FlagTypes ==
  /\ kind \in {"cdev", "tty"} /\ tty_needs_wake \in BOOLEAN
  /\ wpc \in [Writers -> WriterPc] /\ rpc \in [Readers -> ReaderPc]
  /\ modem \in {"ok", "crashed"} /\ error \in BOOLEAN /\ irq \in BOOLEAN

(* The three parts are the type invariant.                                 *)
LEMMA TypesSplit == TypeOK <=> PointerTypes /\ DataTypes /\ FlagTypes
  BY Zenon DEF TypeOK, PointerTypes, DataTypes, FlagTypes

(* The writers' steps keep the types.                                      *)
LEMMA WriterTypes ==
  ASSUME PointerTypes, DataTypes, FlagTypes, NEW w \in Writers,
         CdevWrite(w) \/ TtyWrite(w) \/ WriterStep(w)
  PROVE  PointerTypes' /\ DataTypes' /\ FlagTypes'
<1> USE DEF WriterAt, txVars, rxVars, rVars, devVars
<1>1. CASE CdevWrite(w) \/ TtyWrite(w)
  <2>1. offered + 1 \in Messages \cup {NoMsg} /\ offered + 1 \in Nat
    BY <1>1, QueuePairAssumption DEF CdevWrite, TtyWrite, DataTypes, Messages
  <2>2. PointerTypes'
    BY <1>1 DEF CdevWrite, TtyWrite, PointerTypes
  <2>3. DataTypes'
    BY <1>1, <2>1 DEF CdevWrite, TtyWrite, DataTypes
  <2>4. FlagTypes'
    BY <1>1 DEF CdevWrite, TtyWrite, FlagTypes, WriterPc
  <2> QED
    BY <2>2, <2>3, <2>4
<1>2. CASE QpWrite(w)
  <2>1. PointerTypes'
    BY <1>2 DEF QpWrite, PointerTypes
  <2>2. DataTypes'
    BY <1>2 DEF QpWrite, DataTypes
  <2>3. FlagTypes'
    BY <1>2 DEF QpWrite, FlagTypes, WriterPc
  <2> QED
    BY <2>1, <2>2, <2>3
<1>3. CASE TdRingCopy(w)
  <2>1. PointerTypes'
    BY <1>3 DEF TdRingCopy, PointerTypes
  <2>2. DataTypes'
    BY <1>3 DEF TdRingCopy, DataTypes, PointerTypes, Pages
  <2>3. FlagTypes'
    BY <1>3 DEF TdRingCopy, FlagTypes, WriterPc
  <2> QED
    BY <2>1, <2>2, <2>3
<1>4. CASE TdRingWrite(w)
  <2>1. PointerTypes'
    BY <1>4, NextTdValue DEF TdRingWrite, PointerTypes
  <2>2. DataTypes'
    BY <1>4 DEF TdRingWrite, DataTypes
  <2>3. FlagTypes'
    BY <1>4 DEF TdRingWrite, FlagTypes, WriterPc
  <2> QED
    BY <2>1, <2>2, <2>3
<1>5. CASE WriteDing(w) \/ TtyFlag(w)
  <2>1. PointerTypes' /\ DataTypes'
    BY <1>5 DEF WriteDing, TtyFlag, PointerTypes, DataTypes
  <2>2. FlagTypes'
    BY <1>5 DEF WriteDing, TtyFlag, Poll, FlagTypes, WriterPc
  <2> QED
    BY <2>1, <2>2
<1> QED
  BY <1>1, <1>2, <1>3, <1>4, <1>5 DEF WriterStep

(* The readers' steps keep the types.                                      *)
LEMMA ReaderTypes ==
  ASSUME PointerTypes, DataTypes, FlagTypes, NEW r \in Readers,
         CdevRead(r) \/ ReadSignal(r) \/ ReaderStep(r)
  PROVE  PointerTypes' /\ DataTypes' /\ FlagTypes'
<1> USE DEF ReaderAt, txVars, rxVars, wVars, devVars
<1>1. CASE CdevRead(r) \/ ReadSignal(r)
  BY <1>1 DEF CdevRead, ReadSignal, PointerTypes, DataTypes, FlagTypes, ReaderPc
<1>2. CASE ReadCheck(r)
  <2>1. PointerTypes'
    BY <1>2 DEF ReadCheck, PointerTypes
  <2>2. DataTypes'
    BY <1>2 DEF ReadCheck, DataTypes
  <2>3. FlagTypes'
    BY <1>2 DEF ReadCheck, FlagTypes, ReaderPc
  <2> QED
    BY <2>1, <2>2, <2>3
<1>3. CASE ReadCopy(r)
  <2>1. rx_page[ridx[r]] \in Messages \cup {NoMsg}
    BY DEF PointerTypes, DataTypes, Pages
  <2>2. PointerTypes'
    BY <1>3 DEF ReadCopy, PointerTypes
  <2>3. DataTypes'
    BY <1>3, <2>1 DEF ReadCopy, DataTypes
  <2>4. FlagTypes'
    BY <1>3 DEF ReadCopy, FlagTypes, ReaderPc
  <2> QED
    BY <2>2, <2>3, <2>4
<1>4. CASE TdRingArm(r) \/ TdRingRead(r) \/ ReadHandled(r)
  <2>1. PointerTypes'
    BY <1>4, NextTdValue DEF TdRingArm, TdRingRead, ReadHandled, PointerTypes
  <2>2. DataTypes'
    BY <1>4 DEF TdRingArm, TdRingRead, ReadHandled, DataTypes
  <2>3. FlagTypes'
    BY <1>4 DEF TdRingArm, TdRingRead, ReadHandled, FlagTypes, ReaderPc
  <2> QED
    BY <2>1, <2>2, <2>3
<1>5. CASE ReadDing(r) \/ TtyWakeup(r) \/ TtyClear(r)
  <2>1. PointerTypes' /\ DataTypes'
    BY <1>5 DEF ReadDing, TtyWakeup, TtyClear, PointerTypes, DataTypes
  <2>2. FlagTypes'
    BY <1>5 DEF ReadDing, TtyWakeup, TtyClear, Poll, FlagTypes, ReaderPc, WriterPc
  <2> QED
    BY <2>1, <2>2
<1> QED
  BY <1>1, <1>2, <1>3, <1>4, <1>5 DEF ReaderStep

(* The modem's and the driver's other steps keep the types.                *)
LEMMA DeviceTypes ==
  ASSUME PointerTypes, DataTypes, FlagTypes,
         IrqHandler \/ ModemTake \/ ModemFill \/ ModemCrash \/ UNCHANGED vars
  PROVE  PointerTypes' /\ DataTypes' /\ FlagTypes'
<1> USE DEF txVars, rxVars, wVars, rVars, devVars
<1>1. CASE IrqHandler
  <2>1. PointerTypes' /\ DataTypes'
    BY <1>1 DEF IrqHandler, PointerTypes, DataTypes
  <2>2. FlagTypes'
    BY <1>1 DEF IrqHandler, Poll, FlagTypes, ReaderPc
  <2> QED
    BY <2>1, <2>2
<1>2. CASE ModemTake
  <2>1. tx_page[tx_rptr] \in Messages \cup {NoMsg}
    BY DEF PointerTypes, DataTypes, Pages
  <2>2. PointerTypes'
    BY <1>2, NextTdValue DEF ModemTake, PointerTypes
  <2>3. DataTypes'
    BY <1>2, <2>1 DEF ModemTake, DataTypes
  <2>4. FlagTypes'
    BY <1>2 DEF ModemTake, FlagTypes
  <2> QED
    BY <2>2, <2>3, <2>4
<1>3. CASE ModemFill
  <2>1. Len(rx_sent) + 1 \in Messages
    BY <1>3, QueuePairAssumption DEF ModemFill, DataTypes, Messages
  <2>2. PointerTypes'
    BY <1>3, NextTdValue DEF ModemFill, PointerTypes
  <2>3. DataTypes'
    BY <1>3, <2>1 DEF ModemFill, DataTypes, PointerTypes, Pages
  <2>4. FlagTypes'
    BY <1>3 DEF ModemFill, FlagTypes
  <2> QED
    BY <2>2, <2>3, <2>4
<1>4. CASE ModemCrash \/ UNCHANGED vars
  BY <1>4 DEF ModemCrash, vars, PointerTypes, DataTypes, FlagTypes
<1> QED
  BY <1>1, <1>2, <1>3, <1>4

(* Whatever several writers and readers do to each other, no ring pointer, *)
(* index or descriptor ever leaves the ring.                               *)
THEOREM TypesHold == Spec => []TypeOK
<1> DEFINE Types == PointerTypes /\ DataTypes /\ FlagTypes
<1>1. Init => Types
  <2> SUFFICES ASSUME Init PROVE Types
    OBVIOUS
  <2>1. 0 \in Index /\ Depth - 1 \in Index
    BY QueuePairAssumption DEF Index
  <2>2. PointerTypes
    BY <2>1 DEF Init, PointerTypes
  <2>3. DataTypes
    BY DEF Init, DataTypes, Pages
  <2>4. FlagTypes
    BY DEF Init, FlagTypes, WriterPc, ReaderPc
  <2> QED
    BY <2>2, <2>3, <2>4
<1>2. Types /\ [Next]_vars => Types'
  BY WriterTypes, ReaderTypes, DeviceTypes DEF Next
<1>3. Types => TypeOK
  BY TypesSplit
<1> QED
  BY <1>1, <1>2, <1>3, PTL DEF Spec

-----------------------------------------------------------------------------
(* With one writer and one reader the BUG_ONs of td_ring_write and         *)
(* td_ring_read never fire, whatever the modem does between the full test  *)
(* and the publication.                                                    *)
THEOREM RingsNeverOverrun ==
  ASSUME SingleWriter, SingleReader
  PROVE  Spec => []NoOverrun
<1>1. TxInv /\ RxInv => NoOverrun
  <2> SUFFICES ASSUME TxInv, RxInv PROVE NoOverrun
    OBVIOUS
  <2>1. ASSUME NEW w \in Writers, wpc[w] = "publish" PROVE NextTd(wwptr[w]) # tx_rptr
    BY <2>1 DEF TxInv, TxFull
  <2>2. ASSUME NEW r \in Readers, rpc[r] = "publish" PROVE NextTd(rwptr[r]) # rx_rptr
    BY <2>2 DEF RxInv, HasData, Rearmed, SingleReader
  <2> QED
    BY <2>1, <2>2 DEF NoOverrun
<1> QED
  BY <1>1, TxInit, TxStep, RxInit, RxStep, PTL DEF Spec

(* With one reader td_ring_read gives back exactly one descriptor for each *)
(* message read: whenever no message is in hand the ring from the modem is *)
(* fully armed, after any number of wrap-arounds and of interrupted reads. *)
THEOREM RingStaysArmed ==
  ASSUME SingleReader
  PROVE  Spec => []RxArmed
<1>1. RxInv => RxArmed
  <2> SUFFICES ASSUME RxInv, \A r \in Readers : rpc[r] \in Quiet
               PROVE  Dist(last_handled, rx_wptr) = Depth - 1
    BY DEF RxArmed, Quiet
  <2>1. NextTd(rx_wptr) = last_handled
    BY DEF RxInv, Quiet, Rearmed
  <2> QED
    BY <2>1, DistValue DEF RxInv, RxTypes
<1> QED
  BY <1>1, RxInit, RxStep, PTL DEF Spec

(* With one writer the ring towards the modem is a lossless first-in       *)
(* first-out channel of Depth-1 messages (td_ring_write, td_ring_full).    *)
THEOREM TxImplementsChannel == ASSUME SingleWriter PROVE Spec => TxChannel
<1>1. Init => Tx!Init
  BY DEF Init, Tx!Init
<1>2. ASSUME TxInv, [Next]_vars PROVE [Tx!Next]_<<tx_sent, tx_got>>
  <2>1. ASSUME NEW w \in Writers, TdRingWrite(w) PROVE Tx!Next
    <3>1. /\ tx_sent' = Append(tx_sent, wmsg[w]) /\ tx_got' = tx_got
          /\ wmsg[w] \in Messages /\ NextTd(tx_wptr) # tx_rptr
      BY <1>2, <2>1 DEF TdRingWrite, WriterAt, TxInv, TxTypes
    <3>2. Len(tx_sent) - Len(tx_got) < Depth - 1
      BY <1>2, <3>1, DistValue, QueuePairAssumption DEF TxInv, TxTypes
    <3> QED
      BY <3>1, <3>2 DEF Tx!Next, Tx!Put
  <2>2. ASSUME ModemTake PROVE Tx!Next
    BY <1>2, <2>2, TxHead DEF ModemTake, Tx!Next, Tx!Get
  <2>3. ASSUME UNCHANGED txVars PROVE UNCHANGED <<tx_sent, tx_got>>
    BY <2>3 DEF txVars
  <2>4. ASSUME NEW w \in Writers,
               \/ CdevWrite(w) \/ TtyWrite(w) \/ QpWrite(w) \/ TdRingCopy(w)
               \/ WriteDing(w) \/ TtyFlag(w)
        PROVE  UNCHANGED <<tx_sent, tx_got>>
    BY <2>4 DEF CdevWrite, TtyWrite, QpWrite, TdRingCopy, WriteDing, TtyFlag, txVars
  <2>5. ASSUME NEW r \in Readers, CdevRead(r) \/ ReadSignal(r) \/ ReaderStep(r)
        PROVE  UNCHANGED <<tx_sent, tx_got>>
    BY <2>3, <2>5 DEF CdevRead, ReadSignal, ReaderStep, ReadCheck, ReadCopy, TdRingArm,
       TdRingRead, ReadDing, ReadHandled, TtyWakeup, TtyClear
  <2>6. ASSUME IrqHandler \/ ModemFill \/ ModemCrash \/ UNCHANGED vars
        PROVE  UNCHANGED <<tx_sent, tx_got>>
    BY <2>3, <2>6 DEF IrqHandler, ModemFill, ModemCrash, vars
  <2> QED
    BY <1>2, <2>1, <2>2, <2>4, <2>5, <2>6 DEF Next, WriterStep
<1> QED
  BY <1>1, <1>2, TxInit, TxStep, PTL DEF Spec, TxChannel, Tx!Spec

(* With one reader the ring from the modem is one, too: no page is         *)
(* overwritten before it is read, none is read twice (cdev_read,           *)
(* tty_poll_qp, net_poll, td_ring_read).                                   *)
THEOREM RxImplementsChannel == ASSUME SingleReader PROVE Spec => RxChannel
<1>1. Init => Rx!Init
  BY DEF Init, Rx!Init
<1>2. ASSUME RxInv, RxInv', [Next]_vars PROVE [Rx!Next]_<<rx_sent, rx_got>>
  <2>1. ASSUME ModemFill PROVE Rx!Next
    <3>1. /\ rx_sent' = Append(rx_sent, Len(rx_sent) + 1) /\ rx_got' = rx_got
          /\ Len(rx_sent) < MaxMsgs
      BY <2>1 DEF ModemFill
    <3>2. rx_sent \in Seq(Messages) /\ rx_got \in Seq(Messages) /\ FirstUnread' \in Index
      BY <1>2, NextTdValue DEF RxInv, RxTypes, FirstUnread
    <3>3. Len(rx_sent) + 1 \in Messages
      BY <3>1, <3>2, QueuePairAssumption DEF Messages
    <3>4. Len(rx_sent') - Len(rx_got') \in 0 .. Depth - 1
      BY <1>2, <3>2, DistValue DEF RxInv, RxTypes
    <3>5. Len(rx_sent) - Len(rx_got) < Depth - 1
      BY <3>1, <3>2, <3>3, <3>4, QueuePairAssumption
    <3> QED
      BY <3>1, <3>3, <3>5 DEF Rx!Next, Rx!Put
  <2>2. ASSUME NEW r \in Readers, ReadCopy(r) PROVE Rx!Next
    <3>1. /\ rpc[r] = "copy" /\ ridx[r] = last_handled /\ HasData
          /\ rx_got' = Append(rx_got, rx_page[last_handled]) /\ rx_sent' = rx_sent
      BY <1>2, <2>2 DEF ReadCopy, ReaderAt, RxInv
    <3>2. ~Ahead /\ FirstUnread = last_handled
      BY <3>1 DEF Ahead, Copied, FirstUnread, SingleReader
    <3>t. last_handled \in Index /\ rx_rptr \in Index /\ last_handled # rx_rptr
      BY <1>2, <3>1 DEF RxInv, RxTypes, HasData
    <3>3. /\ Dist(last_handled, last_handled) = 0
          /\ Dist(last_handled, rx_rptr) > 0 /\ Dist(last_handled, rx_rptr) \in Nat
      BY <3>t, DistValue, QueuePairAssumption
    <3>4. rx_page[last_handled] = rx_sent[Len(rx_got) + 1 + 0]
      BY <1>2, <3>2, <3>t, <3>3 DEF RxInv
    <3>5. Len(rx_got) < Len(rx_sent) /\ Len(rx_got) \in Nat
      BY <1>2, <3>2, <3>3 DEF RxInv, RxTypes
    <3> QED
      BY <3>1, <3>4, <3>5 DEF Rx!Next, Rx!Get
  <2>3. ASSUME UNCHANGED rxVars PROVE UNCHANGED <<rx_sent, rx_got>>
    BY <2>3 DEF rxVars
  <2>4. ASSUME NEW w \in Writers, CdevWrite(w) \/ TtyWrite(w) \/ WriterStep(w)
        PROVE  UNCHANGED <<rx_sent, rx_got>>
    BY <2>3, <2>4 DEF CdevWrite, TtyWrite, WriterStep, QpWrite, TdRingCopy, TdRingWrite,
       WriteDing, TtyFlag
  <2>5. ASSUME NEW r \in Readers,
               \/ CdevRead(r) \/ ReadSignal(r) \/ ReadCheck(r) \/ TdRingArm(r)
               \/ TdRingRead(r) \/ ReadDing(r) \/ ReadHandled(r) \/ TtyWakeup(r)
               \/ TtyClear(r)
        PROVE  UNCHANGED <<rx_sent, rx_got>>
    BY <2>5 DEF CdevRead, ReadSignal, ReadCheck, TdRingArm, TdRingRead, ReadDing,
       ReadHandled, TtyWakeup, TtyClear, rxVars
  <2>6. ASSUME IrqHandler \/ ModemTake \/ ModemCrash \/ UNCHANGED vars
        PROVE  UNCHANGED <<rx_sent, rx_got>>
    BY <2>3, <2>6 DEF IrqHandler, ModemTake, ModemCrash, vars
  <2> QED
    BY <1>2, <2>1, <2>2, <2>4, <2>5, <2>6 DEF Next, ReaderStep
<1> QED
  BY <1>1, <1>2, RxInit, RxStep, PTL DEF Spec, RxChannel, Rx!Spec

-----------------------------------------------------------------------------
(* trace.py: the scan of the buffer, and two scans that run side by side.  *)

(* Every set of naturals that is not empty has a least element.            *)
LEMMA LeastNat ==
  ASSUME NEW T, T \subseteq Nat, T # {}
  PROVE  \E x \in T : \A y \in T : x <= y
<1>1. IsWellFoundedOn(OpToRel(<, Nat), Nat)
  BY NatLessThanWellFounded
<1>2. IsWellFoundedOn(OpToRel(<, Nat), T)
  BY <1>1, IsWellFoundedOnSubset
<1>3. \E x \in T : \A y \in T : ~(<<y, x>> \in OpToRel(<, Nat))
  BY <1>2, WFMin
<1>4. \A x, y \in T : y < x => <<y, x>> \in OpToRel(<, Nat)
  BY DEF OpToRel
<1>5. \E x \in T : \A y \in T : ~(y < x)
  BY <1>3, <1>4, Zenon
<1> QED
  BY <1>5

(* Induction, for a set of naturals up to n instead of a predicate.        *)
LEMMA UpTo ==
  ASSUME NEW n \in Nat, NEW S, 0 \in S, \A k \in 1 .. n : k - 1 \in S => k \in S
  PROVE  \A k \in 0 .. n : k \in S
<1> DEFINE T == {k \in 0 .. n : k \notin S}
<1> SUFFICES ASSUME T # {} PROVE FALSE
  OBVIOUS
<1>0. T \subseteq Nat
  OBVIOUS
<1>1. PICK x \in T : \A y \in T : x <= y
  BY <1>0, LeastNat
<1>2. x \in 1 .. n /\ x - 1 \in 0 .. n
  BY <1>1
<1>3. x - 1 \in S
  BY <1>1, <1>2
<1> QED
  BY <1>1, <1>2, <1>3

-----------------------------------------------------------------------------
(* A packet that ends the program.                                         *)
Fatal(p) == ~Unescape(p).ok \/ FatalPacket(Unescape(p).val)

(* What one byte does, field by field: p is the packet it may end.         *)
Moved(s, b, i, r, p) ==
  /\ s.dead \/ b[i] # FLAG =>
       r.seen = s.seen /\ r.dead = s.dead /\ r.start = s.start
  /\ ~s.dead /\ b[i] = FLAG /\ s.start \in {0, i - 1} =>
       r.seen = s.seen /\ r.dead = FALSE /\ r.start = i
  /\ ~s.dead /\ b[i] = FLAG /\ s.start \notin {0, i - 1} /\ Fatal(p) =>
       r.seen = s.seen /\ r.dead = TRUE /\ r.start = s.start
  /\ ~s.dead /\ b[i] = FLAG /\ s.start \notin {0, i - 1} /\ ~Fatal(p) =>
       r.seen = Append(s.seen, Unescape(p).val) /\ r.dead = FALSE /\ r.start = i

LEMMA AtIs ==
  ASSUME NEW s, NEW b, NEW i, s.dead \in BOOLEAN
  PROVE  Moved(s, b, i, At(s, b, i), Between(b, s.start, i))
<1> DEFINE r == At(s, b, i)
           p == Between(b, s.start, i)
           flag == ~s.dead /\ b[i] = FLAG
           packet == flag /\ s.start \notin {0, i - 1}
           fatal == packet /\ Fatal(p)
           seen == IF packet /\ ~fatal THEN Append(s.seen, Unescape(p).val) ELSE s.seen
           dead == s.dead \/ fatal
           start == IF flag /\ ~fatal THEN i ELSE s.start
<1>1. r = [seen  |-> seen, dead  |-> dead, start |-> start]
  BY Zenon DEF At, Fatal
<1>2. r.seen = seen /\ r.dead = dead /\ r.start = start
  <2> HIDE DEF seen, dead, start
  <2> QED
    BY <1>1
<1> HIDE DEF r, p
<1>3. Moved(s, b, i, r, p)
  BY <1>2, Zenon DEF Moved
<1> QED
  BY <1>3 DEF r, p

(* Scan is the function its definition says.                               *)
LEMMA ScanIs ==
  ASSUME NEW st, NEW b \in Seq(Nat)
  PROVE  /\ Scan(st, b)[0] = [seen |-> st.seen, dead |-> st.dead, start |-> 0]
         /\ \A i \in 1 .. Len(b) : Scan(st, b)[i] = At(Scan(st, b)[i - 1], b, i)
<1> DEFINE n == Len(b)
           first == [seen |-> st.seen, dead |-> st.dead, start |-> 0]
           Upto(f, m) == f[0] = first /\ \A i \in 1 .. m : f[i] = At(f[i - 1], b, i)
           S == {m \in 0 .. n : \E f : Upto(f, m)}
           Eq(f) == f = [i \in 0 .. n |-> IF i = 0 THEN first ELSE At(f[i - 1], b, i)]
<1>0. n \in Nat /\ 0 \in 0 .. n /\ n \in 0 .. n
  OBVIOUS
<1> HIDE DEF n, first
<1>1. 0 \in S
  <2> DEFINE f == [i \in 0 .. 0 |-> first]
  <2>1. f[0] = first /\ ~(\E i : i \in 1 .. 0)
    OBVIOUS
  <2> QED
    BY <1>0, <2>1, Zenon
<1>2. ASSUME NEW m \in 1 .. n, m - 1 \in S PROVE m \in S
  <2>1. PICK f : Upto(f, m - 1)
    BY <1>2, Zenon
  <2> DEFINE g == [i \in 0 .. m |-> IF i = m THEN At(f[m - 1], b, m) ELSE f[i]]
  <2>2. /\ m \in 0 .. n /\ m \in Nat /\ 0 \in 0 .. m /\ 0 # m /\ m \in 0 .. m
        /\ \A i \in 1 .. m : i \in 0 .. m /\ i - 1 \in 0 .. m /\ i - 1 # m
        /\ \A i \in 1 .. m : i # m => i \in 1 .. m - 1
    BY <1>0
  <2>3. \A i \in 0 .. m : g[i] = IF i = m THEN At(f[m - 1], b, m) ELSE f[i]
    BY Zenon
  <2> HIDE DEF g
  <2>4. g[0] = first
    BY <2>1, <2>2, <2>3, Zenon
  <2>5. ASSUME NEW i \in 1 .. m PROVE g[i] = At(g[i - 1], b, i)
    <3>1. g[i - 1] = f[i - 1]
      BY <2>2, <2>3, <2>5, Zenon
    <3>2. CASE i = m
      BY <2>2, <2>3, <2>5, <3>1, <3>2, Zenon
    <3>3. CASE i # m
      <4>1. g[i] = f[i] /\ i \in 1 .. m - 1
        BY <2>2, <2>3, <2>5, <3>3, Zenon
      <4> QED
        BY <2>1, <3>1, <4>1, Zenon
    <3> QED
      BY <3>2, <3>3, Zenon
  <2> QED
    BY <2>2, <2>4, <2>5, Zenon
<1>3. n \in S
  <2>1. \A k \in 1 .. n : k - 1 \in S => k \in S
    BY <1>2
  <2> HIDE DEF S
  <2>2. \A k \in 0 .. n : k \in S
    BY <1>0, <1>1, <2>1, UpTo
  <2> QED
    BY <1>0, <2>2, Zenon
<1>4. PICK f : Upto(f, n)
  BY <1>3, Zenon
<1> DEFINE h == [i \in 0 .. n |-> f[i]]
<1>r. \A i \in 1 .. n : i \in 0 .. n /\ i - 1 \in 0 .. n /\ i # 0
  BY <1>0
<1>5. Eq(h)
  <2>1. \A i \in 0 .. n : h[i] = f[i] /\ (i # 0 => i \in 1 .. n)
    BY <1>0
  <2> HIDE DEF h
  <2>2. \A i \in 0 .. n : h[i] = IF i = 0 THEN first ELSE At(h[i - 1], b, i)
    BY <1>4, <1>r, <2>1, Zenon
  <2>3. h = [i \in 0 .. n |-> h[i]]
    BY Zenon DEF h
  <2> QED
    BY <2>2, <2>3, Zenon
<1>6. Scan(st, b) = CHOOSE g : Eq(g)
  BY Zenon DEF Scan, n, first
<1>7. Eq(Scan(st, b))
  <2>1. \E g : Eq(g)
    BY <1>5, Zenon
  <2> HIDE DEF Eq
  <2> QED
    BY <1>6, <2>1, Zenon
<1> DEFINE p == Scan(st, b)
<1>8. p[0] = first /\ \A i \in 1 .. n : p[i] = At(p[i - 1], b, i)
  <2>1. \A i \in 0 .. n : p[i] = IF i = 0 THEN first ELSE At(p[i - 1], b, i)
    BY <1>7, Zenon
  <2> HIDE DEF p
  <2> QED
    BY <1>0, <1>r, <2>1, Zenon
<1> QED
  BY <1>8 DEF n, first

LEMMA ScanFirst ==
  ASSUME NEW st, NEW b \in Seq(Nat)
  PROVE  /\ Scan(st, b)[0].seen = st.seen
         /\ Scan(st, b)[0].dead = st.dead
         /\ Scan(st, b)[0].start = 0
<1> DEFINE s == Scan(st, b)[0]
<1>1. s = [seen |-> st.seen, dead |-> st.dead, start |-> 0]
  BY ScanIs, Zenon
<1> HIDE DEF s
<1>2. s.seen = st.seen /\ s.dead = st.dead /\ s.start = 0
  BY <1>1
<1> QED
  BY <1>2, Zenon DEF s

(* Where the scan is after i bytes: it starts at a flag, and while the     *)
(* program lives, no flag came after that one.                             *)
Placed(s, b, i) ==
  /\ s.dead \in BOOLEAN
  /\ s.start \in 0 .. i
  /\ s.start # 0 => b[s.start] = FLAG
  /\ ~s.dead => \A j \in s.start + 1 .. i : b[j] # FLAG

LEMMA ScanPlaced ==
  ASSUME NEW st, st.dead \in BOOLEAN, NEW b \in Seq(Nat)
  PROVE  \A i \in 0 .. Len(b) : Placed(Scan(st, b)[i], b, i)
<1> DEFINE n == Len(b)
           p == Scan(st, b)
           S == {i \in 0 .. n : Placed(p[i], b, i)}
<1>0. n \in Nat
  OBVIOUS
<1>1. /\ p[0] = [seen |-> st.seen, dead |-> st.dead, start |-> 0]
      /\ \A i \in 1 .. n : p[i] = At(p[i - 1], b, i)
  BY ScanIs, Zenon
<1> HIDE DEF p, n
<1>2. 0 \in S
  <2>1. p[0].dead = st.dead /\ p[0].start = 0
    BY <1>1
  <2>2. 0 \in 0 .. n /\ 0 \in 0 .. 0 /\ ~(\E j : j \in 0 + 1 .. 0)
    BY <1>0
  <2> QED
    BY <2>1, <2>2, Zenon DEF Placed
<1>3. ASSUME NEW i \in 1 .. n, i - 1 \in S PROVE i \in S
  <2> DEFINE s == p[i - 1]
             r == p[i]
  <2>1. Placed(s, b, i - 1)
    BY <1>3, Zenon
  <2>2. r = At(s, b, i)
    BY <1>1, <1>3, Zenon
  <2> HIDE DEF s, r
  <2>3. s.dead \in BOOLEAN /\ s.start \in 0 .. i - 1 /\ (s.start # 0 => b[s.start] = FLAG)
        /\ (~s.dead => \A j \in s.start + 1 .. i - 1 : b[j] # FLAG)
    BY <2>1, Zenon DEF Placed
  <2>4. /\ s.dead \/ b[i] # FLAG => r.dead = s.dead /\ r.start = s.start
        /\ ~s.dead /\ b[i] = FLAG =>
             (r.dead = FALSE /\ r.start = i) \/ (r.dead = TRUE /\ r.start = s.start)
    <3>1. Moved(s, b, i, r, Between(b, s.start, i))
      <4>1. s.dead \in BOOLEAN
        BY <2>3, Zenon
      <4>2. Moved(s, b, i, At(s, b, i), Between(b, s.start, i))
        BY <4>1, AtIs
      <4> QED
        BY <2>2, <4>2, Zenon
    <3> QED
      BY <3>1, Zenon DEF Moved
  <2>5. i \in 0 .. n /\ s.start \in 0 .. i /\ i \in 0 .. i /\ ~(\E j : j \in i + 1 .. i)
        /\ \A j \in s.start + 1 .. i : j = i \/ j \in s.start + 1 .. i - 1
    BY <1>0, <2>3
  <2>6. CASE s.dead \/ b[i] # FLAG
    <3>1. r.dead = s.dead /\ r.start = s.start
      BY <2>4, <2>6, Zenon
    <3>2. ~s.dead => \A j \in s.start + 1 .. i : b[j] # FLAG
      BY <2>3, <2>5, <2>6, Zenon
    <3>3. Placed(r, b, i)
      BY <2>3, <2>5, <3>1, <3>2, Zenon DEF Placed
    <3> QED
      BY <2>5, <3>3, Zenon DEF r
  <2>7. CASE ~s.dead /\ b[i] = FLAG
    <3>1. CASE r.dead = FALSE /\ r.start = i
      <4>1. Placed(r, b, i)
        BY <2>5, <2>7, <3>1, Zenon DEF Placed
      <4> QED
        BY <2>5, <4>1, Zenon DEF r
    <3>2. CASE r.dead = TRUE /\ r.start = s.start
      <4>1. Placed(r, b, i)
        BY <2>3, <2>5, <3>2, Zenon DEF Placed
      <4> QED
        BY <2>5, <4>1, Zenon DEF r
    <3> QED
      BY <2>4, <2>7, <3>1, <3>2, Zenon
  <2> QED
    BY <2>6, <2>7, Zenon
<1>4. \A k \in 1 .. n : k - 1 \in S => k \in S
  BY <1>3
<1>5. \A i \in 0 .. n : i \in S
  <2> HIDE DEF S
  <2> QED
    BY <1>0, <1>2, <1>4, UpTo
<1> QED
  BY <1>5, Zenon DEF p, n


-----------------------------------------------------------------------------
(* Two sequences one behind the other.                                     *)
LEMMA Joined ==
  ASSUME NEW x \in Seq(Nat), NEW y \in Seq(Nat)
  PROVE  /\ x \o y \in Seq(Nat) /\ Len(x \o y) = Len(x) + Len(y)
         /\ Len(x) \in Nat /\ Len(y) \in Nat
         /\ \A j \in 1 .. Len(x) : (x \o y)[j] = x[j]
         /\ \A j \in 1 .. Len(y) : (x \o y)[j + Len(x)] = y[j]
<1>1. x \o y \in Seq(Nat) /\ Len(x \o y) = Len(x) + Len(y) /\ Len(x) \in Nat /\ Len(y) \in Nat
  OBVIOUS
<1>2. \A j \in 1 .. Len(x) : (x \o y)[j] = x[j]
  OBVIOUS
<1>3. ASSUME NEW j \in 1 .. Len(y) PROVE (x \o y)[j + Len(x)] = y[j]
  OBVIOUS
<1> QED
  BY <1>1, <1>2, <1>3, Zenon

(* The n elements of a sequence that follow the first o.                   *)
IsCut(y, x, o, n) ==
  y \in Seq(Nat) /\ Len(y) = n /\ \A j \in 1 .. n : y[j] = x[j + o]

LEMMA CutOut ==
  ASSUME NEW x \in Seq(Nat), NEW o \in Nat, NEW n \in Nat, o + n <= Len(x)
  PROVE  IsCut(SubSeq(x, o + 1, o + n), x, o, n)
<1> DEFINE y == SubSeq(x, o + 1, o + n)
<1>1. y = [j \in 1 .. n |-> x[j + o]]
  OBVIOUS
<1>2. \A j \in 1 .. n : x[j + o] \in Nat
  OBVIOUS
<1> HIDE DEF y
<1>3. \A j \in 1 .. n : y[j] = x[j + o]
  BY <1>1, Zenon
<1>4. y \in Seq(Nat) /\ Len(y) = n
  BY <1>1, <1>2
<1>5. IsCut(y, x, o, n)
  BY <1>3, <1>4, Zenon DEF IsCut
<1> QED
  BY <1>5, Zenon DEF y

(* b holds c, o bytes further on.                                          *)
Holds(b, c, o) ==
  /\ b \in Seq(Nat) /\ c \in Seq(Nat) /\ o \in Nat /\ Len(c) + o <= Len(b)
  /\ \A j \in 1 .. Len(c) : b[j + o] = c[j]

(* Two scans in the same place, o bytes apart.                             *)
Similar(s, t, o) ==
  /\ s.seen = t.seen /\ s.dead = t.dead
  /\ ~t.dead => s.start = IF t.start = 0 THEN 0 ELSE t.start + o

(* The same bytes, cut out of either buffer.                               *)
PartsAgree(b, c, o) ==
  \A i, k \in Nat : 1 <= i /\ k <= Len(c) => SubSeq(b, i + o, k + o) = SubSeq(c, i, k)

LEMMA HeldParts ==
  ASSUME NEW b, NEW c, NEW o, Holds(b, c, o)
  PROVE  PartsAgree(b, c, o)
<1> SUFFICES ASSUME NEW i \in Nat, NEW k \in Nat, 1 <= i, k <= Len(c)
             PROVE  SubSeq(b, i + o, k + o) = SubSeq(c, i, k)
  BY DEF PartsAgree
<1>1. /\ b \in Seq(Nat) /\ c \in Seq(Nat) /\ o \in Nat /\ Len(c) + o <= Len(b)
      /\ \A j \in 1 .. Len(c) : b[j + o] = c[j]
  BY DEF Holds
<1> DEFINE n == IF i <= k THEN 1 + k - i ELSE 0
           x == SubSeq(b, i + o, k + o)
           y == SubSeq(c, i, k)
<1>2. x = [j \in 1 .. n |-> b[i + o + j - 1]]
  BY <1>1
<1>3. y = [j \in 1 .. n |-> c[i + j - 1]]
  BY <1>1
<1>4. \A j \in 1 .. n : b[i + o + j - 1] = c[i + j - 1]
  <2> SUFFICES ASSUME NEW j \in 1 .. n PROVE b[i + o + j - 1] = c[i + j - 1]
    OBVIOUS
  <2>1. i + j - 1 \in 1 .. Len(c) /\ i + o + j - 1 = (i + j - 1) + o
    BY <1>1
  <2> QED
    BY <1>1, <2>1
<1> HIDE DEF x, y, n
<1>5. x = y
  BY <1>2, <1>3, <1>4, Zenon
<1> QED
  BY <1>5 DEF x, y

(* The same byte keeps two scans in the same place.                        *)
LEMMA AtSimilar ==
  ASSUME NEW b, NEW c, NEW o, Holds(b, c, o), NEW j \in 1 .. Len(c),
         NEW s, NEW t, Similar(s, t, o), t.dead \in BOOLEAN, t.start \in 0 .. j - 1
  PROVE  Similar(At(s, b, j + o), At(t, c, j), o)
<1> DEFINE x == At(s, b, j + o)
           y == At(t, c, j)
           p == Between(b, s.start, j + o)
           q == Between(c, t.start, j)
           i == j + o
<1>1. /\ s.seen = t.seen /\ s.dead = t.dead /\ s.dead \in BOOLEAN
      /\ ~t.dead => s.start = IF t.start = 0 THEN 0 ELSE t.start + o
  BY Zenon DEF Similar
<1>0. /\ b \in Seq(Nat) /\ c \in Seq(Nat) /\ o \in Nat /\ Len(c) \in Nat
      /\ \A k \in 1 .. Len(c) : b[k + o] = c[k]
  <2>1. \A z \in Seq(Nat) : Len(z) \in Nat
    OBVIOUS
  <2> QED
    BY <2>1, Zenon DEF Holds
<1>2. b[i] = c[j] /\ o \in Nat /\ j \in Nat /\ j # 0 /\ j <= Len(c)
  <2>1. b[i] = c[j]
    BY <1>0, Zenon
  <2> QED
    BY <1>0, <2>1
<1>3. Moved(s, b, i, x, p)
  BY <1>1, AtIs
<1>4. Moved(t, c, j, y, q)
  BY AtIs
<1>5. ~t.dead => ((s.start \in {0, i - 1}) <=> (t.start \in {0, j - 1}))
  <2>1. CASE t.dead
    BY <2>1, Zenon
  <2>2. CASE ~t.dead
    <3>1. s.start = IF t.start = 0 THEN 0 ELSE t.start + o
      BY <1>1, <2>2, Zenon
    <3>2. (s.start \in {0, i - 1}) <=> (t.start \in {0, j - 1})
      BY <1>2, <3>1
    <3> QED
      BY <3>2, Zenon
  <2> QED
    BY <2>1, <2>2, Zenon
<1>6. ~t.dead /\ t.start \notin {0, j - 1} => p = q
  <2>1. SUFFICES ASSUME ~t.dead, t.start \notin {0, j - 1} PROVE p = q
    BY Zenon
  <2> DEFINE e == t.start
             e1 == e + 1
             j1 == j - 1
  <2>2. s.start = e + o /\ e # 0 /\ e \in 0 .. j - 1
    BY <1>1, <2>1, Zenon
  <2> HIDE DEF e
  <2>3. /\ e + o + 1 = e1 + o /\ (j + o) - 1 = j1 + o
        /\ e1 \in Nat /\ 1 <= e1 /\ j1 \in Nat /\ j1 <= Len(c)
    BY <1>0, <1>2, <2>2
  <2> HIDE DEF e1, j1
  <2>4. SubSeq(b, e1 + o, j1 + o) = SubSeq(c, e1, j1)
    <3>1. PartsAgree(b, c, o)
      BY HeldParts
    <3> QED
      BY <2>3, <3>1, Zenon DEF PartsAgree
  <2>5. s.start + 1 = e1 + o /\ (j + o) - 1 = j1 + o
    BY <2>2, <2>3
  <2>6. p = SubSeq(b, e1 + o, j1 + o)
    BY <2>5, Zenon DEF Between
  <2>7. q = SubSeq(c, e1, j1)
    BY Zenon DEF Between, e1, j1, e
  <2> QED
    BY <2>4, <2>6, <2>7, Zenon
<1>7. i = IF j = 0 THEN 0 ELSE j + o
  BY <1>2
<1> HIDE DEF x, y, p, q, i
<1>8. x.seen = y.seen /\ x.dead = y.dead
  BY <1>1, <1>2, <1>3, <1>4, <1>5, <1>6, Zenon DEF Moved
<1>9. ~y.dead => x.start = IF y.start = 0 THEN 0 ELSE y.start + o
  <2>1. t.dead => y.dead
    BY <1>4, Zenon DEF Moved
  <2>2. ~t.dead => (x.start = i /\ y.start = j) \/ (x.start = s.start /\ y.start = t.start)
    BY <1>1, <1>2, <1>3, <1>4, <1>5, <1>6, Zenon DEF Moved
  <2> QED
    BY <1>1, <1>7, <2>1, <2>2, Zenon
<1>10. Similar(x, y, o)
  BY <1>8, <1>9, Zenon DEF Similar
<1> QED
  BY <1>10 DEF x, y, i

(* The scan of b after i0 bytes is where that of c is after j0; c ends     *)
(* after i1 bytes of b.                                                    *)
Aligned(st, b, tt, c, o, i0, j0, i1) ==
  /\ Holds(b, c, o) /\ tt.dead \in BOOLEAN
  /\ j0 \in 0 .. Len(c) /\ i0 = j0 + o /\ i1 = Len(c) + o
  /\ Similar(Scan(st, b)[i0], Scan(tt, c)[j0], o)

(* Once in the same place, two scans stay together.                        *)
LEMMA ScanShift ==
  ASSUME NEW st, NEW b, NEW tt, NEW c, NEW o, NEW i0, NEW j0, NEW i1,
         Aligned(st, b, tt, c, o, i0, j0, i1)
  PROVE  Similar(Scan(st, b)[i1], Scan(tt, c)[Len(c)], o)
<1>a. /\ Holds(b, c, o) /\ tt.dead \in BOOLEAN
      /\ j0 \in 0 .. Len(c) /\ i0 = j0 + o /\ i1 = Len(c) + o
      /\ Similar(Scan(st, b)[i0], Scan(tt, c)[j0], o)
  BY Zenon DEF Aligned
<1> DEFINE g == Scan(st, b)
           h == Scan(tt, c)
           m == Len(c) - j0
           S == {k \in 0 .. m : Similar(g[j0 + k + o], h[j0 + k], o)}
<1>0. b \in Seq(Nat) /\ c \in Seq(Nat) /\ o \in Nat /\ Len(c) + o <= Len(b)
  BY <1>a DEF Holds
<1>1. \A i \in 1 .. Len(b) : g[i] = At(g[i - 1], b, i)
  BY <1>0, ScanIs
<1>2. /\ \A i \in 1 .. Len(c) : h[i] = At(h[i - 1], c, i)
      /\ \A i \in 0 .. Len(c) : Placed(h[i], c, i)
  <2>1. \A i \in 1 .. Len(c) : h[i] = At(h[i - 1], c, i)
    BY <1>0, ScanIs
  <2>2. \A i \in 0 .. Len(c) : Placed(h[i], c, i)
    BY <1>0, <1>a, ScanPlaced
  <2> QED
    BY <2>1, <2>2
<1>3. m \in Nat /\ j0 + m = Len(c) /\ 0 \in 0 .. m /\ m \in 0 .. m /\ j0 + 0 = j0
  BY <1>0, <1>a
<1> HIDE DEF g, h, m
<1>4. 0 \in S
  BY <1>3, <1>a, Zenon DEF g, h
<1>5. ASSUME NEW k \in 1 .. m, k - 1 \in S PROVE k \in S
  <2> DEFINE j == j0 + k
             s == g[j0 + (k - 1) + o]
             t == h[j0 + (k - 1)]
  <2>1. j \in 1 .. Len(c) /\ j + o \in 1 .. Len(b) /\ j0 + (k - 1) = j - 1 /\ j - 1 \in 0 .. Len(c)
        /\ j0 + (k - 1) + o = (j + o) - 1 /\ k \in 0 .. m
    <3>1. Len(b) \in Nat /\ Len(c) \in Nat /\ o \in Nat /\ Len(c) + o <= Len(b)
      BY <1>0
    <3> QED
      BY <1>3, <1>a, <3>1
  <2>2. Similar(s, t, o)
    BY <1>5, Zenon
  <2>3. g[j + o] = At(s, b, j + o)
    BY <1>1, <2>1
  <2>4. h[j] = At(t, c, j)
    BY <1>2, <2>1
  <2>5. t.dead \in BOOLEAN /\ t.start \in 0 .. j - 1
    BY <1>2, <2>1, Zenon DEF Placed
  <2> HIDE DEF s, t
  <2>6. Similar(At(s, b, j + o), At(t, c, j), o)
    BY <2>1, <2>2, <2>5, <1>a, AtSimilar
  <2> QED
    BY <2>1, <2>3, <2>4, <2>6, Zenon
<1>6. \A k \in 1 .. m : k - 1 \in S => k \in S
  BY <1>5
<1>7. \A k \in 0 .. m : k \in S
  <2> HIDE DEF S
  <2> QED
    BY <1>3, <1>4, <1>6, UpTo
<1>8. m \in S
  BY <1>3, <1>7, Zenon
<1> QED
  BY <1>3, <1>8, <1>a, Zenon DEF g, h

-----------------------------------------------------------------------------
(* What a scan leaves behind.                                              *)
Left(e, b) ==
  [seen |-> e.seen, dead |-> e.dead,
   buf  |-> IF e.dead \/ e.start = 0 THEN <<>> ELSE SubSeq(b, e.start, Len(b))]

LEMMA LeftIs ==
  ASSUME NEW e, NEW b
  PROVE  /\ Left(e, b).seen = e.seen
         /\ Left(e, b).dead = e.dead
         /\ e.dead \/ e.start = 0 => Left(e, b).buf = <<>>
         /\ ~e.dead /\ e.start # 0 => Left(e, b).buf = SubSeq(b, e.start, Len(b))
<1> DEFINE r == Left(e, b)
           rest == IF e.dead \/ e.start = 0 THEN <<>> ELSE SubSeq(b, e.start, Len(b))
<1>1. r = [seen |-> e.seen, dead |-> e.dead, buf |-> rest]
  BY Zenon DEF Left
<1>2. r.seen = e.seen /\ r.dead = e.dead /\ r.buf = rest
  <2> HIDE DEF r, rest
  <2> QED
    BY <1>1
<1> HIDE DEF r
<1>3. /\ e.dead \/ e.start = 0 => r.buf = <<>>
      /\ ~e.dead /\ e.start # 0 => r.buf = SubSeq(b, e.start, Len(b))
  BY <1>2, Zenon
<1> QED
  BY <1>2, <1>3, Zenon DEF r

LEMMA ReadIs ==
  ASSUME NEW st, NEW new, NEW b, b = st.buf \o new
  PROVE  Read(st, new) = Left(Scan(st, b)[Len(b)], b)
  BY Zenon DEF Read, Left

(* Two scans in the same place at the end of their buffers leave the same. *)
Ended(s, b, t, c, o) ==
  /\ Holds(b, c, o) /\ Len(b) = Len(c) + o
  /\ Similar(s, t, o) /\ t.dead \in BOOLEAN /\ t.start \in 0 .. Len(c)

LEMMA SameLeft ==
  ASSUME NEW s, NEW b, NEW t, NEW c, NEW o, Ended(s, b, t, c, o)
  PROVE  Left(s, b) = Left(t, c)
<1>a. /\ Holds(b, c, o) /\ Len(b) = Len(c) + o
      /\ Similar(s, t, o) /\ t.dead \in BOOLEAN /\ t.start \in 0 .. Len(c)
  BY Zenon DEF Ended
<1> DEFINE x == IF s.dead \/ s.start = 0 THEN <<>> ELSE SubSeq(b, s.start, Len(b))
           y == IF t.dead \/ t.start = 0 THEN <<>> ELSE SubSeq(c, t.start, Len(c))
<1>0. o \in Nat /\ c \in Seq(Nat) /\ Len(c) \in Nat
  <2>1. \A z \in Seq(Nat) : Len(z) \in Nat
    OBVIOUS
  <2> QED
    BY <1>a, <2>1, Zenon DEF Holds
<1>1. /\ s.seen = t.seen /\ s.dead = t.dead
      /\ ~t.dead => s.start = IF t.start = 0 THEN 0 ELSE t.start + o
  BY <1>a, Zenon DEF Similar
<1>2. x = y
  <2>1. CASE t.dead \/ t.start = 0
    BY <1>1, <2>1, Zenon
  <2>2. CASE ~t.dead /\ t.start # 0
    <3> DEFINE e == t.start
               n == Len(c)
    <3>1. s.start = e + o
      BY <1>1, <2>2, Zenon
    <3>e. e \in 0 .. n /\ e # 0 /\ n \in Nat
      BY <1>0, <1>a, <2>2, Zenon
    <3> HIDE DEF e
    <3>2. e \in Nat /\ n \in Nat /\ 1 <= e /\ n <= Len(c) /\ e + o # 0
      BY <1>0, <3>e
    <3>3. PartsAgree(b, c, o)
      BY <1>a, HeldParts
    <3>4. SubSeq(b, e + o, n + o) = SubSeq(c, e, n)
      BY <3>2, <3>3, Zenon DEF PartsAgree
    <3>5. x = SubSeq(b, e + o, n + o)
      BY <1>1, <1>a, <2>2, <3>1, <3>2, Zenon
    <3>6. y = SubSeq(c, e, n)
      BY <2>2, Zenon DEF e
    <3> QED
      BY <3>4, <3>5, <3>6, Zenon
  <2> QED
    BY <2>1, <2>2, Zenon
<1>3. Left(s, b) = [seen |-> s.seen, dead |-> s.dead, buf |-> x]
  BY Zenon DEF Left
<1>4. Left(t, c) = [seen |-> t.seen, dead |-> t.dead, buf |-> y]
  BY Zenon DEF Left
<1> HIDE DEF x, y
<1> QED
  BY <1>1, <1>2, <1>3, <1>4, Zenon

(* The bytes of an unfinished packet are only waited through.              *)
Unfinished(c, n) ==
  /\ c \in Seq(Nat) /\ n \in 1 .. Len(c)
  /\ c[1] = FLAG /\ \A j \in 2 .. n : c[j] # FLAG

Waiting(st, e) == e.seen = st.seen /\ e.dead = FALSE /\ e.start = 1

LEMMA ScanWaits ==
  ASSUME NEW st, NEW c, NEW n, st.dead = FALSE, Unfinished(c, n)
  PROVE  Waiting(st, Scan(st, c)[n])
<1>a. /\ c \in Seq(Nat) /\ n \in 1 .. Len(c)
      /\ c[1] = FLAG /\ \A j \in 2 .. n : c[j] # FLAG
  BY Zenon DEF Unfinished
<1> DEFINE p == Scan(st, c)
           m == n - 1
           Waits(e) == Waiting(st, e)
           S == {k \in 0 .. m : Waits(p[k + 1])}
<1>1. /\ p[0] = [seen |-> st.seen, dead |-> st.dead, start |-> 0]
      /\ \A i \in 1 .. Len(c) : p[i] = At(p[i - 1], c, i)
  BY <1>a, ScanIs, Zenon
<1>2. m \in Nat /\ 0 \in 0 .. m /\ m \in 0 .. m /\ m + 1 = n /\ 1 \in 1 .. Len(c) /\ 1 - 1 = 0 /\ 0 + 1 = 1
  BY <1>a
<1> HIDE DEF p, m
<1>3. 0 \in S
  <2> DEFINE s == p[0]
             r == p[1]
  <2>0. s.seen = st.seen /\ s.dead = FALSE /\ s.start = 0
    BY <1>1
  <2>1. r = At(s, c, 1)
    BY <1>1, <1>2, Zenon
  <2> HIDE DEF s, r
  <2>2. s.dead \in BOOLEAN
    BY <2>0, Zenon
  <2>3. Moved(s, c, 1, At(s, c, 1), Between(c, s.start, 1))
    BY <2>2, AtIs
  <2>4. Waits(r)
    BY <1>a, <2>0, <2>1, <2>3, Zenon DEF Moved, Waiting
  <2> QED
    BY <1>2, <2>4, Zenon DEF r
<1>4. ASSUME NEW k \in 1 .. m, k - 1 \in S PROVE k \in S
  <2> DEFINE j == k + 1
             s == p[(k - 1) + 1]
             r == p[k + 1]
  <2>0. Waits(s)
    BY <1>4, Zenon
  <2>1. j \in 1 .. Len(c) /\ j \in 2 .. n /\ (k - 1) + 1 = j - 1 /\ k \in 0 .. m
    BY <1>2, <1>a
  <2>2. r = At(s, c, j)
    BY <1>1, <2>1, Zenon
  <2> HIDE DEF s, r
  <2>3. s.dead \in BOOLEAN
    BY <2>0, Zenon DEF Waiting
  <2>4. Moved(s, c, j, At(s, c, j), Between(c, s.start, j))
    BY <2>3, AtIs
  <2>5. Waits(r)
    BY <1>a, <2>0, <2>1, <2>2, <2>4, Zenon DEF Moved, Waiting
  <2> QED
    BY <2>1, <2>5, Zenon DEF r
<1>5. \A k \in 1 .. m : k - 1 \in S => k \in S
  BY <1>4
<1>6. \A k \in 0 .. m : k \in S
  <2> HIDE DEF S
  <2> QED
    BY <1>2, <1>3, <1>5, UpTo
<1>7. Waits(p[m + 1])
  BY <1>2, <1>6, Zenon
<1>8. Waits(p[n])
  BY <1>2, <1>7, Zenon
<1> QED
  BY <1>8, Zenon DEF p

(* What the reader keeps between two reads.                                *)
Reader(st) == st.dead \in BOOLEAN /\ st.buf \in Seq(Nat)

(* Reading a and then b is reading both at once: whatever the first read   *)
(* left in the buffer, dead or alive (the main loop of trace.py).          *)
THEOREM ReadSplit ==
  ASSUME NEW st, Reader(st), NEW a \in Seq(Nat), NEW b \in Seq(Nat)
  PROVE  Read(Read(st, a), b) = Read(st, a \o b)
<1> DEFINE u == st.buf
           b1 == u \o a
           l1 == Len(b1)
           bb == u \o (a \o b)
           e == Scan(st, b1)[l1]
           st2 == Read(st, a)
<1>0. st.dead \in BOOLEAN
  BY Zenon DEF Reader
<1>1. /\ b1 \in Seq(Nat) /\ bb \in Seq(Nat) /\ l1 \in Nat /\ Len(b) \in Nat
      /\ Len(bb) = Len(b) + l1
      /\ \A j \in 1 .. l1 : bb[j] = b1[j]
      /\ \A j \in 1 .. Len(b) : bb[j + l1] = b[j]
  <2>0. u \in Seq(Nat)
    BY Zenon DEF Reader
  <2>1. /\ a \o b \in Seq(Nat) /\ Len(a \o b) = Len(a) + Len(b) /\ Len(b) \in Nat /\ Len(a) \in Nat
        /\ \A j \in 1 .. Len(a) : (a \o b)[j] = a[j]
        /\ \A j \in 1 .. Len(b) : (a \o b)[j + Len(a)] = b[j]
    BY Joined
  <2> HIDE DEF u
  <2>2. /\ b1 \in Seq(Nat) /\ l1 = Len(u) + Len(a) /\ Len(u) \in Nat
        /\ \A j \in 1 .. Len(u) : b1[j] = u[j]
        /\ \A j \in 1 .. Len(a) : b1[j + Len(u)] = a[j]
    BY <2>0, Joined, Zenon
  <2> DEFINE ab == a \o b
  <2>4. /\ ab \in Seq(Nat) /\ Len(ab) = Len(a) + Len(b)
        /\ \A j \in 1 .. Len(a) : ab[j] = a[j]
        /\ \A j \in 1 .. Len(b) : ab[j + Len(a)] = b[j]
    BY <2>1, Zenon
  <2>n. bb = u \o ab
    BY Zenon
  <2> HIDE DEF b1, bb, l1, ab
  <2>3. /\ bb \in Seq(Nat) /\ Len(bb) = Len(u) + (Len(a) + Len(b))
        /\ \A j \in 1 .. Len(u) : bb[j] = u[j]
        /\ \A j \in 1 .. Len(a) + Len(b) : bb[j + Len(u)] = ab[j]
    <3>1. /\ u \o ab \in Seq(Nat) /\ Len(u \o ab) = Len(u) + Len(ab)
          /\ \A j \in 1 .. Len(u) : (u \o ab)[j] = u[j]
          /\ \A j \in 1 .. Len(ab) : (u \o ab)[j + Len(u)] = ab[j]
      BY <2>0, <2>4, Joined, Zenon
    <3> QED
      BY <2>4, <2>n, <3>1, Zenon
  <2>5. ASSUME NEW j \in 1 .. l1 PROVE bb[j] = b1[j]
    <3>1. CASE j <= Len(u)
      <4>1. j \in 1 .. Len(u)
        BY <2>1, <2>2, <3>1
      <4> QED
        BY <2>2, <2>3, <4>1, Zenon
    <3>2. CASE ~(j <= Len(u))
      <4> DEFINE k == j - Len(u)
      <4>1. k \in 1 .. Len(a) /\ k \in 1 .. Len(a) + Len(b) /\ k + Len(u) = j
        BY <2>1, <2>2, <3>2
      <4> HIDE DEF k
      <4>2. b1[k + Len(u)] = a[k] /\ bb[k + Len(u)] = ab[k] /\ ab[k] = a[k]
        BY <2>2, <2>3, <2>4, <4>1, Zenon
      <4> QED
        BY <4>1, <4>2, Zenon
    <3> QED
      BY <3>1, <3>2, Zenon
  <2>6. ASSUME NEW j \in 1 .. Len(b) PROVE bb[j + l1] = b[j]
    <3> DEFINE k == j + Len(a)
    <3>1. k \in 1 .. Len(a) + Len(b) /\ k + Len(u) = j + l1
      BY <2>1, <2>2
    <3>2. ab[k] = b[j]
      BY <2>4, Zenon
    <3> HIDE DEF k
    <3>3. bb[k + Len(u)] = ab[k]
      BY <2>3, <3>1, Zenon
    <3> QED
      BY <3>1, <3>2, <3>3, Zenon
  <2>7. Len(bb) = Len(b) + l1 /\ l1 \in Nat
    BY <2>1, <2>2, <2>3
  <2> QED
    BY <2>1, <2>2, <2>3, <2>5, <2>6, <2>7, Zenon
<1>2. st2 = Left(e, b1) /\ Read(st, a \o b) = Left(Scan(st, bb)[Len(bb)], bb)
  BY ReadIs, Zenon
<1>3. /\ st2.seen = e.seen /\ st2.dead = e.dead
      /\ e.dead \/ e.start = 0 => st2.buf = <<>>
      /\ ~e.dead /\ e.start # 0 => st2.buf = SubSeq(b1, e.start, l1)
  <2> HIDE DEF e, b1, st2
  <2> QED
    BY <1>2, LeftIs, Zenon DEF l1
<1>4. Placed(e, b1, l1)
  <2>1. l1 \in 0 .. l1
    BY <1>1
  <2>2. \A i \in 0 .. Len(b1) : Placed(Scan(st, b1)[i], b1, i)
    <3> HIDE DEF b1
    <3> QED
      BY <1>0, <1>1, ScanPlaced
  <2> QED
    BY <2>1, <2>2, Zenon
<1>s. SUFFICES Read(st2, b) = Read(st, a \o b)
  BY Zenon
<1> HIDE DEF u, b1, l1, bb, e, st2
<1>5. Similar(Scan(st, bb)[l1], e, 0)
  <2>1. Holds(bb, b1, 0)
    <3>1. \A j \in 1 .. l1 : j + 0 = j
      BY <1>1
    <3>2. 0 \in Nat /\ l1 + 0 <= Len(bb) /\ l1 + 0 = l1 /\ 0 \in 0 .. l1 /\ 0 + 0 = 0
      BY <1>1
    <3> QED
      BY <1>1, <3>1, <3>2, Zenon DEF Holds, l1
  <2>2. Similar(Scan(st, bb)[0], Scan(st, b1)[0], 0)
    <3> DEFINE x == Scan(st, bb)[0]
               y == Scan(st, b1)[0]
    <3>1. x.seen = st.seen /\ x.dead = st.dead /\ x.start = 0
      BY <1>1, ScanFirst, Zenon
    <3>2. y.seen = st.seen /\ y.dead = st.dead /\ y.start = 0
      BY <1>1, ScanFirst, Zenon
    <3> HIDE DEF x, y
    <3>3. Similar(x, y, 0)
      BY <3>1, <3>2, Zenon DEF Similar
    <3> QED
      BY <3>3, Zenon DEF x, y
  <2>3. 0 \in 0 .. Len(b1) /\ 0 = 0 + 0 /\ l1 = Len(b1) + 0 /\ 0 \in Nat
    BY <1>1 DEF l1
  <2>4. Similar(Scan(st, bb)[l1], Scan(st, b1)[Len(b1)], 0)
    <3> DEFINE z == 0
    <3>1. Aligned(st, bb, st, b1, z, z, z, l1)
      BY <2>1, <2>2, <2>3, <1>0, Zenon DEF Aligned
    <3> HIDE DEF z
    <3>2. Similar(Scan(st, bb)[l1], Scan(st, b1)[Len(b1)], z)
      BY <3>1, ScanShift
    <3> QED
      BY <3>2, Zenon DEF z
  <2> QED
    BY <2>4, Zenon DEF e, l1
<1> DEFINE g == Scan(st, bb)[l1]
<1>6. g.seen = e.seen /\ g.dead = e.dead /\ (~e.dead => g.start = e.start)
  <2>1. e.start \in Int
    BY <1>1, <1>4 DEF Placed
  <2>2. e.start + 0 = e.start
    BY <2>1
  <2> QED
    BY <1>5, <2>2, Zenon DEF Similar
<1>7. e.dead \in BOOLEAN /\ st2.dead \in BOOLEAN
  BY <1>3, <1>4, Zenon DEF Placed
<1> DEFINE Meet(c, o, j0) ==
             /\ c = st2.buf \o b /\ Holds(bb, c, o) /\ Len(bb) = Len(c) + o
             /\ j0 \in 0 .. Len(c) /\ l1 = j0 + o /\ Similar(g, Scan(st2, c)[j0], o)
<1>8. ASSUME NEW c, NEW o, NEW j0, Meet(c, o, j0)
      PROVE  Read(st2, b) = Read(st, a \o b)
  <2>1. Read(st2, b) = Left(Scan(st2, c)[Len(c)], c)
    BY <1>8, ReadIs, Zenon
  <2>2. Similar(Scan(st, bb)[Len(bb)], Scan(st2, c)[Len(c)], o)
    <3>1. Aligned(st, bb, st2, c, o, l1, j0, Len(bb))
      BY <1>7, <1>8, Zenon DEF Aligned
    <3> QED
      BY <3>1, ScanShift
  <2>3. Placed(Scan(st2, c)[Len(c)], c, Len(c))
    <3>1. c \in Seq(Nat)
      BY <1>8, Zenon DEF Holds
    <3>2. Len(c) \in 0 .. Len(c)
      BY <3>1
    <3>3. \A i \in 0 .. Len(c) : Placed(Scan(st2, c)[i], c, i)
      BY <1>7, <3>1, ScanPlaced
    <3> QED
      BY <3>2, <3>3, Zenon
  <2> DEFINE s == Scan(st, bb)[Len(bb)]
             t == Scan(st2, c)[Len(c)]
  <2>4. Similar(s, t, o) /\ t.dead \in BOOLEAN /\ t.start \in 0 .. Len(c)
    BY <1>8, <2>2, <2>3, Zenon DEF Placed
  <2> HIDE DEF s, t
  <2>5. Left(s, bb) = Left(t, c)
    <3>1. Ended(s, bb, t, c, o)
      BY <1>8, <2>4, Zenon DEF Ended
    <3> QED
      BY <3>1, SameLeft
  <2> QED
    BY <1>2, <2>1, <2>5, Zenon DEF s, t
<1>9. CASE e.dead \/ e.start = 0
  <2>1. st2.buf \o b = b
    <3>1. <<>> \o b = b
      OBVIOUS
    <3> QED
      BY <1>3, <1>9, <3>1, Zenon
  <2>2. Holds(bb, b, l1)
    <3>1. Len(b) + l1 <= Len(bb)
      BY <1>1
    <3> QED
      BY <1>1, <3>1, Zenon DEF Holds
  <2>3. Scan(st2, b)[0] = [seen |-> st2.seen, dead |-> st2.dead, start |-> 0]
    BY ScanIs
  <2> DEFINE t == Scan(st2, b)[0]
  <2>4. t.seen = st2.seen /\ t.dead = st2.dead /\ t.start = 0
    BY <2>3
  <2> HIDE DEF t, g
  <2>5. Similar(g, t, l1)
    BY <1>3, <1>6, <1>9, <2>4, Zenon DEF Similar
  <2>6. 0 \in 0 .. Len(b) /\ l1 = 0 + l1
    BY <1>1
  <2> QED
    <3>1. Meet(b, l1, 0)
      BY <1>1, <2>1, <2>2, <2>5, <2>6, Zenon DEF t
    <3> HIDE DEF Meet
    <3> QED
      BY <1>8, <3>1, Zenon
<1>10. CASE ~e.dead /\ e.start # 0
  <2> DEFINE p == e.start
             rest == SubSeq(b1, p, l1)
             c == rest \o b
             o == p - 1
             j0 == l1 - o
  <2>1. p \in 1 .. l1 /\ b1[p] = FLAG /\ \A j \in p + 1 .. l1 : b1[j] # FLAG
    <3>1. p \in 0 .. l1 /\ b1[p] = FLAG /\ \A j \in p + 1 .. l1 : b1[j] # FLAG
      BY <1>4, <1>10, Zenon DEF Placed
    <3>2. p # 0
      BY <1>10, Zenon
    <3>3. \A x \in 0 .. l1 : x # 0 => x \in 1 .. l1
      BY <1>1
    <3> QED
      BY <3>1, <3>2, <3>3, Zenon
  <2>2. st2.buf = rest
    BY <1>3, <1>10, Zenon
  <2> HIDE DEF p
  <2>3. /\ o \in Nat /\ o + 1 = p /\ j0 \in Nat /\ l1 = j0 + o /\ 1 <= j0
    BY <1>1, <2>1
  <2> HIDE DEF o, j0
  <2>4. rest \in Seq(Nat) /\ Len(rest) = j0 /\ \A j \in 1 .. j0 : rest[j] = b1[j + o]
    <3>1. o + j0 = l1 /\ o + j0 <= Len(b1) /\ o + 1 = p
      BY <1>1, <2>3 DEF l1
    <3>2. IsCut(SubSeq(b1, o + 1, o + j0), b1, o, j0)
      BY <1>1, <2>3, <3>1, CutOut
    <3>3. IsCut(rest, b1, o, j0)
      BY <3>1, <3>2, Zenon
    <3> HIDE DEF rest
    <3> QED
      BY <3>3, Zenon DEF IsCut
  <2> HIDE DEF rest
  <2>5. /\ c \in Seq(Nat) /\ Len(c) = j0 + Len(b)
        /\ \A j \in 1 .. j0 : c[j] = rest[j]
        /\ \A j \in 1 .. Len(b) : c[j + j0] = b[j]
    BY <2>4, Joined, Zenon
  <2> HIDE DEF c
  <2>6. Holds(bb, c, o) /\ Len(bb) = Len(c) + o
    <3>1. ASSUME NEW j \in 1 .. Len(c) PROVE bb[j + o] = c[j]
      <4>1. CASE j <= j0
        <5>1. j \in 1 .. j0 /\ j + o \in 1 .. l1
          BY <1>1, <2>3, <2>5, <4>1
        <5> QED
          BY <1>1, <2>4, <2>5, <5>1, Zenon
      <4>2. CASE ~(j <= j0)
        <5> DEFINE k == j - j0
        <5>1. k \in 1 .. Len(b) /\ k + j0 = j /\ k + l1 = j + o
          BY <1>1, <2>3, <2>5, <4>2
        <5> HIDE DEF k
        <5>2. c[k + j0] = b[k] /\ bb[k + l1] = b[k]
          BY <1>1, <2>5, <5>1, Zenon
        <5> QED
          BY <5>1, <5>2, Zenon
      <4> QED
        BY <4>1, <4>2, Zenon
    <3>2. Len(bb) = Len(c) + o /\ Len(c) + o <= Len(bb)
      BY <1>1, <2>3, <2>5
    <3> QED
      BY <1>1, <2>3, <2>5, <3>1, <3>2, Zenon DEF Holds
  <2>7. c[1] = FLAG /\ \A j \in 2 .. j0 : c[j] # FLAG
    <3>1. 1 \in 1 .. j0 /\ 1 + o = p /\ \A j \in 2 .. j0 : j \in 1 .. j0 /\ j + o \in p + 1 .. l1
      BY <1>1, <2>1, <2>3
    <3>2. c[1] = b1[p]
      BY <2>4, <2>5, <3>1, Zenon
    <3>3. ASSUME NEW j \in 2 .. j0 PROVE c[j] # FLAG
      <4>1. c[j] = b1[j + o]
        BY <2>4, <2>5, <3>1, <3>3, Zenon
      <4> QED
        BY <2>1, <3>1, <3>3, <4>1, Zenon
    <3> QED
      BY <2>1, <3>2, <3>3, Zenon
  <2> DEFINE t == Scan(st2, c)[j0]
  <2>8. t.seen = st2.seen /\ t.dead = FALSE /\ t.start = 1
    <3>1. j0 \in 1 .. Len(c)
      BY <1>1, <2>3, <2>5
    <3>2. st2.dead = FALSE
      BY <1>3, <1>7, <1>10, Zenon
    <3>3. Unfinished(c, j0)
      BY <2>5, <2>7, <3>1, Zenon DEF Unfinished
    <3>4. Waiting(st2, t)
      BY <3>2, <3>3, ScanWaits
    <3> QED
      BY <3>4, Zenon DEF Waiting
  <2>9. 1 # 0 /\ 1 + o = p /\ j0 \in 0 .. Len(c)
    BY <1>1, <2>3, <2>5
  <2>10. g.seen = t.seen /\ g.dead = t.dead /\ g.start = IF t.start = 0 THEN 0 ELSE t.start + o
    <3>1. g.start = p /\ g.dead = FALSE
      BY <1>6, <1>7, <1>10, Zenon DEF p
    <3> HIDE DEF t, g
    <3> QED
      BY <1>3, <1>6, <2>8, <2>9, <3>1, Zenon
  <2>11. Similar(g, t, o)
    BY <2>10, Zenon DEF Similar
  <2>12. c = st2.buf \o b
    BY <2>2, Zenon DEF c
  <2> HIDE DEF g
  <2> QED
    <3>1. Meet(c, o, j0)
      BY <2>3, <2>6, <2>9, <2>11, <2>12, Zenon
    <3> HIDE DEF Meet
    <3> QED
      BY <1>8, <3>1, Zenon
<1> QED
  BY <1>9, <1>10, Zenon

(* A prefix and the bytes that follow it.                                  *)
LEMMA PrefixAndNext ==
  ASSUME NEW x \in Seq(Nat), NEW i \in 0 .. Len(x), NEW k \in i .. Len(x)
  PROVE  /\ SubSeq(x, 1, i) \in Seq(Nat) /\ SubSeq(x, i + 1, k) \in Seq(Nat)
         /\ SubSeq(x, 1, i) \o SubSeq(x, i + 1, k) = SubSeq(x, 1, k)
<1> DEFINE a == SubSeq(x, 1, i)
           b == SubSeq(x, i + 1, k)
           c == SubSeq(x, 1, k)
<1>0. Len(x) \in Nat /\ i \in Nat /\ k \in Nat /\ i <= k /\ k <= Len(x)
  OBVIOUS
<1>s. ASSUME NEW m \in Nat, m <= Len(x)
      PROVE  /\ SubSeq(x, 1, m) \in Seq(Nat) /\ Len(SubSeq(x, 1, m)) = m
             /\ \A j \in 1 .. m : SubSeq(x, 1, m)[j] = x[j]
  <2> DEFINE y == SubSeq(x, 1, m)
             z == 0
  <2>1. z \in Nat /\ z + m <= Len(x) /\ z + 1 = 1 /\ z + m = m /\ \A j \in 1 .. m : j + z = j
    BY <1>0, <1>s
  <2>2. IsCut(y, x, z, m)
    <3> HIDE DEF z
    <3>1. IsCut(SubSeq(x, z + 1, z + m), x, z, m)
      BY <1>s, <2>1, CutOut
    <3> QED
      BY <2>1, <3>1, Zenon
  <2> HIDE DEF y, z
  <2>3. y \in Seq(Nat) /\ Len(y) = m /\ \A j \in 1 .. m : y[j] = x[j]
    BY <2>1, <2>2, Zenon DEF IsCut
  <2> QED
    BY <2>3, Zenon DEF y
<1>1. a \in Seq(Nat) /\ Len(a) = i /\ \A j \in 1 .. i : a[j] = x[j]
  <2>1. i <= Len(x)
    BY <1>0
  <2> QED
    BY <1>0, <1>s, <2>1, Zenon
<1>2. b \in Seq(Nat) /\ Len(b) = k - i /\ \A j \in 1 .. k - i : b[j] = x[j + i]
  <2> DEFINE m == k - i
  <2>1. m \in Nat /\ i + m = k /\ i + m <= Len(x)
    BY <1>0
  <2> HIDE DEF m
  <2>2. IsCut(SubSeq(x, i + 1, i + m), x, i, m)
    BY <1>0, <2>1, CutOut
  <2>3. IsCut(b, x, i, m)
    BY <2>1, <2>2, Zenon
  <2> HIDE DEF b
  <2> QED
    BY <2>3, Zenon DEF IsCut, m
<1>3. c \in Seq(Nat) /\ Len(c) = k /\ \A j \in 1 .. k : c[j] = x[j]
  BY <1>0, <1>s, Zenon
<1> HIDE DEF a, b, c
<1>4. /\ a \o b \in Seq(Nat) /\ Len(a \o b) = Len(a) + Len(b)
      /\ \A j \in 1 .. Len(a) : (a \o b)[j] = a[j]
      /\ \A j \in 1 .. Len(b) : (a \o b)[j + Len(a)] = b[j]
  BY <1>1, <1>2, Joined, Zenon
<1> DEFINE d == a \o b
<1>5. /\ d \in Seq(Nat) /\ Len(d) = Len(a) + Len(b)
      /\ \A j \in 1 .. Len(a) : d[j] = a[j]
      /\ \A j \in 1 .. Len(b) : d[j + Len(a)] = b[j]
  BY <1>4, Zenon
<1> HIDE DEF d
<1>6. Len(d) = k
  BY <1>0, <1>1, <1>2, <1>5
<1>7. ASSUME NEW j \in 1 .. k PROVE d[j] = c[j]
  <2>1. CASE j <= i
    <3>1. j \in 1 .. i
      BY <1>0, <2>1
    <3> QED
      BY <1>1, <1>3, <1>5, <3>1, Zenon
  <2>2. CASE ~(j <= i)
    <3> DEFINE l == j - i
    <3>1. l \in 1 .. k - i /\ l + i = j
      BY <1>0, <2>2
    <3> HIDE DEF l
    <3>2. d[l + i] = b[l] /\ b[l] = x[l + i]
      BY <1>1, <1>2, <1>5, <3>1, Zenon
    <3> QED
      BY <1>3, <3>1, <3>2, Zenon
  <2> QED
    BY <2>1, <2>2, Zenon
<1>8. d = c
  BY <1>3, <1>5, <1>6, <1>7, SeqEqual, Zenon
<1> QED
  BY <1>1, <1>2, <1>8, Zenon DEF a, b, c, d

(* Before the first read nothing was handled and nothing is kept.          *)
LEMMA StartIs ==
  Reader(Start) /\ Read(Start, <<>>) = Start
<1>1. Start.seen = <<>> /\ Start.buf = <<>> /\ Start.dead = FALSE
  BY DEF Start
<1>2. <<>> \in Seq(Nat) /\ Len(<<>>) = 0 /\ <<>> = Start.buf \o <<>>
  BY <1>1
<1> DEFINE e == Scan(Start, <<>>)[Len(<<>>)]
           b == <<>>
<1>3. e.seen = Start.seen /\ e.dead = Start.dead /\ e.start = 0
  BY <1>2, ScanFirst
<1> HIDE DEF e
<1>4. Read(Start, <<>>) = Left(e, <<>>)
  BY <1>2, ReadIs, Zenon DEF e
<1>5. Left(e, b) = [seen |-> Start.seen, dead |-> Start.dead, buf |-> <<>>]
  BY <1>3, Zenon DEF Left
<1>6. Start = [seen |-> Start.seen, dead |-> Start.dead, buf |-> <<>>]
  BY <1>1, Zenon DEF Start
<1> QED
  BY <1>1, <1>2, <1>4, <1>5, <1>6, Zenon DEF Reader

(* However n reads cut a stream, of any length and at any n - 1 places,    *)
(* the reader is then where one read of the whole stream takes it.         *)
THEOREM CutsAreJoined ==
  ASSUME NEW stream \in Seq(Nat), NEW n \in Nat, NEW at \in Cuts(n, Len(stream))
  PROVE  ReadAll(Chunks(stream, n, at)) = Read(Start, stream)
<1> DEFINE chunks == Chunks(stream, n, at)
           Eq(f) == f = [k \in 0 .. n |-> IF k = 0 THEN Start ELSE Read(f[k - 1], chunks[k])]
           upto(k) == Read(Start, SubSeq(stream, 1, at[k]))
           w == [k \in 0 .. n |-> upto(k)]
           f == CHOOSE g : Eq(g)
           S == {k \in 0 .. n : f[k] = upto(k)}
<1>0. /\ at \in [0 .. n -> 0 .. Len(stream)] /\ at[0] = 0 /\ at[n] = Len(stream)
      /\ \A k \in 1 .. n : at[k - 1] < at[k]
  BY DEF Cuts
<1>1. /\ n \in 0 .. n /\ 0 \in 0 .. n
      /\ \A k \in 1 .. n : k # 0 /\ k \in 0 .. n /\ k - 1 \in 0 .. n
      /\ \A k \in 0 .. n : k # 0 => k \in 1 .. n
  OBVIOUS
<1>2. Len(chunks) = n /\ \A k \in 1 .. n : chunks[k] = SubSeq(stream, at[k - 1] + 1, at[k])
  <2>1. chunks = [k \in 1 .. n |-> SubSeq(stream, at[k - 1] + 1, at[k])]
    BY Zenon DEF Chunks
  <2>2. \A k \in 1 .. n : chunks[k] = SubSeq(stream, at[k - 1] + 1, at[k])
    BY <2>1, Zenon
  <2>3. DOMAIN chunks = 1 .. n /\ chunks = [k \in 1 .. n |-> chunks[k]]
    BY <2>1, Zenon
  <2>4. Len(chunks) = n
    <3> HIDE DEF chunks
    <3> QED
      BY <2>3
  <2> QED
    BY <2>2, <2>4, Zenon
<1>3. upto(0) = Start
  <2>1. SubSeq(stream, 1, 0) = <<>>
    OBVIOUS
  <2> QED
    BY <1>0, <2>1, StartIs, Zenon
<1>4. SubSeq(stream, 1, Len(stream)) = stream
  OBVIOUS
<1> HIDE DEF chunks
<1>5. ASSUME NEW k \in 1 .. n PROVE Read(upto(k - 1), chunks[k]) = upto(k)
  <2> DEFINE i == at[k - 1]
             j == at[k]
             a == SubSeq(stream, 1, i)
             b == SubSeq(stream, i + 1, j)
  <2>1. i \in 0 .. Len(stream) /\ j \in 0 .. Len(stream) /\ i < j
    BY <1>0, <1>1, <1>5
  <2> HIDE DEF i, j
  <2>2. j \in i .. Len(stream)
    BY <2>1
  <2>3. a \in Seq(Nat) /\ b \in Seq(Nat) /\ a \o b = SubSeq(stream, 1, j)
    BY <2>1, <2>2, PrefixAndNext, Zenon
  <2> HIDE DEF a, b
  <2>4. Read(Read(Start, a), b) = Read(Start, a \o b)
    BY <2>3, StartIs, ReadSplit, Zenon
  <2>5. chunks[k] = b
    BY <1>2, <1>5, Zenon DEF b, i, j
  <2> QED
    BY <2>3, <2>4, <2>5, Zenon DEF a, i, j
<1> HIDE DEF upto
<1>6. Eq(w)
  <2>1. \A k \in 0 .. n : w[k] = upto(k)
    BY Zenon
  <2>2. \A k \in 0 .. n : w[k] = IF k = 0 THEN Start ELSE Read(w[k - 1], chunks[k])
    <3> HIDE DEF w
    <3> QED
      BY <1>1, <1>3, <1>5, <2>1, Zenon
  <2> QED
    BY <2>2, Zenon
<1>7. Eq(f)
  <2>1. \E g : Eq(g)
    BY <1>6, Zenon
  <2> HIDE DEF Eq
  <2> QED
    BY <2>1, Zenon
<1>8. ReadAll(chunks) = f[n]
  BY <1>2, Zenon DEF ReadAll
<1> HIDE DEF f
<1>9. f[0] = Start /\ \A k \in 1 .. n : f[k] = Read(f[k - 1], chunks[k])
  BY <1>1, <1>7, Zenon
<1>10. 0 \in S
  BY <1>1, <1>3, <1>9, Zenon
<1>11. \A k \in 1 .. n : k - 1 \in S => k \in S
  <2> SUFFICES ASSUME NEW k \in 1 .. n, k - 1 \in S PROVE k \in S
    OBVIOUS
  <2>1. f[k - 1] = upto(k - 1)
    BY Zenon
  <2>2. f[k] = upto(k)
    BY <1>5, <1>9, <2>1, Zenon
  <2> QED
    BY <1>1, <2>2, Zenon
<1>12. \A k \in 0 .. n : k \in S
  <2> HIDE DEF S
  <2> QED
    BY <1>10, <1>11, UpTo
<1>13. f[n] = upto(n)
  BY <1>1, <1>12, Zenon
<1> QED
  BY <1>0, <1>4, <1>8, <1>13, Zenon DEF upto, chunks

(* The modem sends no more than the bound, and nothing is read that was    *)
(* not sent.                                                               *)
LEMMA ReadIsBounded ==
  ASSUME SingleReader
  PROVE  Spec => [](Len(rx_got) \in Transfers)
<1> DEFINE Bounded == Len(rx_sent) <= MaxMsgs
<1>1. Init => Bounded
  BY QueuePairAssumption DEF Init
<1>2. ASSUME RxInv, Bounded, [Next]_vars PROVE Bounded'
  <2>1. rx_sent \in Seq(Messages) /\ Len(rx_sent) \in Nat
    BY <1>2 DEF RxInv, RxTypes
  <2>2. CASE ModemFill
    <3>1. rx_sent' = Append(rx_sent, Len(rx_sent) + 1) /\ Len(rx_sent) < MaxMsgs
      BY <2>2 DEF ModemFill
    <3>2. Len(rx_sent') = Len(rx_sent) + 1
      BY <2>1, <3>1
    <3> QED
      BY <2>1, <3>1, <3>2, QueuePairAssumption
  <2>3. CASE UNCHANGED rx_sent
    BY <1>2, <2>3
  <2>4. ModemFill \/ UNCHANGED rx_sent
    BY <1>2 DEF Next, CdevWrite, TtyWrite, WriterStep, QpWrite, TdRingCopy, TdRingWrite, WriteDing,
       TtyFlag, CdevRead, ReadSignal, ReaderStep, ReadCheck, ReadCopy, TdRingArm, TdRingRead,
       ReadDing, ReadHandled, TtyWakeup, TtyClear, IrqHandler, ModemTake, ModemCrash, vars, rxVars
  <2> QED
    BY <2>2, <2>3, <2>4
<1>3. RxInv /\ Bounded => Len(rx_got) \in Transfers
  <2> SUFFICES ASSUME RxInv, Bounded PROVE Len(rx_got) \in Transfers
    OBVIOUS
  <2>1. /\ Len(rx_sent) \in Nat /\ Len(rx_got) \in Nat
        /\ Dist(FirstUnread, rx_rptr) = Len(rx_sent) - Len(rx_got)
    BY DEF RxInv, RxTypes
  <2>2. FirstUnread \in Index /\ rx_rptr \in Index
    BY NextTdValue DEF RxInv, RxTypes, FirstUnread
  <2>3. Dist(FirstUnread, rx_rptr) \in 0 .. Depth - 1
    BY <2>2, DistValue
  <2> QED
    BY <2>1, <2>3, QueuePairAssumption DEF Transfers
<1> QED
  BY <1>1, <1>2, <1>3, RxInit, RxStep, PTL DEF Spec

LEMMA TupleIsSeq ==
  ASSUME NEW k \in Nat, NEW s \in [1 .. k -> Nat]
  PROVE  s \in Seq(Nat) /\ Len(s) = k
  OBVIOUS

(* Whatever the transfers read so far were, trace.py is where one read of  *)
(* their bytes takes it (its main loop).                                   *)
THEOREM CutsNeverMatter ==
  ASSUME SingleReader
  PROVE  Spec => []CutsDoNotMatter
<1>1. ASSUME Len(rx_got) \in Transfers PROVE CutsDoNotMatter
  <2> DEFINE n == Len(rx_got)
  <2>1. n \in Nat
    BY <1>1, QueuePairAssumption DEF Transfers
  <2> HIDE DEF n
  <2>2. ASSUME NEW stream \in Streams, NEW at \in Cuts(n, 5)
        PROVE  ReadAll(Chunks(stream, n, at)) = Read(Start, stream)
    <3>1. stream \in Seq(Nat) /\ Len(stream) = 5
      <4>1. stream \in [1 .. 5 -> {FLAG, ESC, 94, 0}] /\ {FLAG, ESC, 94, 0} \subseteq Nat
        BY DEF Streams, FLAG, ESC
      <4>2. stream \in [1 .. 5 -> Nat]
        BY <4>1
      <4> QED
        BY <4>2, TupleIsSeq
    <3>2. at \in Cuts(n, Len(stream))
      BY <2>2, <3>1, Zenon
    <3> QED
      BY <2>1, <3>1, <3>2, CutsAreJoined, Zenon
  <2>3. n \in Transfers
    BY <1>1, Zenon DEF n
  <2>4. SamePackets[n] = (\A stream \in Streams : \A at \in Cuts(n, 5) :
                            ReadAll(Chunks(stream, n, at)) = Read(Start, stream))
    BY <2>3, Zenon DEF SamePackets
  <2>5. SamePackets[n]
    BY <2>2, <2>4, Zenon
  <2> QED
    BY <2>5, Zenon DEF CutsDoNotMatter, n
<1> QED
  BY <1>1, ReadIsBounded, PTL

=============================================================================
