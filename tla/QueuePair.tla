----------------------------- MODULE QueuePair -----------------------------
(***************************************************************************)
(* The data path of one open queue pair of xmm7360.c: write(2) and tty     *)
(* writes into the ring towards the modem (xmm7360_qp_write,               *)
(* xmm7360_td_ring_write), and the ring from the modem, emptied by read(2) *)
(* on a character device or by the interrupt handler for a tty or the      *)
(* network interface.  Init is the state qp_start leaves: an empty ring    *)
(* towards the modem and Depth-1 descriptors armed in the other.           *)
(*                                                                         *)
(* A transfer of at most a page is a message.  The driver takes no lock in *)
(* these paths; a writer and a reader are sequences of separate steps, and *)
(* Writers and Readers may have several members.                           *)
(***************************************************************************)
EXTENDS Integers, Sequences

CONSTANTS
  Writers, Readers,  \* threads; for a tty, the handler acts as its reader
  Depth,             \* descriptors per ring, a power of two
  MaxMsgs,           \* bound: messages offered in each direction
  NoMsg              \* contents of a page never written

ASSUME QueuePairAssumption ==
  /\ Depth \in Nat /\ Depth > 1
  /\ MaxMsgs \in Nat
  /\ NoMsg \notin 1 .. MaxMsgs

VARIABLES
  kind,                      \* "cdev" | "tty": what is behind the queue pair
  tx_wptr, tx_rptr, tx_page, \* the ring towards the modem
  rx_wptr, rx_rptr, rx_page, \* the ring from the modem
  last_handled,              \* ring->last_handled of the latter
  user_buf,                  \* qp->user_buf, shared by all writers
  tty_needs_wake,
  wpc, wmsg, wwptr,          \* each writer: position, message, local wptr
  rpc, ridx, rwptr,          \* each reader: position, local idx and wptr
  modem, error, irq,
  tx_sent, tx_got,           \* messages published to, and taken by, the modem
  rx_sent, rx_got,           \* messages from the modem, and copied to readers
  offered, reported          \* writes begun; writes reported as accepted

txVars  == <<tx_wptr, tx_rptr, tx_page, tx_sent, tx_got>>
rxVars  == <<rx_wptr, rx_rptr, rx_page, last_handled, rx_sent, rx_got>>
wVars   == <<user_buf, tty_needs_wake, wpc, wmsg, wwptr, offered, reported>>
rVars   == <<rpc, ridx, rwptr>>
devVars == <<kind, modem, error, irq>>
vars    == <<txVars, rxVars, wVars, rVars, devVars>>

Index    == 0 .. Depth - 1
Messages == 1 .. MaxMsgs
Pages    == [Index -> Messages \cup {NoMsg}]
WriterPc == {"idle", "qp_write", "copy", "publish", "ding", "flag", "asleep"}
ReaderPc == {"idle", "check", "sleep", "copy", "rearm", "publish", "ding", "handled",
             "wake", "clear"}

(* Broken variant: a ring pointer does not wrap around.                    *)
NextTdNoWrap(i) == i + 1

(* (wptr + 1) & (ring->depth - 1): depths are powers of two.               *)
NextTd(i) == (i + 1) % Depth

Dist(from, to) == IF to >= from THEN to - from ELSE to - from + Depth

TxFull  == NextTd(tx_wptr) = tx_rptr      \* xmm7360_td_ring_full
HasData == rx_rptr # last_handled         \* xmm7360_qp_has_data
Poll    == error' = (error \/ modem = "crashed")

Init ==
  /\ kind \in {"cdev", "tty"}
  /\ tx_wptr = 0 /\ tx_rptr = 0 /\ tx_page = [i \in Index |-> NoMsg]
  /\ rx_wptr = Depth - 1 /\ rx_rptr = 0 /\ rx_page = [i \in Index |-> NoMsg]
  /\ last_handled = 0
  /\ user_buf = NoMsg /\ tty_needs_wake = FALSE
  /\ wpc = [w \in Writers |-> "idle"] /\ wmsg = [w \in Writers |-> NoMsg]
  /\ wwptr = [w \in Writers |-> 0]
  /\ rpc = [r \in Readers |-> "idle"] /\ ridx = [r \in Readers |-> 0]
  /\ rwptr = [r \in Readers |-> 0]
  /\ modem = "ok" /\ error = FALSE /\ irq = FALSE
  /\ tx_sent = <<>> /\ tx_got = <<>> /\ rx_sent = <<>> /\ rx_got = <<>>
  /\ offered = 0 /\ reported = 0

-----------------------------------------------------------------------------
(* Writing.                                                                *)

WriterAt(w, from, to) == wpc[w] = from /\ wpc' = [wpc EXCEPT ![w] = to]

(* cdev_write, qp_write_user: copy the caller's data into qp->user_buf.    *)
CdevWrite(w) ==
  /\ kind = "cdev"
  /\ offered < MaxMsgs
  /\ WriterAt(w, "idle", "qp_write")
  /\ offered' = offered + 1
  /\ wmsg' = [wmsg EXCEPT ![w] = offered + 1]
  /\ user_buf' = offered + 1
  /\ UNCHANGED <<txVars, rxVars, rVars, devVars, tty_needs_wake, wwptr, reported>>

(* tty_write: the line discipline passes its own buffer.                   *)
TtyWrite(w) ==
  /\ kind = "tty"
  /\ offered < MaxMsgs
  /\ WriterAt(w, "idle", "qp_write")
  /\ offered' = offered + 1
  /\ wmsg' = [wmsg EXCEPT ![w] = offered + 1]
  /\ UNCHANGED <<txVars, rxVars, rVars, devVars, user_buf, tty_needs_wake, wwptr, reported>>

(* Broken variant: qp_write does not ask whether the ring is full.         *)
QpWriteUnchecked(w) ==
  /\ IF error THEN WriterAt(w, "qp_write", "idle") ELSE WriterAt(w, "qp_write", "copy")
  /\ UNCHANGED <<txVars, rxVars, rVars, devVars, user_buf, tty_needs_wake, wmsg, wwptr,
                 offered, reported>>

(* qp_write: refuse in error (cdev_write returns the error), write nothing *)
(* to a full ring.  cdev_write then returns the size all the same, and     *)
(* tty_write returns 0 after setting tty_needs_wake (the error, too, is    *)
(* compared with count, but as an unsigned number: it sets no flag).       *)
QpWrite(w) ==
  /\ \/ error /\ WriterAt(w, "qp_write", "idle") /\ UNCHANGED reported
     \/ /\ ~error /\ TxFull /\ kind = "cdev"
        /\ WriterAt(w, "qp_write", "idle")
        /\ reported' = reported + 1
     \/ /\ ~error /\ TxFull /\ kind = "tty"
        /\ WriterAt(w, "qp_write", "flag")
        /\ UNCHANGED reported
     \/ ~error /\ ~TxFull /\ WriterAt(w, "qp_write", "copy") /\ UNCHANGED reported
  /\ UNCHANGED <<txVars, rxVars, rVars, devVars, user_buf, tty_needs_wake, wmsg, wwptr,
                 offered>>

(* Broken variant: td_ring_write fills the page after the write pointer.   *)
TdRingCopyNext(w) ==
  /\ WriterAt(w, "copy", "publish")
  /\ wwptr' = [wwptr EXCEPT ![w] = tx_wptr]
  /\ tx_page' = [tx_page EXCEPT ![NextTd(tx_wptr)] = wmsg[w]]
  /\ UNCHANGED <<tx_wptr, tx_rptr, tx_sent, tx_got, rxVars, rVars, devVars,
                 user_buf, tty_needs_wake, wmsg, offered, reported>>

(* td_ring_write: fill the page at the write pointer ...                   *)
TdRingCopy(w) ==
  /\ WriterAt(w, "copy", "publish")
  /\ wwptr' = [wwptr EXCEPT ![w] = tx_wptr]
  /\ tx_page' = [tx_page EXCEPT ![tx_wptr] = IF kind = "cdev" THEN user_buf ELSE wmsg[w]]
  /\ UNCHANGED <<tx_wptr, tx_rptr, tx_sent, tx_got, rxVars, rVars, devVars,
                 user_buf, tty_needs_wake, wmsg, offered, reported>>

(* ... BUG_ON(the ring overruns), publish.                                 *)
TdRingWrite(w) ==
  /\ WriterAt(w, "publish", "ding")
  /\ NextTd(wwptr[w]) # tx_rptr
  /\ tx_wptr' = NextTd(wwptr[w])
  /\ tx_sent' = Append(tx_sent, wmsg[w])
  /\ UNCHANGED <<tx_rptr, tx_page, tx_got, rxVars, rVars, devVars,
                 user_buf, tty_needs_wake, wmsg, wwptr, offered, reported>>

(* qp_write's doorbell; the write is over.                                 *)
WriteDing(w) ==
  /\ WriterAt(w, "ding", "idle")
  /\ Poll
  /\ reported' = reported + 1
  /\ UNCHANGED <<txVars, rxVars, rVars, kind, modem, irq,
                 user_buf, tty_needs_wake, wmsg, wwptr, offered>>

(* tty_write after a short write; the line discipline then sleeps until    *)
(* write_wakeup, and writes the rest.                                      *)
TtyFlag(w) ==
  /\ WriterAt(w, "flag", "asleep")
  /\ tty_needs_wake' = TRUE
  /\ UNCHANGED <<txVars, rxVars, rVars, devVars, user_buf, wmsg, wwptr, offered, reported>>

WriterStep(w) ==
  QpWrite(w) \/ TdRingCopy(w) \/ TdRingWrite(w) \/ WriteDing(w) \/ TtyFlag(w)

-----------------------------------------------------------------------------
(* Reading: cdev_read, and the loops of tty_poll_qp and net_poll.          *)

ReaderAt(r, from, to) == rpc[r] = from /\ rpc' = [rpc EXCEPT ![r] = to]

CdevRead(r) ==
  /\ kind = "cdev"
  /\ ReaderAt(r, "idle", "check")
  /\ UNCHANGED <<txVars, rxVars, wVars, devVars, ridx, rwptr>>

(* cdev_read's wait_event: sleep unless there is data or an error; an      *)
(* error wins over data.  The handler's loop only looks for data.          *)
ReadCheck(r) ==
  /\ \/ kind = "cdev" /\ error /\ ReaderAt(r, "check", "idle") /\ UNCHANGED ridx
     \/ kind = "cdev" /\ ~error /\ ~HasData /\ ReaderAt(r, "check", "sleep") /\ UNCHANGED ridx
     \/ kind = "tty" /\ ~HasData /\ ReaderAt(r, "check", "wake") /\ UNCHANGED ridx
     \/ /\ HasData /\ (kind = "cdev" => ~error)
        /\ ReaderAt(r, "check", "copy")
        /\ ridx' = [ridx EXCEPT ![r] = last_handled]
  /\ UNCHANGED <<txVars, rxVars, wVars, devVars, rwptr>>

(* A signal ends the sleep (-ERESTARTSYS).                                 *)
ReadSignal(r) ==
  /\ ReaderAt(r, "sleep", "idle")
  /\ UNCHANGED <<txVars, rxVars, wVars, devVars, ridx, rwptr>>

(* Broken variant: the data is copied from the page after last_handled.    *)
ReadCopyNext(r) ==
  /\ ReaderAt(r, "copy", "rearm")
  /\ rx_got' = Append(rx_got, rx_page[NextTd(ridx[r])])
  /\ UNCHANGED <<txVars, wVars, devVars, ridx, rwptr,
                 rx_wptr, rx_rptr, rx_page, last_handled, rx_sent>>

(* The copy to user space.  cdev_read cuts what the caller's buffer cannot *)
(* take; a message is at most a page here, and the buffers of rpc.py and   *)
(* trace.py take a page.                                                   *)
ReadCopy(r) ==
  /\ ReaderAt(r, "copy", "rearm")
  /\ rx_got' = Append(rx_got, rx_page[ridx[r]])
  /\ UNCHANGED <<txVars, wVars, devVars, ridx, rwptr,
                 rx_wptr, rx_rptr, rx_page, last_handled, rx_sent>>

(* td_ring_read: read the write pointer and fill its descriptor ...        *)
TdRingArm(r) ==
  /\ ReaderAt(r, "rearm", "publish")
  /\ rwptr' = [rwptr EXCEPT ![r] = rx_wptr]
  /\ UNCHANGED <<txVars, rxVars, wVars, devVars, ridx>>

(* Broken variant: two descriptors are armed for one message read.         *)
TdRingReadTwice(r) ==
  /\ ReaderAt(r, "publish", "ding")
  /\ NextTd(rwptr[r]) # rx_rptr
  /\ rx_wptr' = NextTd(NextTd(rwptr[r]))
  /\ UNCHANGED <<txVars, wVars, devVars, ridx, rwptr,
                 rx_rptr, rx_page, last_handled, rx_sent, rx_got>>

(* ... BUG_ON(the ring overruns), publish.                                 *)
TdRingRead(r) ==
  /\ ReaderAt(r, "publish", "ding")
  /\ NextTd(rwptr[r]) # rx_rptr
  /\ rx_wptr' = NextTd(rwptr[r])
  /\ UNCHANGED <<txVars, wVars, devVars, ridx, rwptr,
                 rx_rptr, rx_page, last_handled, rx_sent, rx_got>>

ReadDing(r) ==
  /\ ReaderAt(r, "ding", "handled")
  /\ Poll
  /\ UNCHANGED <<txVars, rxVars, wVars, kind, modem, irq, ridx, rwptr>>

(* Broken variant: the handler reads one message and does not look again.  *)
ReadHandledOnce(r) ==
  /\ ReaderAt(r, "handled", IF kind = "cdev" THEN "idle" ELSE "wake")
  /\ last_handled' = NextTd(ridx[r])
  /\ UNCHANGED <<txVars, wVars, devVars, ridx, rwptr,
                 rx_wptr, rx_rptr, rx_page, rx_sent, rx_got>>

(* last_handled moves on; the handler looks for more data.                 *)
ReadHandled(r) ==
  /\ ReaderAt(r, "handled", IF kind = "cdev" THEN "idle" ELSE "check")
  /\ last_handled' = NextTd(ridx[r])
  /\ UNCHANGED <<txVars, wVars, devVars, ridx, rwptr,
                 rx_wptr, rx_rptr, rx_page, rx_sent, rx_got>>

(* irq0 after the tty's loop: if a writer came too short and there is room *)
(* now, call the line discipline's write_wakeup, and clear the flag after. *)
TtyWakeup(r) ==
  /\ \/ /\ tty_needs_wake /\ ~TxFull
        /\ ReaderAt(r, "wake", "clear")
        /\ wpc' = [w \in Writers |-> IF wpc[w] = "asleep" THEN "qp_write" ELSE wpc[w]]
     \/ /\ ~tty_needs_wake \/ TxFull
        /\ ReaderAt(r, "wake", "idle")
        /\ UNCHANGED wpc
  /\ UNCHANGED <<txVars, rxVars, devVars, ridx, rwptr, user_buf, tty_needs_wake,
                 wmsg, wwptr, offered, reported>>

TtyClear(r) ==
  /\ ReaderAt(r, "clear", "idle")
  /\ tty_needs_wake' = FALSE
  /\ UNCHANGED <<txVars, rxVars, devVars, ridx, rwptr, user_buf, wpc, wmsg, wwptr,
                 offered, reported>>

ReaderStep(r) ==
  \/ ReadCheck(r) \/ ReadCopy(r) \/ TdRingArm(r) \/ TdRingRead(r)
  \/ ReadDing(r) \/ ReadHandled(r) \/ TtyWakeup(r) \/ TtyClear(r)

-----------------------------------------------------------------------------
(* irq0: poll the status; wake the sleepers of a character device, or      *)
(* start the loop over a tty's data.                                       *)
IrqHandler ==
  /\ irq
  /\ kind = "tty" => \A r \in Readers : rpc[r] = "idle"
  /\ irq' = FALSE
  /\ Poll
  /\ LET woken == IF kind = "cdev" THEN "sleep" ELSE "idle"
     IN rpc' = [r \in Readers |-> IF rpc[r] = woken THEN "check" ELSE rpc[r]]
  /\ UNCHANGED <<txVars, rxVars, wVars, kind, modem, ridx, rwptr>>

(* The modem (external) takes messages from the one ring and puts messages *)
(* in armed pages of the other, raising an interrupt each time, until it   *)
(* crashes.                                                                *)
ModemTake ==
  /\ modem = "ok" /\ tx_rptr # tx_wptr
  /\ tx_got' = Append(tx_got, tx_page[tx_rptr])
  /\ tx_rptr' = NextTd(tx_rptr)
  /\ irq' = TRUE
  /\ UNCHANGED <<rxVars, wVars, rVars, kind, modem, error, tx_wptr, tx_page, tx_sent>>

ModemFill ==
  /\ modem = "ok" /\ rx_rptr # rx_wptr
  /\ Len(rx_sent) < MaxMsgs
  /\ rx_page' = [rx_page EXCEPT ![rx_rptr] = Len(rx_sent) + 1]
  /\ rx_sent' = Append(rx_sent, Len(rx_sent) + 1)
  /\ rx_rptr' = NextTd(rx_rptr)
  /\ irq' = TRUE
  /\ UNCHANGED <<txVars, wVars, rVars, kind, modem, error, rx_wptr, last_handled, rx_got>>

ModemCrash ==
  /\ modem = "ok"
  /\ modem' = "crashed"
  /\ UNCHANGED <<txVars, rxVars, wVars, rVars, kind, error, irq>>

Next ==
  \/ \E w \in Writers : CdevWrite(w) \/ TtyWrite(w) \/ WriterStep(w)
  \/ \E r \in Readers : CdevRead(r) \/ ReadSignal(r) \/ ReaderStep(r)
  \/ IrqHandler
  \/ ModemTake \/ ModemFill \/ ModemCrash

Spec == Init /\ [][Next]_vars

(* The application keeps reading (rpc.py's pump loop), its thread and the  *)
(* handler keep running, and a raised interrupt is eventually handled.     *)
FairSpec ==
  /\ Spec
  /\ WF_vars(IrqHandler)
  /\ \A r \in Readers : WF_vars(CdevRead(r)) /\ WF_vars(ReaderStep(r))

-----------------------------------------------------------------------------
(* Types of the queue pair's state.                                        *)
TypeOK ==
  /\ kind \in {"cdev", "tty"}
  /\ tx_wptr \in Index /\ tx_rptr \in Index /\ tx_page \in Pages
  /\ rx_wptr \in Index /\ rx_rptr \in Index /\ rx_page \in Pages
  /\ last_handled \in Index
  /\ user_buf \in Messages \cup {NoMsg} /\ tty_needs_wake \in BOOLEAN
  /\ wpc \in [Writers -> WriterPc] /\ wmsg \in [Writers -> Messages \cup {NoMsg}]
  /\ wwptr \in [Writers -> Index]
  /\ rpc \in [Readers -> ReaderPc] /\ ridx \in [Readers -> Index]
  /\ rwptr \in [Readers -> Index]
  /\ modem \in {"ok", "crashed"} /\ error \in BOOLEAN /\ irq \in BOOLEAN
  /\ tx_sent \in Seq(Messages \cup {NoMsg}) /\ tx_got \in Seq(Messages \cup {NoMsg})
  /\ rx_sent \in Seq(Messages) /\ rx_got \in Seq(Messages \cup {NoMsg})
  /\ offered \in Nat /\ reported \in Nat

(* The BUG_ONs of td_ring_write and td_ring_read: a descriptor about to be *)
(* published never overruns the modem's read pointer.                      *)
NoOverrun ==
  /\ \A w \in Writers : wpc[w] = "publish" => NextTd(wwptr[w]) # tx_rptr
  /\ \A r \in Readers : rpc[r] = "publish" => NextTd(rwptr[r]) # rx_rptr

(* Between reads the modem has every descriptor but those holding unread   *)
(* data and one: td_ring_read gives back exactly one per message read, so  *)
(* the ring from the modem neither leaks descriptors nor dries up.         *)
RxArmed ==
  (\A r \in Readers : rpc[r] \in {"idle", "check", "sleep", "wake", "clear"})
    => Dist(last_handled, rx_wptr) = Depth - 1

(* Each ring is a lossless first-in first-out channel of Depth-1 messages: *)
(* the modem takes what the writers published, the readers get what the    *)
(* modem wrote (pages are never overwritten before they are read).         *)
Tx == INSTANCE Channel WITH Capacity <- Depth - 1, Messages <- Messages,
                            sent <- tx_sent, got <- tx_got
Rx == INSTANCE Channel WITH Capacity <- Depth - 1, Messages <- Messages,
                            sent <- rx_sent, got <- rx_got
TxChannel == Tx!Spec
RxChannel == Rx!Spec

(* A message from a modem that stays up reaches a reader: no interrupt is  *)
(* lost between has_data, the sleep and the wake-up of irq0.               *)
RxDelivered ==
  \A n \in 1 .. MaxMsgs :
    Len(rx_sent) >= n ~> (Len(rx_got) >= n \/ modem = "crashed")

(* What rpc.py relies on when it compares write's result with the length:  *)
(* a write reported as complete is one the modem will find in its ring.    *)
ReportedIsSent == reported <= Len(tx_sent)

=============================================================================
