# A TLA+ verification of xmm7360-pci

The repository holds a Linux driver for the Intel XMM7360 LTE modem
(`src/xmm7360.c`), the Python programs that bring up a data session through it
(`src/rpc/`), and the shell scripts and systemd unit that run them
(`src/scripts/`, `src/systemd/`). This directory holds models of those parts,
the TLC configurations that check them on small instances, and proofs, checked
by TLAPS, of the results that hold for every instance. `PROJECT.json` lists
the components, the runs, the correspondence between definitions and source
lines, the hazards and the theorems.

## 1. The system

Host and modem share a *control page*: a status, the pointers of a *command
ring* and the pointers of sixteen *transfer rings*. A queue pair is two
transfer rings, 2q towards the modem and 2q+1 from it. Either side moves only
its own pointer of a ring; the host rings a doorbell, the modem raises an
interrupt.

| Component | State | Operations | Talks to |
| --- | --- | --- | --- |
| command ring | `c_wptr`, `c_rptr`, `c_ring`, `xmm->error` | `cmd_ring_execute`, `cmd_ring_wait`, `xmm7360_poll`, `xmm7360_ding` | modem; called by queue pair control |
| queue pair control | `qp->open`, `qp->lock`, ring `depth`, pages, pointers | `qp_start`, `qp_stop`, `td_ring_create`, `td_ring_destroy` | command ring, interrupt handler |
| queue pair data path | ring pointers and pages, `last_handled`, `user_buf`, `tty_needs_wake` | `cdev_write`, `cdev_read`, `tty_write`, `td_ring_write`, `td_ring_read`, `irq0` | modem, user space, line discipline |
| network transmit path | packet queue, `queued_packets`, `queued_bytes`, `sequence`, timer, queue state | `net_open`, `net_close`, `net_xmit`, `net_deadline_cb`, `net_flush`, `net_poll`, `mux_frame_*` | ring 0, network stack |
| probe and removal | work items, registered devices, interrupt | `probe`, `dev_init_work`, `dev_deinit`, `remove` | all of the driver |
| RPC client | `attach_allowed`, the device file | `execute`, `pump`, `handle_message`, `do_fcc_unlock`, `UtaModeSet`, `get_ip` | character device |
| RPC encoding | none; bytes | `pack`, `unpack`, `unpack_unknown`, framing, the requests' bodies, `get_ip`'s reading of the answers | RPC client |
| D-Bus helper | `connection_path`, `device_path`, `device_props`; NetworkManager's profiles and device | `setup_network_manager` and the functions it calls | NetworkManager, its other users |
| user-space multiplexer | sequence number | `mux.py`: `append_tag`, `package`, `read_mux` | network channel in place of the driver's interface |
| trace reader | `buf`, bytes of an unfinished packet | main loop, `unescape`, `handle_packet`, `decode_printf` | character device |
| session | addresses, routes, rules, NOTRACK rules, DNS, PID file | `open_xdatachannel.py`, `xmm7360-up.sh`, `xmm7360-down.sh`, the unit | kernel, systemd |

Further parts: `mux.c` (a coalescing variant of `mux.py`), the tables of call and
indication numbers, `lte.sh`, packaging and examples.

What is hard about it:

* **No global lock.** A mutex per queue pair covers opening and closing; the
  command ring, the data path and the interrupt handler run without any.
* **A modem with its own will.** It may be slow, die, or finish a command
  after the host has stopped waiting for it.
* **Sleeping and waking.** Every sleep is a test followed by a sleep, and every
  wake-up an interrupt that may fall between the two.
* **Full rings.** The code answers them with `-EAGAIN`, with 0, with a stopped
  queue, or with silence, depending on the path.
* **Byte formats cut by hand.** A request is spliced out of two answers at fixed
  byte counts, an address is picked from a field by position, and a stream is
  read in pieces that end anywhere.
* **NetworkManager is shared.** Profiles and the device may go between any two
  D-Bus calls, and an object that is used again remembers what is gone.
* **Three processes configure one interface**, and systemd may stop or restart
  them in the middle.

## 2. Modules

```
CmdRing --- QpControl             QueuePair --implements--> Channel
                |                     |
            MCQpControl           MCQueuePair --- Trace
MuxFrame --- NetTx --implements--> TailDropChannel
   |           |                  AsnCodec --- Rpc --- MCRpc
 MuxPy ---- MCNetTx               XmDbus --- MCXmDbus
                                  Session --- MCSession

Proofs (a module extends what it is about, and the proofs it uses):
CmdRing, QpControl    QpControlProofs
MuxPy, MCNetTx        MuxFrameProofs --- NetTxProofs
MCQueuePair           QueuePairProofs
MCRpc                 AsnCodecProofs --- RpcProofs
XmDbus, Session       XmDbusProofs, SessionProofs
```

A name in a module is the name in the source where TLA+ allows it. A thread, a
handler or a script is a program counter; one action is the code between two
points at which somebody else can see or change shared state.

**CmdRing** (`xmm7360.c`, `cmd_ring_execute`). `pc[t]` follows one caller
through *read `c_wptr` and test for full* (`Execute`), *fill the slot*
(`WriteEntry`), *publish* (`Publish`), *doorbell and status* (`Ding`), *wait*
(`WaitDone`, `WaitCut`). These are separate steps because no lock covers them.
`WaitDone` comes before the two cuts, as `wait_event_interruptible_timeout`
looks at its condition first. `CmdInit` is the ring that `cmd_ring_init` leaves,
with the handshake and `CMD_WAKEUP` behind it.

**QpControl** extends CmdRing. `stage[t]` and `job[t]` follow a thread through
`qp_start` or `qp_stop`; while it is in a command, CmdRing's `pc[t]` moves. The
order matters and is kept: `qp->open` is set first, `td_ring_create` clears the
structure before it allocates, a failed first ring returns with `qp->open`
still set, a failed second ring destroys the first only, and `td_ring_destroy`
frees whatever its command returned. `modem_ring` is the modem's own view of a
ring: open from the execution of `CMD_RING_OPEN` to that of `CMD_RING_CLOSE`.
A second `open()` of an open queue pair is `-EBUSY` and changes nothing, so it
is not an action. Who calls `qp_stop` matters: a file is closed only if its
`open()` succeeded (`QpStop`), but `create_net` stops the network pair also when
its own `qp_start` has failed (`CreateNetFails`), with `qp->open` set and one of
the two rings missing. `td_ring_destroy` of a missing ring warns and
returns (`TdRingEmpty`). `NetQps` are the network pairs; `create_net` starts one
once (`created`). The interrupt handler's loop over a tty is one step here;
QueuePair has it in detail.

**QueuePair** starts where `qp_start` ends. A message is a transfer of at most
a page, so `cdev_read`'s cut to the caller's buffer is left out: those of
`rpc.py` and `trace.py` take more than a page. A writer and a reader are step sequences; for a tty the interrupt
handler is the reader, and cannot be entered twice. `tx_sent`, `tx_got`,
`rx_sent`, `rx_got` are history: what was published to, taken by, sent by and
copied from the modem.

**Channel** is what a ring promises: a lossless first-in first-out channel of
bounded capacity. QueuePair implements it twice (`TxChannel`, `RxChannel`), with
`sent` and `got` mapped to the history variables.

**MuxFrame** holds the frame operations as functions on a frame's layout (sizes
and offsets, no bytes). `Filled` is `net_flush`'s loop over the packets, a
recursive function of the number of packets taken. `AddTag`, `AppendData` and `AppendPacket` fail where the
code returns -1. **NetTx** is the transmit path around it: the locked part of
`net_xmit` is one step, what comes after the unlock another; the timer is
`idle`, `armed`, `running` (callback entered, lock not taken), or `ending` (flush
done, `hrtimer_active` still true). `net_poll` takes no lock and can run between
`net_xmit`'s look at the ring and `netif_stop_queue`.

**TailDropChannel** is what the transmit path promises the network stack, which a
lossless channel is not: packets are numbered as they are accepted, come out in
that order, a frame at a time, or are lost, and what is lost at one time is the
newest part of what is on its way. NetTx implements it (`UplinkChannel`): the
packets on their way are those of the queue and of the frames in the ring.

**MuxPy** builds the same frames the way `mux.py` does (`append_tag`, `package`,
`get_packet`), with its own sequence numbers: `NextSeq` goes round at 256, where
the driver's counter has 16 bits, and the frame that opens the channel always has
number 0, where the driver's has `xn->sequence`. `Layout` is a frame without its
number. It also takes received frames apart in both ways there are: the
driver's (`HandleFrame`) and `mux.py`'s (`ReadMux`), which reads half a page and
takes everything behind ADTH for bounds. MCNetTx compares the two programs.

**Rpc** is the conversation of `open_xdatachannel.py` through `rpc.py`. `Script`
is the sequence of calls; `After` is what the program does with each response,
`ActivateGsm` and `PumpForever` the `--dbus` branch after the last of them.
Messages are typed as `handle_message` does it, from transaction id and code
(`TypeOf`).

**AsnCodec** has the bytes of that conversation: `Pack` and its decoders at a
position of a byte sequence, framing (`Request`, `HandleMessage`), the body of
every request (`Requests`), the request spliced out of two answers (`Splice`), and
`get_ip`. The loops of `pack` and `unpack_unknown` are recursive functions of the
position, so that they can be reasoned about. A Python exception is a result with `ok` false. The two byte orders
of a long string's length (`ValidField`, `TakeValid`) are kept as they are.

**Trace** is `trace.py` on bytes: `Read` is one turn of its main loop. Its `find`s
are written as one pass over the buffer (`Scan`), in which the byte `At` a position
is the first flag, ends a packet, or changes nothing. `handle_packet` and
`DecodePrintf` are what is logged. The reader dies where Python raises. A message is logged as its
format and the bytes of its arguments; the text Python makes of them is not
computed, but which directives it refuses is (`Accepts`).

**XmDbus** is `setup_network_manager`, one action per D-Bus call, and between any
two of them other programs that add and delete profiles, and devices that come
and go. `get_device_prop_iface` is `GetDevices`, a `GetAll` for each listed device
in any order until one is `wwan0`, and `NotFound` when none was; `GetAll` of a
device that has gone raises, which is after the profile was rewritten. `returned`
says whether the last call raised. A call may be made on a new `DBUS` object or on the one of the call
before, whose fields then hold what that call found.

**Session** is the unit and its processes. Each runs a sequence of commands
(`PyScript`, `UpScript`, `DownScript`), one per step; `Effect` is what a command
does to the host. SIGTERM is handled between two commands. `NoDefaultRoute` is the
option `--nodefaultroute`, which the scripts do not give.

Each module also holds a few *broken variants*: copies of one definition with a
plausible mistake. `PROJECT.json` pairs each property with one that it rejects.

### Code outside the repository

Modelled from how the repository uses it, and marked `external`:

* *Modem firmware*: consumes commands in order, opens and closes rings as told,
  takes and fills descriptors in order, raises an interrupt, may crash at any
  time. A crash shows in the status word at the next poll.
* *Kernel*: the routes of an interface go with its last address and when it
  goes down; none can be added while it is down. The timer core keeps a timer
  active while its callback runs. `tty_write` compares a negative error with an
  unsigned count.
* *Firmware's answers*: in `rpc.py`'s own encoding, with an address area that is
  an IPv4 address, or half an IPv6 address and an IPv4 address (the case a comment
  in `get_ip` describes), sixteen slots for servers, and trace packets with flags
  and escapes escaped.
* *NetworkManager*: gives out an object path once, refuses calls on a path that is
  gone, and deactivates with the profile or the device.
* *systemd*: runs `ExecStop` before it signals the processes of a unit, also
  when the main process has exited with 0, but not after a failure; then
  `Restart=on-failure` starts the unit again.

## 3. Runs

### Passing

| Run | What it shows | Bounds, and why they are enough |
| --- | --- | --- |
| `qp_serial` | Two threads on one queue pair: success means the modem has both rings open (`OpenMeansOpen`), a closed pair has no ring left (`ClosedIsFree`), no ring is freed without a close in the queue unless it is already closed (`CloseBeforeFree`), the mutex is always released (`MutexReleased`) | Command ring of 5: one pair has at most three commands pending (two closes and an open that timed out), so it wraps but, like the driver's 128 entries, never fills. Timeouts, signals and crashes |
| `qp_net` | One caller, the network pair and another one. No command the modem can fetch is overwritten or withdrawn (`CommandKept`, `PublishedStays`); every call returns (`CallReturns`). No ring is created over an existing one (`BUG_ON(ring->depth)`), and a missing ring is destroyed only by `create_net`'s stop of a pair that failed to start, where exactly one of the two rings is left (`RingAssertions`) | Command ring of 4: timed-out commands of two pairs fill it, and it wraps. Each of the network pair's two opens can fail, before and after the other pair's commands, by a timeout, a signal, a crash or a full ring |
| `queuepair` | Both rings are lossless FIFO channels (`TxChannel`, `RxChannel`), no `BUG_ON` is reachable and no descriptor leaks (`NoOverrun`, `RxArmed`), a received message is read (`RxDelivered`). The trace reader, at the other end of such a channel, handles the same packets however transfers cut the stream (`CutsDoNotMatter`), those that lie between its flags, and logs what the modem sent (`MessageIsLogged`) | Every stream of 5 bytes over flag, escape, an escaped byte and 0, with every set of cuts into 1 to 5 transfers; three messages, each cut at every byte. Depth 4, 5 messages each way: the rings fill and every pointer wraps |
| `nettx` | The counters follow the queue (`CountersMatch`), what they admit fits a frame (`EstimateFits`, `FlushFits`), the path as a whole is a channel that keeps packets in order and drops the newest (`UplinkChannel`), they are lost only where the code gives them up (`LossOnlyAtDeadline`), a stopped queue starts again (`StoppedWakes`). `mux.py` sends frames of the driver's layout, data frames with the driver's number modulo 256 (`SameUplink`), and both read the same packets out of a received frame that fits `mux.py`'s read (`SameDownlink`) | Packets of 0 to 60 bytes, numbers below and around 256; up to 3 received packets, empty, short or long, IP or not. Frame of 136 bytes, lengths 1, 2 and 29, at most 3 packets: both limits are reached, at every alignment. Ring of 2, 4 packets, 2 opens |
| `rpc` | Each `execute` gets its own response (`ResponseMatches`), the mode is set on an unlocked modem only (`UnlockedBeforeMode`), the bring-up ends (`BringUpEnds`). Of the bytes: every request is read back as the fields it was built from (`PackedIsRead`), the connect request is cut at field boundaries (`SetupIsSpliced`), `get_ip` finds the address and the servers (`IpConfigRead`) | 3 indications (given, withdrawn, given), 2 attempts of `get_ip`. APNs of 0, 1, 100, 101 and 103 characters, strings of 0 to 514 elements around each change of the length field, up to 3 servers |
| `xm_dbus` | There is never a second profile (`OneProfile`), what is active is this client's profile, and after a call that returned it has that call's address (`ActiveIsCurrent`), no call is made with a field that was never set (`TypeOK`) | 3 calls, 2 addresses, 3 profiles, 2 appearances of `wwan0` and one other device that may go: a profile is made, deleted and made again, and a remembered path or device is stale |
| `session` | While the RPC client still configures the interface, it undoes nothing that `xmm7360-up.sh` sets up, and its own default route is missing exactly when it was there before the script's flush (`HoldIsConfigured`), a stop leaves nothing behind (`StoppedIsClean`) and ends (`StopCompletes`) | 2 addresses, 3 starts: a session on the remains of a failed one that itself followed one |

What holds of a byte or frame format for all bounded inputs does not depend on the
state. The MC modules state it as a constant per call, outcome, number of
transfers or sequence number, which TLC computes once (`RequestRead`, `Spliced`,
`AnswersRead`, `SamePackets`, `BetweenFlags`, `LoggedInTwo`, `FramesAgree`,
`ReadersAgreeOn`); the
invariants say in which states the system relies on which of them: for the
requests under way, the answers that have arrived, the transfers that were read,
the sequence number the driver has reached.

`qp_net` and `qp_serial` let a wait end by its timeout and by a signal, at any
time before the modem has caught up.

Deadlock is not checked where the system may legitimately come to rest: the
modem has crashed, all bounded messages are delivered, all bounded calls are
made, or the session has ended.

### Runs that end in a violation

Each checks one statement of the repository that the code does not keep.

| Run | Statement | What happens |
| --- | --- | --- |
| `qp_two_pairs` | `xmm7360.c:307` "Wait for all commands to complete", and `xmm7360.c:102` | Two queue pairs opened at once write the same command slot; one `open()` succeeds though the modem never saw its command |
| `qp_tty_reopen` | `xmm7360.c:507` "read on disabled ring", `WARN_ON(1)` | A tty closed with unread data is opened again; an interrupt before its ring exists reads it |
| `queuepair_report` | `rpc.py:73` reports a short write | `cdev_write` reports the full length when the ring was full and nothing was written |
| `session_stop_early` | README line 87, `xmm7360-up.sh:44`: ExecStop tears the rules down | Stopped during the bring-up, `xmm7360-up.sh` adds its rules after `xmm7360-down.sh` removed them |
| `session_restart` | `xmm7360-up.sh:142` "replace stale source-based rule" | A restarted session takes the old address for its own and ends with the old address's rule |

Two passing properties state what the code does where it falls short of a promise.
`RingAssertions` does not exclude the warning "Tried destroying empty ring!"
(`xmm7360.c:450`): `create_net` reaches it whenever its `qp_start` fails after
`qp->open` was set (the action `TdRingEmpty`). `HoldIsConfigured` does not promise the default route
that `open_xdatachannel.py` installs unless `--nodefaultroute` is given: added
before `xmm7360-up.sh:124`, it goes with the address and is not added again.

`CloseBeforeFree` is as much as holds of a close that is not waited for: when a
signal or the timeout ends the wait for `CMD_RING_CLOSE`, the pages are freed
while the modem still has the ring open, but the close is in the queue.

### Fairness

* `QpControl`: a thread in the kernel runs on, and the one-second
  timer of the wait expires. Signals are excluded from fairness (nobody owes a
  thread a signal), and the modem owes nothing.
* `QueuePair`: a raised interrupt is handled, the reading thread runs, and the
  application reads again (`rpc.py` pumps in a loop). Nothing is assumed of
  the modem or of writers.
* `NetTx`: a call in progress ends, timers expire, interrupts are handled, and a
  modem *that is up* takes what is in its ring; `StoppedWakes` excuses a
  crashed one.
* `Rpc`: the client runs; a modem answers each request, reports the mode after
  answering `UtaModeSetReq`, and says in the end that attaching is allowed. The
  client has no timeout, so without this the bring-up can wait forever, and
  `BringUpEnds` says only that no answer given is missed.
* `Session`: a process handles a pending SIGTERM, `cleanup`, `xmm7360-down.sh`
  and systemd go on. Nothing is assumed of the RPC client, which may be blocked
  in a read.

`XmDbus` states no fairness and has no liveness property: a D-Bus call may block.

## 4. Proofs

Eight modules hold theorems, for every value of the constants that satisfies the
named assumptions of the modules. All leaves are checked by SMT, Zenon or LS4.

**QpControlProofs** begins with the command ring, under `SingleCaller` (at most one
thread executes commands at a time, which one queue pair's mutex gives and two
do not).
`CommandsKept` is `CmdSpec => []CommandKept`, `PublishedCommandsStay` the action
property. `CommandKept` is not inductive: it says nothing of a caller that has
tested for full and not yet published. `CmdInv` adds that such a caller's slot
*is* `c_wptr` and that its successor is not `c_rptr`; the modem moves `c_rptr` only towards
`c_wptr`, and no second caller moves `c_wptr`, so this survives until
`Publish`.

The rest of it is about any number of threads on any number of queue pairs.
What one pair's mutex is enough for holds without conditions: `CtlTypesHold`,
`AssertionsHold` (`RingAssertions`) and `ClosedPairsAreFree` (`ClosedIsFree`).
The invariant (`MutexInv`, `RingInv`) says that a thread inside `qp_start` or
`qp_stop` has the mutex of its pair, and what each of the pair's two rings is
like at each stage of opening, undoing, closing and giving up (`GivingUp`); a pair
left open by a failed start has exactly one ring (`OneLeft`). So
`RingAssertions` does not say that the empty-ring warning is unreachable, which it is
not: it says that only `create_net` meets it, for one ring. `ControlUsesCmdRing` is
`CtlSpec => CmdSpec`: the pairs use the command ring only in the ways CmdRing
describes.

What involves the modem holds under conditions, stated in the theorems. `Serial`
says that no two pairs are opened or closed at the same time, which the code
does not ensure: the run `qp_two_pairs` is the counterexample without it.
`SerialOpenMeansOpen` needs it because `OpenInv` follows one command: it is the
last of the ring, so when the modem has caught up it has executed it, and no
close of an open ring is pending. `SerialCloseBeforeFree` needs also `Room`, a
slot for the close, because `td_ring_destroy` frees the ring when
`cmd_ring_execute` returns `-EAGAIN`. `CloseInv` says of every ring without pages
that the modem has it closed once it has consumed all commands: the last
pending command for it is a close. `OnePairIsSafe` has neither condition: with
one pair the mutex is serial, and `BoundInv` counts the commands that may be
pending at each stage: at most one when `td_ring_destroy` is about to send its
close, two in `create_net`'s stop of a pair whose start failed. So every ring of
more than two entries, more than three with a network pair (`RoomyRing`), has
room; the driver's has 128.

**QueuePairProofs.** `TypesHold` is for any number of writers and readers that
race on one device: no index leaves its ring. The rest assumes `SingleWriter` or
`SingleReader`, or both. `RingsNeverOverrun` is `Spec => []NoOverrun`;
`RingStaysArmed` is `Spec => []RxArmed`; `TxImplementsChannel` and
`RxImplementsChannel` are the refinements. `TxInv` says that the pages between
`tx_rptr` and `tx_wptr` hold, in order, what was sent and not yet taken, and that a
writer past the full test still has a free page. `RxInv` says the same of the other ring,
in three stretches: armed pages, pages filled and not read, and the page being
read, which is not armed again before it was copied. Positions are
compared by their distance modulo the depth.

The second part of the module is about `trace.py`, for streams of any length.
`ReadSplit`: two turns of the main loop, on `a` and then on `b`, leave it exactly
where one turn on `a \o b` does. The argument compares two passes: the one over
what the first turn left in the buffer and `b`, and the second half of the pass
over everything. Before a flag both wait (`ScanWaits`); from the flag that starts
the rest on, the two are the same up to a shift of positions (`Aligned`), because
the bytes of a packet are those between two flags of the same buffer
(`ScanShift`). `CutsAreJoined` is the induction over the reads: any number of
them, cut anywhere, is one read of the whole stream. `CutsNeverMatter` is
`Spec => []CutsDoNotMatter`.

**MuxFrameProofs.** `FlushBuildsFrame`: from packets of any number and any
lengths whose frame fits, `net_flush` builds a frame in which no operation
failed and which is well formed. This is an induction over the packets.
The library's induction theorems cannot be instantiated here, as they take
a predicate; `LeastNat` and `UpTo` replace them with a *set* of naturals as
the parameter, from the library's fact that `<` is well-founded: the least
index at which a statement fails is neither 0 nor a successor. `PaddedIs` and
`FilledIs` show in this way that the two recursive functions of MuxFrame
satisfy their equations, and `DataFrameIs` gives the frame in closed form.

The rest compares `mux.py` with the driver. `PackageIsDataFrame`: for every packet
that fits, what `package` builds has the layout of what `net_flush` builds for it,
and each has its sender's number; `ControlIsControlFrame` says it of the frame that
opens the channel, whose number is 0 in `mux.py`.
`ReadersReadTheSame` is about received frames with any number of packets of any
lengths. `Carries` is what both readers need of a frame: as many bounds as ADTH's
length says, all of them in front of ADTH. Then the driver hands up what
the bounds up to its stopping point hold (`DriverReads`), `mux.py` takes the first
of the same bounds and none is cut by the end of its read, since a read
that reaches the bounds has the packets in front of them (`MuxPyReads`); and
dropping the empty ones of a beginning gives a beginning (`KeptGrows`).

**NetTxProofs.** `FramesFit` is `Spec => []EstimateFits`: what
`net_must_flush` admits fits a frame although it leaves out up to three bytes of
alignment, because the page size is a multiple of four (`MuxFrameAssumption`). The
inductive invariant `CountInv` adds that an empty queue has counters of zero,
and that a re-open has reset them before anything is queued; it says nothing of the
counters after an error, where the code leaves them stale. `CountersFollowQueue`
(`CountersMatch`) is the equality of counters and queue until then, by
`MatchInv`. `FlushedFramesAreWhole` (`FlushFits`) is about the queue itself, also in
error: `FitInv` says that stale counters never count *less* than is queued, except
between two steps of a re-open, when the interface is down and nothing can be
queued; with `FlushBuildsFrame` every frame is whole. `PacketsStayInOrder`
(`InOrder`) is by `OrderInv`: delivered packets come before each frame in the
ring, each frame before the next and before the queue, and no packet has a
number above the last one accepted, so that a new one can join. `TypesHold`
says among other things that the ring never holds more than its capacity.
`LossIsAtDeadline` is the action property.

`TransmitIsTailDropChannel` is the refinement, `Spec => UplinkChannel`. A step that
moves the queue into the ring is a stutter of the channel; `Before` in its `Get` and
`Lose` is what `OrderInv` gives. It needs more than the order: `BatchInv` says that no
frame in the ring has more packets than a batch, and `OnePlace`, proved of the
channel's variables, that a packet lost or delivered is nowhere else.
`EveryPacketIsAccounted` is `Spec => []PacketsAccounted`. `SameUplinkAlways` and
`SameDownlinkAlways` take the comparison with `mux.py` to every state: `NumberInv`
bounds the sequence number by the packets accepted, so it is one of those the
constants of MCNetTx are defined for. The numbers are not taken from one side:
that a data frame's is the driver's modulo 256 follows from `NextSeq`.

**RpcProofs**, for every number of indications and attempts. `ResponsesMatch`
(`ResponseMatches`): a response carries nothing that names its request, so the
invariant has to say where the one message that matters is. `Conversation`: while
the script runs there is nothing under way, or exactly the request, or exactly
one response among any number of indications, acknowledgements and callbacks,
and it answers the request last written. `Answers` also says what a response
tells of the FCC lock at the positions where the script decides, which gives
`ModeSetIsUnlocked` (`UnlockedBeforeMode`). `TypesHold` is the type invariant.
`PackedIsReadAlways` and `SetupIsSplicedAlways` bring in the bytes: `CallsOnly`,
that only calls are ever under way to the modem, is inductive, and
AsnCodecProofs has what each call's body does.

**AsnCodecProofs**, for every format and all arguments. Each loop of the codec is
first shown to be the function its definition describes, by induction over a set
of naturals (`UpTo`; a recursive function is a `CHOOSE`, of which nothing is
known before). `AsnIntRead`, `ValidRead` and `FieldRead` say that one field is
taken as it was packed, wherever it lies (`Holds`); `FieldBounds`, that every
field taken advances, which `unpack_unknown`'s loop needs. `UnpackPack` puts this
together: `unpack_unknown` returns what `pack` was given, for all fields that fit
(`Fits`). The one condition on lengths is `Readable`: below 256, or with two equal
bytes, because `_pack_string` and `take_string` disagree on the byte order. It is
not empty of use: every field of the bring-up meets it, the 257 bytes of the APN
block included, for every APN of up to 103 bytes (`ApnConfigSends`).
`AnswerIsHandled` adds the framing, and `SplicedIsRead` the connect request: the
six bytes that `csr_req` cuts off are the last number of the first answer,
whatever stands in front of it.

**SessionProofs**, for every set of addresses and number of starts.
`HeldIsConfigured` (`HoldIsConfigured`) is by `HoldInv`, which relates the
positions of the two processes: `xmm7360-up.sh` sees an address only when the RPC
client is at its last command, so its flush is not followed by one of the RPC
client's, and what each command of `xmm7360-up.sh` has left stays. The RPC client's default
route is the other half, by `RouteInv`: it is there after the client's last
command if it was asked for, unless the script's flush, which drops the
interface's routes with its address, came later. `flushed` is history: the routes
that were there at the flush.
`StopLeavesNothing` (`StoppedIsClean`) assumes `~StopAnytime`, that a unit is
stopped when its session is up; `session_stop_early` shows what happens
otherwise. `StopInv` says that no process configures during such a stop, and
that what each command of `xmm7360-down.sh` has removed stays removed, so that the
host is clean when the last one is done. `TypesHold` is the type invariant.

**XmDbusProofs.** `TypesHold` is `Spec => []TypeOK`; its inductive invariant
`TypeInv` adds the types of the remembered fields, which stay behind when a
profile or the device goes. `ProfileIsUnique` is `Spec => []OneProfile`. That
there is one profile is not inductive: `add_connection` looks at
`connection_path` and not at the profiles. `ProfileInv` adds that
`connection_path` names a profile of this client or nothing any more, because
object paths are given out once (`PathInv`); that while the list is scanned a
profile not yet found is still on it, so that there is none when one is added
(`ScanInv`); and that a profile just added or updated has the session's address
(`FreshInv`). `ActiveProfileIsCurrent` is `Spec => []ActiveIsCurrent`, by
`ActiveInv`: what is active is this client's profile on the device that is there,
and the profile keeps the address it was activated with until a call rewrites it.
When that call then raises, in a `GetAll` for instance, the profile and
what is active differ; the invariant says so with `returned`.

Only model-checked:

* every liveness property (`CallReturns`, `MutexReleased`, `RxDelivered`,
  `StoppedWakes`, `BringUpEnds`, `StopCompletes`): fairness is out of this
  prover's reach;
* `IpConfigRead`: `Unpack` and the selection of the servers are folds (`FoldLeft`,
  `SelectSeq`, `FlattenSeq`) over the 39 fields of the answer, about which the
  provers have no facts;
* `MessageIsLogged`, for the same reason: `DecodePrintf` is a
  fold, and `Parts`, the reference for the packets of a stream, is written with
  `SetToSortSeq` and `SelectSeq`. That cuts do not matter is proved, so that
  it is left to show it for streams read at once.

## 5. What is not modelled

* `poll(2)`, `ioctl`, `write_room` and `chars_in_buffer` report state and change
  none. A `write` longer than a page is not split into several.
* Allocation failures of `td_ring_create`.
* Probe, init work and removal, but for `create_net`'s start and stop of the network
  pair (QpControl): they register and release kernel objects
  (network device, character device, tty port, interrupt, work item), and
  what may run before, during and after each of those calls is the kernel's
  rule, which nothing under `src/` states. The orders that matter are recorded as
  hazards: an interface registered before its queue pair is set, a failure path
  that reads what it has just freed (in QpControl the read finds what was there), an interrupt after the control page is gone.
* `mux.c`: nothing in the repository starts it. Its frame limits are
  those of `xmm7360.c`; its coalescing deadline (`mux.c:144`) is compared field by
  field, which is wrong across a second boundary.
* In Session: sysctl settings, the name of the routing table, the ping, and the
  `--dbus` branch. In Rpc: command line parsing, the search for a gsm profile
  (one choice: found or not), and the demonstration under `__main__`. In Trace:
  the text of a message and the filter on words.
* `UtaSysGetInfo`, which the bring-up does not call, `lte.sh`, tables, packaging and
  examples: no state of their own.

Hazards that no property covers are in `PROJECT.json` with a note: a lost
`tty_needs_wake`, two writers on one device, a packet queued while the timer's
callback ends, `UtaModeSetRspCb` ahead of its response, an indication the decoder
does not know, a held session that no longer reads the device, a SIGTERM
between setting DNS and remembering it. The models contain these windows or
state the assumption that excludes them.

## 6. Plan

Done: CmdRing, QpControl, QueuePair with Channel, MuxFrame and NetTx with
TailDropChannel, MuxPy, Rpc with AsnCodec, Trace, XmDbus, Session, and the eight
proof modules, which state every safety property of the passing runs but the two
of the list in section 4. In order of importance, next:

1. **`get_ip` without folds**: `Unpack` and the selection of servers as recursive
   functions of the position, as the other loops of AsnCodec now are, so that
   `IpConfigRead` can be stated for every answer.
2. **Lifecycle**, as far as the repository's own flags and orders go
   (`dev_deinit` runs twice after a failed probe).
