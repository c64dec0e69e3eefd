# A TLA+ model of dcSCTP

This directory holds TLA+ specifications, TLC models and TLAPS proofs for
`net/dcsctp`, WebRTC's implementation of SCTP (RFC 4960 and its extensions) for
data channels. Paths below are relative to `src/source_code/net/dcsctp/` unless
they say otherwise. `PROJECT.json` gives, for every definition that models code,
the lines it models.

Contents: [1 Inventory](#1-inventory), [2 Modules](#2-modules),
[3 Model checking](#3-model-checking), [4 Proofs](#4-proofs),
[5 Findings](#5-findings), [6 Not modelled](#6-not-modelled),
[7 Plan](#7-plan).

## 1 Inventory

The repository is the native WebRTC tree with two stand-alone extracts of its
audio processing (`webrtc_aec`, `webrtc_ns`). Most of it is media code: codecs,
signal processing, estimators in floating point, platform I/O and plumbing.
`net/dcsctp` (19,000 lines without tests) was chosen because it is self-contained
and because what it promises (one association, every message once and in order,
an orderly end) has to survive everything a network and a process can do.

A `DcSctpSocket` is single-threaded: the embedder calls its public methods, hands
it received packets and expired timers, and gets callbacks. All concurrency is
between two sockets, the network, their applications, and the timers, whose
expirations may be delivered late.

| Component | State | Operations | What makes it hard | What should hold |
|---|---|---|---|---|
| **Socket** `socket/dcsctp_socket.cc` | association state, tags of the current attempt, T1-init, T1-cookie, T2-shutdown, TCB | Connect, Shutdown, Close, Send, one handler per chunk and per timer | simultaneous connects, restarts of the peer, late and repeated chunks, shutdown from any state | both ends agree on the association; the assertions of `IsConsistent`; a socket that waits has a timer; connects and shutdowns end; shutdown delivers what was sent |
| **TCB** `socket/transmission_control_block.cc` | tags, tie tag, COOKIE ECHO chunk, T3-rtx and delayed-ack timers, error counter; owns the components below | send buffered packets, SACKs, retransmissions | COOKIE ECHO bundled with data; replaced in a restart with data in flight | acknowledged means delivered |
| **Timer** `timer/timer.cc` | duration, generation, count, is running | Start, Stop, Trigger, set duration, create, destroy | expirations delivered after a stop, restart or destruction; callbacks that stop or restart the timer | never early, never asleep |
| **TaskQueueTimeout** `timer/task_queue_timeout.cc` | expiration, one posted task and its time | Start, Stop, run of the task | reuses tasks of stopped timeouts, replaces late ones | one live task, which comes in time |
| **DataTracker** `rx/data_tracker.cc` | cumulative TSN, blocks above it, duplicates, ack state | Observe, HandleForwardTsn, make a SACK, end of packet, timer expiry | reordering, duplicates, wrapping TSNs, FORWARD-TSN into a block, limits | it is a set of TSNs; SACKs are true and come in time |
| **ReassemblyQueue** and streams `rx/` | fragments by stream, next SSN or MID, messages | Add, FORWARD-TSN, reset of streams, deferred resets | fragments in any order, skipped messages, resets that wait for TSNs | each message once, whole, and in the order of its stream; queued bytes are what is queued |
| **OutstandingData** `tx/outstanding_data.cc` | a chunk's life: in flight, acked, nacked, abandoned, to be retransmitted; counts of items and bytes | SACK, nack, abandon, extract, insert, FORWARD-TSN | three nacks, abandoned messages with unsent rest, late SACKs | its `IsConsistent`; nothing acked is sent again; FORWARD-TSN skips abandoned chunks only |
| **RetransmissionQueue** `tx/retransmission_queue.cc` | cwnd, ssthresh, rwnd, fast recovery, T3-rtx | SACK, timeout, what to send next | entering and leaving fast recovery, zero windows | T3-rtx runs while data is outstanding; windows are respected |
| **RRSendQueue**, **StreamScheduler** `tx/` | messages per stream, pause states, virtual times | Add, Produce, Discard, reset of streams | messages that expire, are discarded or paused half-sent | fragments of a message stay together; buffered amounts add up; no active stream starves |
| **StreamResetHandler** `socket/stream_reset_handler.cc` | current request, sequence numbers, timer | RE-CONFIG in both directions | "in progress", retries, both sides at once | one request at a time; a reset ends once data before it is there |
| **HeartbeatHandler** `socket/heartbeat_handler.cc` | two timers | restart, request, ack, timeout | ack racing its timeout | errors counted once per lost heartbeat |
| **RetransmissionTimeout** `tx/retransmission_timeout.cc` | smoothed RTT, variance, RTO | observe an RTT | fixed-point arithmetic | RTO within its bounds |
| **RetransmissionErrorCounter** `tx/` | a count | increment, clear | limit not set | never exceeds the limit unnoticed |
| **CallbackDeferrer** `socket/callback_deferrer.cc` | deferred callbacks | prepare, trigger | re-entry from a callback | callbacks in order, each once |
| **Handover** `public/dcsctp_handover_state.h` | a snapshot | readiness, save, restore | anything not in the snapshot | restored socket goes on where the old one stopped |
| **Packets** `packet/` | none | serialise, parse, checksum, clean a SACK's blocks | bounds | round trips |

The embedder calls the socket; the socket creates and drops the TCB; the TCB owns
the trackers, queues and handlers and asks them, in `SendBufferedPackets`, what
to put into the next packet; all timers come from one `TimerManager`, whose
timeouts the embedder implements, usually by `TaskQueueTimeout`.

The hazards, each at its line and with the properties that would catch it, are
listed in `PROJECT.json`.

## 2 Modules

| Module | Models |
|---|---|
| `DcSctpSocket` | two sockets with their TCBs, and the network between them |
| `DcSctpTimer` | `Timer` and `TimerManager` on top of `TaskQueueTimeout` and a task queue |
| `DataTracker` | `DataTracker`, the unwrapping of TSNs, and the callers of both in socket and TCB |
| `ReceivedTsns` | abstract: what a data receiver promises, a set of TSNs; `DataTracker` implements it |
| `OutstandingData` | the life of a chunk; operators only, used by the next two |
| `RetransmissionQueue` | the sender of data: windows, T3-rtx, fast retransmission, FORWARD-TSN, limited messages, with a receiver and a network |
| `MessageTransfer` | abstract: the contract of the lifecycle callbacks |
| `QueueContract` | the refinement mapping under which `RetransmissionQueue` implements `MessageTransfer` |
| `ReassemblyQueue` | both kinds of reassembly streams; operators only, used by the next one |
| `StreamReset` | streams and their reset end to end: `StreamResetHandler` of both sides, the pause states of the send queue, `OutstandingData`, `ReassemblyQueue` |
| `RRSendQueue` | the send queue and `StreamScheduler` |
| `MCSocket`, `MCTimer`, `MCTracker`, `MCQueue`, `MCStreams`, `MCSendQueue` | instances for TLC |
| `DcSctpSocketProofs`, `DcSctpTimerProofs`, `DataTrackerProofs`, `MessageTransferProofs` | proofs about them |
| `OutstandingDataProofs`, `SendingProofs`, `HandlerProofs`, `RetransmissionQueueProofs` | proofs about the sender, each on top of the one before: the operators of `OutstandingData`, the sending of chunks, packets and single handlers, the theorems |

A C++ object is a record of its members, a method is an operator from the record
before to the record after, and an action is one call from outside: a public
method, a packet, an expired timer. A call runs to its end in one step, as it
does in the single-threaded code. An operator named `X_Y` before an operator `X`
is a wrong version of it, such as a programmer might write; the properties are
tested against these.

### DcSctpSocket

`sock[p]` has the members of a socket (`state_` , `connect_params_`, the timers,
`tcb_`, the send queue), `net[p]` the packets on their way to it, from which any
one may be delivered next, be lost, or be delivered and kept. `budget` bounds the
faults, the calls of the applications and the retries of T1 in one behaviour; `Init` takes it from
`Budgets`, so that one run covers several scenarios, each small. A timer that runs may expire at any time; it holds
its count of expirations, and `Trigger` is what `DcSctpTimer` models in detail.

| Code | Model |
|---|---|
| `Connect`, `Shutdown`, `Close`, `Send` | actions `Connect`, `Shutdown`, `Close`, `SendMessage` |
| `ReceivePacket`, `ValidatePacket`, `Dispatch` | `Receive`, with one operator per handler (`HandleInit` ... `HandleAbort`, `HandleSack`, `HandleData`) |
| cases A to D of a COOKIE ECHO with a TCB | `PeerRestarted`, `SimultaneousConnect`, `LateCookieEcho`, the rest of `HandleCookieEcho` |
| `HandleTimeout` | `InitTimer`, `CookieTimer`, `ShutdownTimer`, `RtxTimer`, `DelayedAckTimer` |
| `SendBufferedPackets`, `GetChunksToSend` | `SendBufferedPackets` |
| `OutstandingData`, `RetransmissionQueue::HandleSack` | `HandleSack` on sets of chunks |
| the process ends and starts again | `Restart` |

Abstractions: a tag stands for itself and the initial TSN drawn with it, and is
drawn fresh; a message is one chunk, has a packet to itself apart from control
chunks, and is unordered; the congestion window counts packets; whether a SACK is
sent at once or later is chosen freely (`DataTracker` has the rule); at most three
messages per socket, so nothing is reported missing three times. The receiver
window never fills, the options are the defaults but for the limits that are
constants.

### DcSctpTimer

One timer (another is created when it has been destroyed) and its timeout. All
points in time are relative to now, and `Tick` moves time on. `tasks` are the
live delayed tasks in the queue; a task whose safety flag was replaced is as
good as removed. `RunTask` is the posted lambda, which runs on time or late; it
gives the timeout id to the embedder (`expired`), who gives it to
`HandleTimeout` in a later step, in any order. `left` records, apart from the
code's own members, how long the last `Start` or backoff has still to run.

### DataTracker

`tracker` has the members of the class. The peer numbers its chunks without
wrapping (`First..Last`); only the wrapped numbers reach the tracker. Chunks of a
packet are handled one after the other (`bundle`), then comes `PacketEnd`;
packets are sent and the timer expires in between. `owed` counts, apart from the
code, the packets that have not been acknowledged. What the reassembly queue says
about its size is chosen freely, so chunks may be dropped (`DropData`), rejected
(`RejectData`) or taken (`HandleData`). If the queue is full and has no message
to deliver, the socket aborts the association, and the tracker is gone with it.

### OutstandingData and RetransmissionQueue

`q` has the members of `OutstandingData`, `RetransmissionQueue` and the few of TCB
and send queue that they work with. `HandleSackChunk` is `OutstandingData::HandleSack`;
`HandleSack` the one of the queue, with congestion control around it.

| Code | Model |
|---|---|
| `DcSctpSocket::Send`, `HandleSack` | actions `Send`, `ReceiveSack` |
| `OnRtxTimerExpiry`, `HandleT3RtxTimerExpiry` | `OnRtxTimerExpiry` |
| `SendBufferedPackets`, `GetChunksToSend` | operators of the same names: a burst of packets, each filled with retransmissions and new chunks as far as both windows allow |
| `AbandonAllFor`, `ExpireOutstandingChunks` | operators of the same names, with the placeholder for a rest that was never sent |
| the clock | `Lapse` (a lifetime ends), `ForwardTsnAgain` (a round trip has passed since the last FORWARD-TSN) |
| the peer's `DataTracker` | `Receive`, `SendSack` on a set of TSNs, which is what `DataTracker` implements |

Sizes are counted in words of four bytes. `rwnd` counts modulo `SizeLimit`, because
the code subtracts from an unsigned number without looking. Left out: time, and with
it the RTT; streams (`send_queue` says how much of each message in it has been sent,
and the oldest message is next).

`MessageTransfer` has only what the two sides promise each other: which message a
TSN belongs to, which messages were given up, what the receiver has or was told to
skip, and how each message ended. The mapping `MT` takes `owner` and `abandoned`
from history fields of `q` (`assigned`, `given_up`), since the code forgets a chunk
once it is acknowledged, and the rest from members.

### ReassemblyQueue and StreamReset

A stream holds a set of chunks, grouped by unwrapped SSN or MID. The methods of a
stream return what they report to the queue, in the code's four ways of counting:
bytes queued minus bytes assembled, bytes assembled, bytes erased, and zero for a
duplicate.

`StreamReset` puts sender (`a`) and receiver (`b`) together for one direction; the
other is its mirror image and shares nothing with it. An application script says
which messages are sent and when streams are reset. `log` records on both sides
what an application sees of a stream: messages and resets. Chunks have packets of
their own; the congestion window is a number of chunks.

| Code | Model |
|---|---|
| `DcSctpSocket::ResetStreams`, `HandleReconfig` | actions `ResetStreams`, `ReceiveResponse`, `ReceiveRequest` |
| `MakeStreamResetRequest`, `MakeReconfigChunk`, `HandleResponse`, `HandleResetOutgoing` | operators of the same names |
| `OnReconfigTimerExpiry` | action of the same name |
| `Pause`, `CommitResetStreams`, `RollbackResetStreams`, `Discard` | operators on the pause states |
| `HandleData`, `HandleForwardTsn` and their I- forms | `ReceiveData`, `ReceiveForwardTsn` |

With this implementation at both ends two things in the code are never reached:
no request is refused (`NeverFails`), so nothing is rolled back here, and a sender
sends nothing on a stream while its reset is under way, so no data of it is deferred,
only FORWARD-TSNs are. `RRSendQueue` does exercise the rollback.

### RRSendQueue

`q.streams` joins `OutgoingStream` and the scheduler's stream. Each public method
is an action, and the callers (socket, retransmission queue, stream reset handler)
may call them in any order their code allows: `Discard` only for a message that has
begun, one reset request at a time. `low` collects the callbacks of a call, `waited`
and `ended` are history. Inverse weights are whole numbers.

## 3 Model checking

| Run | Instance | Properties |
|---|---|---|
| `socket_handshake` | both connect or one does twice, a loss, a duplicate, Close; both connect and T1 retries; two messages, a restart of either process, a second connect | `TypeOK`, `Agreement`, `HandshakeConsistent`, `AckedIsDelivered` |
| `socket_shutdown` | T1 retries twice, a loss and a duplicate; T1 retries and one side shuts down; both connect, a loss; a message, a loss, Shutdown by either or both; fair | `WaitingIsArmed`, `ShutdownDeliversAll`, `HandshakeEnds`, `ShutdownEnds` |
| `timer` | two timers, durations 1 and 3, backoff to 6, five generations; fair | `TypeOK`, `OneTask`, `Awake`, `NeverEarly`, `BackoffInBounds`, `Triggers` |
| `tracker` | eight chunks over a wrap, up to two per packet, all limits reached | `TypeOK`, `BlocksInOrder`, `UnwrapsRight`, `SackIsTrueInReach`, `AckedInTime`, `Implements` |
| `queue` | five scripts of one or two messages in up to four fragments, limited and not; a packet or SACK lost, SACKs that overtake each other, T3-rtx at any time, a window that closes; fair | `Consistent`, `Timed`, `InCwnd`, `DeliveredIsReceived`, `Implements`, `AllEnd` |
| `streams` | nine scripts of messages and resets on two streams, with and without interleaving; a chunk lost, duplicated or late, or a timer early; fair | `TypeOK`, `InOrder`, `AllDelivered`, `QueuedBytes`, `NeverFails`, `ResetsEnd` |
| `send_queue` | three messages on two streams and three other calls in any order; eleven messages, one stream much busier | `IsConsistent`, `MessageUnderWay`, `Accounted`, `NoStarvation`, `LowIsTold` |
| `shutdown_data`, `late_cookie`, `sack_gaps`, `expired_stuck`, `late_fragment` | see [5](#5-findings) | one each, violated |

The first seven are exhaustive for their instance. Distinct states, and depth of the
state graph: `socket_handshake` 952,000 (27),
`socket_shutdown` 183,000 (27), `timer` 199,000 (54), `tracker` 394,000 (17), `queue`
302,000 (27), `streams` 133,000 (27), `send_queue` 695,000. Each takes a minute or two.

The comment above each property says what it means and which code it is about. In short:

- Socket. *Agreement*: two established sockets have each other's tags. *HandshakeConsistent*:
  the code's own `IsConsistent`, in the states of the handshake, and in Established as long as nobody shuts
  down; *Consistent*, of `late_cookie`, is `IsConsistent` in every state. *WaitingIsArmed*: a waiting socket has the right timer,
  and a TCB where handlers use it. *AckedIsDelivered*: the sender is never told
  a message was delivered that was not. *ShutdownDeliversAll*: OnClosed means nothing
  was left behind. *HandshakeEnds*, *ShutdownEnds*: the application gets an answer.
- Timer. *BackoffInBounds*: a timer waits no longer than its largest backoff or a duration it was given.
- Tracker. *SackIsTrueInReach*: the cumulative TSN of a SACK is right, and its blocks name what was
  received, or TSNs that offsets of 16 bits cannot tell from something received further ahead. *SackIsTrue*, of `sack_gaps`, is
  the same without the last clause.
- Queue. *Consistent*: the counts of bytes and chunks in flight are right. *Timed*: nothing
  waits without T3-rtx. *InCwnd*: what is in flight does not grow past the congestion window,
  but for the packet sent on entering fast recovery.
  *Implements*, *DeliveredIsReceived*: the contract of the lifecycle callbacks.
  *AllEnd*: every message ends; *EndedAtRest*, of `expired_stuck`, is the part of it that a finite run can refute.
- Streams. *InOrder*: the receiver sees each stream as it was sent, with its resets, and misses
  limited messages only. *AllDelivered*: when nothing is outstanding, all that had
  to arrive has. *QueuedBytes*: the count behind the advertised window is right.
  *NeverFails*, *ResetsEnd*: resets succeed, and end.
- Send queue. *IsConsistent*: amounts add up, active streams are those with something to
  send. *MessageUnderWay*: without interleaving no two messages mix. *Accounted*:
  each message is queued, sent or expired, once. *LowIsTold*: the callbacks of low
  amounts come exactly when they should. *NoStarvation*: a stream waits for a bounded number of fragments.

**Bounds.** Each is named by a constant: faults (`Budgets`,
`MaxFaults`), calls (`Budgets`, `ShutdownFrom`, `CloseFrom`, `Scripts`,
`max_calls`), counters (`CountCap`, `Generations`, `MaxRequests`, `MaxSacks`, the retry limits) and data (`Tags`,
`MaxChunks`, `SeqLimit`, the windows). Every situation of the handshake that RFC
4960 distinguishes needs two connects and one fault; a shutdown that crosses data
needs one message; a retry that races a late answer needs one retry, and giving up after it a second expiration. Retries,
faults and data are combined in the budgets of `MCSocket` two or three at a time: all of them together are out
of TLC's reach. Twelve tags are more than two sockets and their packets hold at a
time, so a fresh one is always there. The faults and states a socket run leaves out would make it
too large or are the subject of a finding. The tracker's window of six with gaps up to two
blocks reaches every branch of `Add` and `EraseTo`, with the wrap in the middle;
`GapLimit` is smaller than the window, as in the code, so that offsets are cut.
The timer's two durations let a restart be sooner than, at, and later than a
posted task, with a backoff that is cut. Four fragments and one loss are what three reports of a missing chunk
take; each script of the queue is there for one situation, named in `MCQueue`: a message given up with its
end unsent, one limited to a retransmission, one that lapses. The scripts of `MCStreams` likewise: a reset
with its message half sent, with limited messages of both streams outstanding, two resets
that wait for each other, unordered and interleaved messages. Only stream counts,
sizes and numbers that the code compares with each other matter to the send queue; three calls reach
a restart during a reset during a discarded message.

**Deadlock.** Two closed sockets with nothing on its way, a destroyed timer, a
sender with all its messages ended, may rest for ever: only the tracker's runs check
for deadlock. `AllEnd`, `ResetsEnd`, `ShutdownEnds` and `HandshakeEnds` say that nothing rests too early.

**Fairness.** `DcSctpSocket`'s `Fairness` says that something happens as long as
a packet is on its way or a timer runs that does anything: the network loses
finitely many packets and time passes. It does not choose between them, and asks nothing of the applications.
It is weak fairness of the whole next-state relation; the code relies on the
embedder for no more. `RetransmissionQueue` and `StreamReset` have weak fairness of the
steps that are neither calls of the application nor faults, taken together. Weak fairness
is written out there, `[]<>~CanStep \/ []<><<SystemStep>>_vars`, with `CanStep` in the place of
ENABLED, which TLC would compute by taking every step once more. `DcSctpTimer`'s
`FairSpec` has weak fairness of the clock,
of the task queue running a task that is due, and of the embedder handing over an
expired id; the timer's owner may do anything.

## 4 Proofs

TLAPS checks these for all values of the constants that satisfy the named
assumptions.

| Theorem | Module | States |
|---|---|---|
| `TypeCorrect` | `DcSctpSocketProofs` | `Spec => []TypeOK` |
| `AlwaysArmed` | `DcSctpSocketProofs` | `Spec => []WaitingIsArmed` |
| `HandshakeAgrees` | `DcSctpSocketProofs` | `Spec => []Agreement`, without restarts and without Shutdown in CookieEchoed |
| `TimerTypeCorrect`, `OneTaskAlways`, `AwakeAlways`, `NeverEarlyAlways` | `DcSctpTimerProofs` | the invariants of the timer |
| `TrackerTypeCorrect`, `BlocksAlwaysInOrder`, `AlwaysUnwrapsRight`, `AlwaysAckedInTime` | `DataTrackerProofs` | four invariants of the tracker |
| `SacksAreTrue` | `DataTrackerProofs` | `Spec => []SackIsTrueInReach`, for every window and every width of the offsets of gap ack blocks |
| `TrackerImplementsSet` | `DataTrackerProofs` | `DataTracker` implements `ReceivedTsns` |
| `QueueConsistent`, `T3RtxRuns`, `DeliveredHasArrived`, `FlightInCwnd` | `RetransmissionQueueProofs` | `Consistent`, `Timed`, `DeliveredIsReceived` and the action property `InCwnd` of the sender |
| `QueueImplementsContract` | `RetransmissionQueueProofs` | `RetransmissionQueue` implements `MessageTransfer` |
| `DeliveredMessagesAreReceived`, `ReliableMessagesAreReceived` | `MessageTransferProofs` | the two promises of `MessageTransfer` |

**Socket** (`PeersAssumption`, `TagsAssumption`, `LimitsAssumption`, `BudgetsAssumption`: two peers,
tags that are not 0, any budgets with at most three messages for a peer). `WaitingIsArmed` is not inductive:
a COOKIE ECHO creates a TCB from the tag in its cookie, and a TCB with tag 0 would be
no TCB. The invariant `IInv` adds that the cookie of every INIT ACK and COOKIE
ECHO, on its way or kept in a TCB, names a tag (`GoodPacket`, `Sane`), and that a
socket that is connecting has a tag of its own, which it puts into such cookies
(`Good`). Each handler has a lemma: what is `Good` before it is `Good` after it;
inside a handler only `Sane` holds, and `Same` says what has not changed. The
bounds on faults play no part: it holds for any number of losses, duplicates and
restarts, and with Shutdown and Close in every state.

`HandshakeAgrees` has two hypotheses, that no budget has a restart and `"CookieEchoed" \notin ShutdownFrom`; without
either of them the statement is false (section 5). Losses, duplicates, calls of Connect, Close in any state and
Shutdown in the others are not bounded. `Agreement` says nothing of the time before both are
established, and that is where it is decided. The invariant `Associated` relates the two sockets and
all packets between them (`Bound`), as long as neither has been closed: each INIT, INIT ACK and COOKIE ECHO names the tags of the
Connect it belongs to (`From`); two TCBs either hold each other's tags (`Agree`) or both sockets are in CookieEchoed, one with a tag that
the other drew for an INIT ACK before its own Connect (`Crossed`); and not both of them can hold, or be offered, such
a tag (`Drawn`). The COOKIE ECHO cases B and D of the RFC repair what is crossed, case C must not. A step either
leaves tags and handshake alone (`Calm`), which each handler's lemma shows along with `Good`, or is
one of `Dials`, `Answers`, `Echoes`, `Accepts` and `Completes`, each with a lemma that it keeps two sockets `Linked`.

**Timer** (`TimerAssumption`). `IInv` is `TypeOK /\ OneTask /\ Awake` and that a destroyed
timer does not run. `Ready` is the same of a timer in the middle of a call; `TimeoutStart`,
`Arm`, `Start`, `Stop`, `Expire` and `Renew` lead from ready to ready timers, whatever the
callback did between the two halves of `Trigger`. `NeverEarly` follows from `Awake`: the
id of the present generation is among the expired ones only when its time has come.
That an id is not used again while an old one with the same generation is on its way
is part of the specification (`NoReuse`), as it is of the code's header.

**Tracker** (`TrackerAssumption`: the windows of peer, network and tracker together fit
into half of the TSNs; the code has 100000 against 2^31). The first section shows
what `Add` and `EraseTo` do to blocks in order: they stay in order, and hold
exactly one TSN more, or those above the cut (`AddRight`, `EraseToRight`;
`EraseTo` may leave the first block empty, `AlmostInOrder`, until `FillGap`
takes it away). `Unwrapped` shows that a TSN within half of the range of the last
one is unwrapped to itself. The invariant `Sound` keeps blocks and unwrapper
within the window, `AckInv` says which ack states go with which packets owed.
`NextKeeps` proves at once that a step keeps the invariant and that it is a step
of `ReceivedTsns` or leaves it unchanged, from which the refinement follows.

`SacksAreTrue` has one hypothesis, which bounds a packet: a window for each chunk of two packets fits into half of the
TSNs, so that the cumulative TSN of the last SACK still unwraps to itself. The code has 100000 for the window, a few thousand
chunks for a packet of 64 KiB, and in practice less than a hundred, against 2^31. Nothing is assumed about the width of offsets: the code accepts 100000 TSNs
and reports them in 16 bits. What is proved for that case is what holds: the cumulative TSN is right, and a
TSN that a block names was received or is as far, modulo 2^16, from the cumulative TSN as one that was received and is 2^16 or more ahead
of it (`Confused`). In particular a SACK is wholly true if nothing was received that far ahead, and `sack_gaps` shows that
otherwise it may not be. `CutOffsets` is the arithmetic: cutting both ends of a block moves them by
the same multiple of 2^16, or leaves no TSN between them.
The SACK stays what it is while chunks arrive, so the invariant `SackInv` relates it to the tracker
at a later time: it was made for some cumulative TSN `c` (`SackedAt`) that is not ahead of the present
one, each TSN its blocks name is known or confused with one that is, and the cumulative TSN has moved on since by at
most a window for each chunk not yet acknowledged (`Unsacked`).

**Message transfer** (no assumptions: any set of messages). `DeliveredIsReceived`
is not inductive: what makes it true is that a message that was given up is not
reported as delivered, and that only such messages are skipped. `IInv` says that the
receiver has every TSN up to the sender's cumulative one, that a TSN it was told to skip
and never got belongs to a message given up, that a message ends once and not as
delivered after it was given up, and that the TSNs of a delivered message are all
acknowledged. That the code keeps to this contract is `QueueImplementsContract`.

**Sender** (`HeaderAssumption`, `QueueAssumption`: sizes are naturals, messages are not empty, a packet
has room for its headers and more; any messages, limits, windows, losses and SACKs).
A handler is a chain of operators, from the record it finds to the one it leaves, and in the middle of it
almost nothing of what the properties say is true: counts lag behind
items, chunks wait for fast retransmission, T3-rtx is not started yet. The argument has three layers.

- `OutstandingDataProofs`: what each operator of `OutstandingData` does to a record that is
  `Sane` (the TSNs follow each other, counts and bytes are those of the items, chunks to be retransmitted are nacked
  and not abandoned). A result is described by how it differs: `Removes` (a cumulative ack), `Touched`
  (states of items), `Abandons` (messages given up, with the placeholder at the
  end), `Inserts`. That counts follow the items is a statement about sums over sets
  (`Counted`): the section on sums shows that a sum exists, that it does not depend on the order
  of its elements, and how it changes with one of them (`SumExists`, `SumUnique`, `SumAdd`), and each
  operator's change of a counter is shown to be the change of the sum.
- `SendingProofs` and `HandlerProofs`: `Good` is kept by every step of a
  handler. It adds to `Sane` that a chunk's message is the one recorded for its TSN (`Owned`), that messages are abandoned as a whole and
  only their last chunk ends them (`Whole`), that what waits in the send queue is untouched or begun and not given up
  (`Waiting`), that a message ends once, delivered only with all chunks
  acknowledged (`Over`), and that the FORWARD-TSNs in the packets made so far skip only what is
  acknowledged or given up (`Packed`). `Ready` adds that T3-rtx runs if anything is `Pending`.
  The two loops of the code, over the chunks of a packet and the packets of a burst, are recursive
  functions; that they are defined, and that each of their values is as it should be, is shown by taking the
  first round for which it is not (`LeastNatural`). Sums take the smallest set in the same way (`SmallestSet`).
- `RetransmissionQueueProofs`: `HandlerInv` takes a handler that ends `Ready` to the invariant
  `QueueInv`, which is `AtRest` (`Good`, with nothing left over from a handler, and the history up to date), `Timed`, and `Remote`: what the
  receiver has, what is on its way to it and what SACKs on their way say about it. `DeliveredIsReceived` and
  the refinement need `Remote`: a SACK acknowledges only what arrived or was skipped, and only what was given up is skipped,
  whichever SACK or FORWARD-TSN overtakes another.

`FlightInCwnd` follows the bytes in flight along the same chain. Giving up, nacking and acknowledging
never add to them; a chunk is sent again or for the first time only if it fits, so that the chunks of one
packet add at most what was left of the window (`Flown`, `Limit`), however many packets the burst has. The packet of
`MaybeSendFastRetransmit` is not limited by the window: `GoodHandleSack` shows that there are chunks for it only when
the SACK reported a loss outside fast recovery, and that `fast_recovery_exit_tsn` is then a new one.
The proof showed that an earlier statement of `InCwnd` was wrong: it took the step from "not in fast recovery" to
"in fast recovery" as entering it, but one SACK may end a fast recovery with its cumulative TSN and start the next with its gaps.

`Contract` maps to `MessageTransfer` as `MT` does, but for `limited`: it takes every message as one that may be given
up, because after 65535 retransmissions `num_retransmissions` reaches `NoLimit` and the code
gives up messages that have no limit, too. That a message without limits is never skipped (the exact
`limited` of `Implements`) is therefore model-checked, and true below that number.

**Only model-checked.** Liveness (`HandshakeEnds`, `ShutdownEnds`, `Triggers`, `AllEnd`,
`ResetsEnd`): fairness and ENABLED are out of the prover's reach. `Implements` of the `queue` run with the exact
`limited`, as said above. The invariants of `StreamReset` and
`RRSendQueue`, whose operators fold over sequences: facts about these folds would have to be built up as those
about sums were, since the library's induction theorems cannot be used with these provers.
`AckedIsDelivered` and `ShutdownDeliversAll` of the socket: they fail when the bounds of their
runs are dropped, as the findings show, and hold for the instances given. `HandshakeConsistent`, and `BackoffInBounds` of the timer.

## 5 Findings

Five are shown by a run that ends in a counterexample; `PROJECT.json` quotes the
sentence that each contradicts.

- `shutdown_data`: SHUTDOWN is sent while a chunk that was reported missing, or
  is to be retransmitted, is still owed; OnClosed comes with a message lost.
- `late_cookie`: a COOKIE ECHO that comes a second time takes a socket from ShutdownSent back to
  Established with T2-shutdown running, and the assertion at the end of `ReceivePacket` fails. No fault is needed: T1-cookie
  expires before the COOKIE ACK arrives, and meanwhile the peer's application shuts down.
- `sack_gaps`: gap ack block offsets are cut to 16 bits while data is accepted
  100000 TSNs ahead; a SACK may acknowledge what was not received.
- `expired_stuck`: a message lapses when all that was sent of it is acknowledged and
  the rest is not sent. The next chunk is abandoned as it is inserted, no packet and no
  FORWARD-TSN is sent and no timer started: OnLifecycleEnd never comes, and
  Shutdown does not complete. The run shows it as a state at rest (`EndedAtRest`).
- `late_fragment`: a reset of one stream makes a FORWARD-TSN end inside an
  abandoned message of another. A late fragment of that message is stored
  below the SSN expected next, where `TryToAssembleMessage` finds it first, and later
  messages in several chunks are not delivered though all of them was received.

The scripts of the last two (`Lapses`, `SplitByReset`) are not among those of `queue` and
`streams`. Some more follow from a passing run when its bounds are changed as given here:

- Shutdown in CookieEchoed stops T1-cookie but keeps the COOKIE ECHO chunk, and
  T3-rtx does nothing while it is there. If the one packet that would help is lost,
  the socket never closes: `ShutdownEnds` in `socket_shutdown` with `"CookieEchoed"`
  in `ShutdownFrom`.
- The same Shutdown, when the peer has called Connect too: the socket in ShutdownSent answers its INIT with a new
  tag, then accepts the COOKIE ECHO that brings this tag back (it is not taken for a late one, as it has a tie-tag)
  and keeps its TCB. Both are established and each drops the packets of the other: `Agreement` in
  `socket_handshake` with `"CookieEchoed"` in `ShutdownFrom` and a budget of a connect each and a shutdown.
- A process that restarts in CookieEchoed while the peer connects too: its old COOKIE ECHO, still
  on its way, replaces the TCB that the peer has just made for the new
  association as a simultaneous connect would: `Agreement` in `socket_handshake` with a budget of
  two connects of one peer, one of the other, and a restart.
- Data bundled with a COOKIE ECHO that is discarded is taken by a TCB in which its
  TSN later belongs to another message, which is acknowledged but not delivered:
  `AckedIsDelivered` in `socket_handshake` when `Restarts` has a duplicate and a connect of the other peer too.
- `CreateForwardTsn` compares skipped SSNs as 16-bit numbers; of two abandoned messages
  on either side of the wrap it names the wrong one, and the stream stays blocked:
  `AllDelivered` in `streams` with `FirstSsn = 7`. It takes 65536 messages to meet.

And some were met while reading, and are translated as they are:

- T2-shutdown in ShutdownAckSent repeats SHUTDOWN, not SHUTDOWN ACK. The shutdown ends all the same: a peer in
  ShutdownSent takes it for a simultaneous one and answers it, and otherwise T2 gives up.
- After a forced SACK the delayed-ack timer runs on in states where the header
  says it does not. The only effect is a SACK that was not needed.
- Probing a closed window takes the chunk's size from an unsigned `rwnd_`, which then
  counts as wide open until the next SACK.
- Without interleaving the scheduler accounts virtual time for each fragment but changes streams
  only between messages: after a long message other streams may send several
  in a row. `NoStarvation` gives the bound.

## 6 Not modelled

Bytes: formats, parsing, checksums, error texts, logging and metrics. Time, outside of the timer
module: a timer may expire at any moment, so nothing depends on RTO or RTT, and no
property is about how long something takes. Options other than the limits;
negotiated capabilities; zero checksums. A failing `SendPacket` is a lost packet. A full reassembly
queue, which aborts the association. Handover, a snapshot of the members of all
components. `HeartbeatHandler`, which shares an error counter and the RTT with the rest.
`CallbackDeferrer`: a public method and its callbacks are one step, and what an application
does in a callback is its next call. `RetransmissionTimeout`: arithmetic on durations.
`chunk_validators`: SACKs come from a `DataTracker`, and are well formed. Incoming reset
requests, which this implementation answers but does not send.

Each module abstracts its neighbours: the socket has one stream of whole messages, the retransmission queue
a set of TSNs for its peer, the streams a count of chunks for congestion control. That
the parts fit is argued from what each promises: `DataTracker` implements
`ReceivedTsns`, the set of TSNs that the retransmission queue takes its peer for.

The rest of WebRTC is listed in `PROJECT.json` with the reason for each part: floating
point signal processing and estimators, codecs, device and platform I/O,
serialisation; ICE, pacing, NACK and packet buffers would be projects of their own.

## 7 Plan

What would add most next:

1. Heartbeats with the error counter they share with T3-rtx, and the deferrer with
   applications that call the socket from a callback.
2. Handover of a quiet socket: what is restored behaves as what was saved.
3. Proofs: that the buffered amounts of the send queue add up; that a stream reset
   handler has one request at a time.
