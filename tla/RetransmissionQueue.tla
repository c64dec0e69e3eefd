------------------------- MODULE RetransmissionQueue -------------------------
(***************************************************************************)
(* The sender of data: RetransmissionQueue (net/dcsctp/tx), with its       *)
(* OutstandingData, and the parts of TransmissionControlBlock and          *)
(* DcSctpSocket that drive it: SendBufferedPackets(), the T3-rtx timer,    *)
(* fast retransmission and FORWARD-TSN.  Messages may be limited in        *)
(* lifetime or in retransmissions.  At the other end is what the           *)
(* DataTracker implements, a set of TSNs; packets and SACKs are lost and   *)
(* overtake each other.                                                    *)
(*                                                                         *)
(* Time is left out: a timer that runs may expire, a lifetime may be over, *)
(* and the pause between two FORWARD-TSNs may have passed, at any moment.  *)
(* The send queue is a FIFO of messages: how RRSendQueue chooses between   *)
(* streams is the subject of RRSendQueue.tla.  Sizes are in words.         *)
(***************************************************************************)
EXTENDS OutstandingData

CONSTANTS
  Scripts,            \* what the application may send: sequences of
                      \* [size, max_retransmissions, lifetime]
  Mtu, PacketHeader, ForwardTsnSize,
  cwnd_mtus_initial, cwnd_mtus_min, max_burst,
  InitialRwnd, ARwnds(_), \* a_rwnd of the handshake, and of the SACKs for a script
  SizeLimit,          \* size_t counts modulo this
  max_retransmissions, \* of T3-rtx, before the association is aborted
  MaxLoss, MaxSacks   \* packets lost, SACKs under way at a time

VARIABLES
  Messages, \* what it does send
  q,       \* the sender's objects, flattened into one record
  lapsed,  \* messages whose lifetime is over
  net,     \* packets on their way to the receiver
  rx,      \* the receiver
  sacks,   \* SACKs on their way back
  losses

vars == <<Messages, q, lapsed, net, rx, sacks, losses>>

MessageIds == UNION {DOMAIN script : script \in Scripts}
None == 0

\* A packet has room for a FORWARD-TSN and for a chunk that carries something.
ASSUME QueueAssumption ==
  /\ \A script \in Scripts :
       /\ script \in Seq([size : Nat \ {0}, max_retransmissions : 0..NoLimit,
                          lifetime : BOOLEAN])
       /\ ARwnds(script) \subseteq Nat
  /\ {Mtu, PacketHeader, ForwardTsnSize, cwnd_mtus_initial, cwnd_mtus_min, max_burst,
      InitialRwnd, max_retransmissions, MaxLoss, MaxSacks} \subseteq Nat
  /\ SizeLimit \in Nat \ {0}
  /\ Mtu > PacketHeader + data_chunk_header_size + ForwardTsnSize

------------------------------------------------------------------------------
(* The send queue: how much of each message in it has been sent.           *)

Add(s, m) ==
  [s EXCEPT !.send_queue = [k \in DOMAIN @ \cup {m} |-> IF k = m THEN 0 ELSE @[k]]]

\* Messages that expire before their first fragment is sent are dropped; one
\* that has begun goes on.
NotDropped(s, m) == s.send_queue[m] > 0 \/ m \notin lapsed
Dropped(s) == {m \in DOMAIN s.send_queue :
                 \A k \in DOMAIN s.send_queue : k <= m => ~NotDropped(s, k)}

DropExpired(s, dropped) ==
  [s EXCEPT !.send_queue = Restrict(@, DOMAIN @ \ dropped),
            !.ended = [m \in DOMAIN @ |->
                         IF m \in dropped THEN Append(@[m], "Expired") ELSE @[m]]]

\* A fragment of at most this size of the message, which is sent up to offset.
Fragment(m, offset, max_size) ==
  LET left == Messages[m].size - offset
      size == Min({max_size, left})
  IN  [size |-> size, is_beginning |-> offset = 0, is_end |-> size = left]

\* What is left in the send queue when the fragment is taken from it.
Unread(send_queue, m, data) ==
  IF data.is_end THEN Restrict(send_queue, DOMAIN send_queue \ {m})
  ELSE [send_queue EXCEPT ![m] = @ + data.size]

TakeFragment(s, m, data) ==
  [q |-> [s EXCEPT !.send_queue = Unread(@, m, data)], message_id |-> m, data |-> data]

ProduceFrom(s, max_size) ==
  LET m == Min(DOMAIN s.send_queue)
  IN  IF DOMAIN s.send_queue = {} THEN [q |-> s, message_id |-> None]
      ELSE TakeFragment(s, m, Fragment(m, s.send_queue[m], max_size))

Produce(s, max_size) == ProduceFrom(DropExpired(s, Dropped(s)), max_size)

------------------------------------------------------------------------------
(* Congestion control.                                                     *)

is_in_fast_recovery(s) == s.fast_recovery_exit_tsn # None

MaybeExitFastRecovery(s, cumulative_tsn_ack) ==
  IF is_in_fast_recovery(s) /\ cumulative_tsn_ack >= s.fast_recovery_exit_tsn
  THEN [s EXCEPT !.fast_recovery_exit_tsn = None] ELSE s

HandleIncreasedCumulativeTsnAck(s, unacked_packet_bytes, total_bytes_acked) ==
  LET is_fully_utilized == unacked_packet_bytes + Mtu >= s.cwnd
      pba == s.partial_bytes_acked + total_bytes_acked
  IN  CASE s.cwnd <= s.ssthresh /\ is_fully_utilized /\ ~is_in_fast_recovery(s) ->
             [s EXCEPT !.cwnd = @ + Min({total_bytes_acked, Mtu})]
        [] s.cwnd > s.ssthresh /\ pba >= s.cwnd /\ is_fully_utilized ->
             [s EXCEPT !.partial_bytes_acked = pba - s.cwnd, !.cwnd = @ + Mtu]
        [] s.cwnd > s.ssthresh /\ ~(pba >= s.cwnd /\ is_fully_utilized) ->
             [s EXCEPT !.partial_bytes_acked = pba]
        [] OTHER -> s

HandlePacketLoss(s) ==
  LET reduced == Max({s.cwnd \div 2, cwnd_mtus_min * Mtu})
  IN  IF is_in_fast_recovery(s) THEN s
      ELSE [s EXCEPT !.ssthresh = reduced, !.cwnd = reduced, !.partial_bytes_acked = 0,
                     !.fast_recovery_exit_tsn = highest_outstanding_tsn(s)]

UpdateReceiverWindow(s, a_rwnd) ==
  [s EXCEPT !.rwnd = IF s.unacked_payload_bytes >= a_rwnd THEN 0
                     ELSE a_rwnd - s.unacked_payload_bytes]

\* Mutant: the timer is left off when the SACK has stopped it.
StartT3RtxTimerIfOutstandingData_Off(s) == s

StartT3RtxTimerIfOutstandingData(s) ==
  [s EXCEPT !.t3_rtx = @ \/ Tsns(s) # {}]

------------------------------------------------------------------------------
(* Sending.                                                                *)

\* What Produce() has returned, if anything, gets a TSN.  It is not sent if the
\* message has expired.
InsertNew(acc, p) ==
  IF p.message_id = None THEN [acc EXCEPT !.q = p.q]
  ELSE [q |-> Insert([p.q EXCEPT !.rwnd = (@ - p.data.size) % SizeLimit],
                     p.message_id, p.data, Messages[p.message_id].max_retransmissions,
                     p.message_id \in lapsed, p.data.is_end),
        max_bytes |-> acc.max_bytes - data_chunk_header_size - p.data.size,
        sent |-> IF p.message_id \in lapsed THEN acc.sent
                 ELSE acc.sent \cup {p.q.highest_tsn + 1}]

\* One round of the loop over new chunks in GetChunksToSend().
SendNew(acc) ==
  IF acc.max_bytes <= data_chunk_header_size THEN acc
  ELSE InsertNew(acc, Produce(acc.q, acc.max_bytes - data_chunk_header_size))

\* Each new chunk takes more than a header.
Rounds == Mtu \div (data_chunk_header_size + 1)

\* Mutant: the congestion window does not count what is in flight.
ByCwnd_Whole(s) == s.cwnd
ByCwnd(s) == IF s.unacked_packet_bytes >= s.cwnd THEN 0 ELSE s.cwnd - s.unacked_packet_bytes

ByRwnd(s) == IF s.unacked_items = 0 THEN Mtu
             ELSE (s.rwnd + data_chunk_header_size) % SizeLimit

SendNewChunks(rtx, max_bytes) ==
  LET after[i \in 0..Rounds] ==
        IF i > 0 THEN SendNew(after[i - 1])
        ELSE [q |-> rtx.q, max_bytes |-> max_bytes - PacketBytes(rtx.q, rtx.sent),
              sent |-> rtx.sent]
  IN  after[Rounds]

StartT3IfSent(c) == [q |-> [c.q EXCEPT !.t3_rtx = @ \/ c.sent # {}], sent |-> c.sent]

GetChunksToSend(s, bytes_remaining_in_packet) ==
  LET max_bytes == Min({ByCwnd(s), ByRwnd(s), bytes_remaining_in_packet})
  IN  StartT3IfSent(SendNewChunks(GetChunksToBeRetransmitted(s, max_bytes), max_bytes))

\* The packet is put into .out; the caller's action sends it.
SendFastRetransmit(f) ==
  [f.q EXCEPT !.t3_rtx = TRUE,
              !.out = @ \cup {[tsns |-> f.sent, forward_tsn |-> None]}]

MaybeSendFastRetransmit(s) ==
  IF s.to_be_fast_retransmitted = {} THEN s
  ELSE SendFastRetransmit(GetChunksToBeFastRetransmitted(s, Mtu - PacketHeader))

\* The FORWARD-TSN of this moment, or None.
ForwardTsn(s) ==
  IF ~s.limit_forward_tsn /\ ShouldSendForwardTsn(s)
  THEN Max({s.last_cumulative_tsn_ack} \cup Skipped(s)) ELSE None

\* ShouldSendForwardTsn() of the queue expires chunks, and is asked only when
\* the last FORWARD-TSN is long enough ago.
MaybeExpire(s) == IF s.limit_forward_tsn THEN s ELSE ExpireOutstandingChunks(s, lapsed)

\* One packet of SendBufferedPackets(); an empty one ends the burst.
EndPacket(c, forward) ==
  IF forward = None /\ c.sent = {} THEN [q |-> c.q, done |-> TRUE]
  ELSE [q |-> [c.q EXCEPT !.out = @ \cup {[tsns |-> c.sent, forward_tsn |-> forward]}],
        done |-> FALSE]

SendWith(s, forward) ==
  EndPacket(GetChunksToSend(
              [s EXCEPT !.limit_forward_tsn = @ \/ forward # None],
              Mtu - PacketHeader - (IF forward = None THEN 0 ELSE ForwardTsnSize)),
            forward)

SendFirst(s) == SendWith(s, ForwardTsn(s))

SendPacket(acc, packet_idx) ==
  CASE acc.done -> acc
    [] ~acc.done /\ packet_idx = 1 -> SendFirst(MaybeExpire(acc.q))
    [] ~acc.done /\ packet_idx > 1 -> SendWith(acc.q, None)

SendBufferedPackets(s) ==
  LET after[i \in 0..max_burst] ==
        IF i > 0 THEN SendPacket(after[i - 1], i) ELSE [q |-> s, done |-> FALSE]
  IN  after[max_burst].q

------------------------------------------------------------------------------
(* SACKs and the timer.                                                    *)

IsSackValid(s, sack) ==
  sack.cumulative_tsn_ack \in s.last_cumulative_tsn_ack..highest_outstanding_tsn(s)

\* The congestion window of after is computed from the flight of before the SACK.
MaybeIncreased(after, before, cumulative_tsn_ack, bytes_acked) ==
  IF cumulative_tsn_ack > before.last_cumulative_tsn_ack
  THEN HandleIncreasedCumulativeTsnAck([after EXCEPT !.t3_rtx = FALSE],
                                       before.unacked_packet_bytes, bytes_acked)
  ELSE after

MaybeReduced(s, has_packet_loss) == IF has_packet_loss THEN HandlePacketLoss(s) ELSE s

\* TxErrorCounter.Clear().
MaybeClear(s, bytes_acked) ==
  IF bytes_acked > 0 THEN [s EXCEPT !.tx_error_counter = 0] ELSE s

AfterAcks(ack_info, before, sack) ==
  StartT3RtxTimerIfOutstandingData(
    MaybeClear(
      MaybeReduced(
        MaybeIncreased(UpdateReceiverWindow(ack_info.q, sack.a_rwnd), before,
                       sack.cumulative_tsn_ack, ack_info.bytes_acked),
        ack_info.has_packet_loss),
      ack_info.bytes_acked))

HandleSackFrom(s, sack) ==
  AfterAcks(HandleSackChunk(s, sack.cumulative_tsn_ack, sack.gap_acked,
                            is_in_fast_recovery(s)),
            s, sack)

HandleSack(s, sack) == HandleSackFrom(MaybeExitFastRecovery(s, sack.cumulative_tsn_ack), sack)

HandleT3RtxTimerExpiry(s) ==
  NackAll([s EXCEPT !.ssthresh = Max({s.cwnd \div 2, 4 * Mtu}),
                    !.cwnd = Mtu, !.partial_bytes_acked = 0])

------------------------------------------------------------------------------
(* The system.                                                             *)

\* What the handler has put together is sent.  History: which message each TSN
\* that was assigned belongs to, and which messages were given up.
Sends(s) ==
  /\ q' = [s EXCEPT !.out = {}, !.assigned = @ \o
             [i \in 1..(s.highest_tsn - Len(@)) |->
                LET item == s.outstanding_data[Len(s.assigned) + i]
                IN  item.message_id],
             !.given_up = @ \cup
               {m \in MessageIds : s.ended[m] = <<"Expired">>} \cup
               {s.outstanding_data[t].message_id :
                  t \in {u \in Tsns(s) : is_abandoned(s.outstanding_data[u])}}]
  /\ net' = net \cup s.out

Init ==
  /\ Messages \in Scripts
  /\ q = [last_cumulative_tsn_ack |-> 0, highest_tsn |-> 0, outstanding_data |-> <<>>,
          unacked_payload_bytes |-> 0, unacked_packet_bytes |-> 0, unacked_items |-> 0,
          to_be_fast_retransmitted |-> {}, to_be_retransmitted |-> {},
          stream_reset_breakpoint_tsns |-> {},
          cwnd |-> cwnd_mtus_initial * Mtu, rwnd |-> InitialRwnd, ssthresh |-> InitialRwnd,
          partial_bytes_acked |-> 0, fast_recovery_exit_tsn |-> None,
          t3_rtx |-> FALSE, tx_error_counter |-> 0, limit_forward_tsn |-> FALSE,
          aborted |-> FALSE, send_queue |-> <<>>, out |-> {},
          ended |-> [m \in MessageIds |-> <<>>], assigned |-> <<>>,
          given_up |-> {}, accepted |-> 0]
  /\ lapsed = {} /\ net = {} /\ sacks = {} /\ losses = 0
  /\ rx = [data |-> {}, skipped |-> 0, owed |-> FALSE]

\* DcSctpSocket::Send() of the next message.
Send ==
  /\ ~q.aborted /\ q.accepted < Len(Messages)
  /\ Sends(SendBufferedPackets(Add([q EXCEPT !.accepted = @ + 1], q.accepted + 1)))
  /\ UNCHANGED <<Messages, lapsed, rx, sacks, losses>>

\* DcSctpSocket::HandleSack().
ReceiveSack(sack) ==
  /\ sacks' = sacks \ {sack}
  /\ IF ~q.aborted /\ IsSackValid(q, sack)
     THEN Sends(SendBufferedPackets(MaybeSendFastRetransmit(HandleSack(q, sack))))
     ELSE UNCHANGED <<q, net>>
  /\ UNCHANGED <<Messages, lapsed, rx, losses>>

\* TransmissionControlBlock::OnRtxTimerExpiry(); the timer starts itself again.
OnRtxTimerExpiry ==
  /\ ~q.aborted /\ q.t3_rtx
  /\ IF q.tx_error_counter + 1 > max_retransmissions
     THEN q' = [q EXCEPT !.aborted = TRUE, !.t3_rtx = FALSE] /\ UNCHANGED net
     ELSE Sends(SendBufferedPackets(HandleT3RtxTimerExpiry(
                  [q EXCEPT !.tx_error_counter = @ + 1])))
  /\ UNCHANGED <<Messages, lapsed, rx, sacks, losses>>

\* The lifetime of a message, or the wait after a FORWARD-TSN, is over.
Lapse(m) ==
  /\ Messages[m].lifetime /\ m <= q.accepted /\ m \notin lapsed
  /\ lapsed' = lapsed \cup {m}
  /\ UNCHANGED <<Messages, q, net, rx, sacks, losses>>

ForwardTsnAgain ==
  /\ q.limit_forward_tsn
  /\ q' = [q EXCEPT !.limit_forward_tsn = FALSE]
  /\ UNCHANGED <<Messages, lapsed, net, rx, sacks, losses>>

\* The receiver's cumulative TSN.
Received(r) == r.data \cup 1..r.skipped
Cumulative(r) == CHOOSE t \in 0..Len(q.assigned) :
                   /\ 1..t \subseteq Received(r) /\ t + 1 \notin Received(r)

\* A packet arrives: its FORWARD-TSN comes first, and what is skipped or known
\* is not taken again.
Receive(p) ==
  LET skipped == Max({rx.skipped, p.forward_tsn})
  IN  /\ net' = net \ {p}
      /\ rx' = [data |-> rx.data \cup (p.tsns \ 1..skipped), skipped |-> skipped,
                owed |-> TRUE]
      /\ UNCHANGED <<Messages, q, lapsed, sacks, losses>>

SendSack(a_rwnd) ==
  /\ rx.owed /\ Cardinality(sacks) < MaxSacks
  /\ sacks' = sacks \cup {[cumulative_tsn_ack |-> Cumulative(rx),
                           gap_acked |-> {t \in rx.data : t > Cumulative(rx)},
                           a_rwnd |-> a_rwnd]}
  /\ rx' = [rx EXCEPT !.owed = FALSE]
  /\ UNCHANGED <<Messages, q, lapsed, net, losses>>

Lose ==
  /\ losses < MaxLoss
  /\ losses' = losses + 1
  /\ \/ \E p \in net : net' = net \ {p} /\ UNCHANGED sacks
     \/ \E s \in sacks : sacks' = sacks \ {s} /\ UNCHANGED net
  /\ UNCHANGED <<Messages, q, lapsed, rx>>

Next ==
  \/ Send
  \/ \E sack \in sacks : ReceiveSack(sack)
  \/ OnRtxTimerExpiry
  \/ \E m \in DOMAIN Messages : Lapse(m)
  \/ ForwardTsnAgain
  \/ \E p \in net : Receive(p)
  \/ \E a_rwnd \in ARwnds(Messages) : SendSack(a_rwnd)
  \/ Lose

Spec == Init /\ [][Next]_vars

------------------------------------------------------------------------------
(* What the queue promises.                                                *)

\* OutstandingData::IsConsistent() between handlers: bytes and chunks in flight
\* are counted right, the set of chunks to be retransmitted is the set of those
\* marked so, and no fast retransmission is left over from a SACK.
Consistent == IsConsistent(q) /\ q.to_be_fast_retransmitted = {}

\* While a chunk that was not given up waits for its acknowledgement, T3-rtx
\* runs: whatever is lost will be sent again.
Timed ==
  (\E t \in Tsns(q) : ~is_abandoned(q.outstanding_data[t])) /\ ~q.aborted => q.t3_rtx

\* The step of a handler that enters fast recovery may add one packet to what
\* the window allows.  One SACK may end a fast recovery and start another.
GrowsInCwnd ==
  LET enters == q'.fast_recovery_exit_tsn \notin {None, q.fast_recovery_exit_tsn}
  IN  q'.unacked_packet_bytes <=
        Max({q.unacked_packet_bytes, q'.cwnd}) + (IF enters THEN Mtu - PacketHeader ELSE 0)

\* What is in flight grows only as far as the congestion window.  The exception
\* is the packet of MaybeSendFastRetransmit(), sent on entering fast recovery
\* whatever the window is.
InCwnd == [][GrowsInCwnd]_q

------------------------------------------------------------------------------
(* Fairness: packets and SACKs that are not lost arrive, an acknowledgement   *)
(* that is owed is sent, and timers expire.  CanStep says when one of these   *)
(* can happen; sending, losing and lapsing are not in it.                     *)

CanStep ==
  \/ sacks # {} \/ net # {} \/ rx.owed \/ q.limit_forward_tsn
  \/ q.t3_rtx /\ ~q.aborted

SystemStep == q'.accepted = q.accepted /\ lapsed' = lapsed /\ losses' = losses

\* The weak fairness of the system's steps, written out.
FairSpec == Spec /\ ([]<>~CanStep \/ []<><<SystemStep>>_vars)

\* "OnLifecycleEnd will be called when a lifecycle event has reached its end
\* [...] no matter how it completed": every message the application has sent
\* ends, unless the association is aborted.
AllEnd == []<>(q.aborted \/ \A m \in 1..q.accepted : q.ended[m] # <<>>)

\* The same at rest: when no packet is under way, no acknowledgement is owed and
\* no timer runs, nothing but another call of the application could still end a
\* message, so every message has ended.
EndedAtRest ==
  CanStep \/ q.aborted \/ \A m \in 1..q.accepted : q.ended[m] # <<>>
==============================================================================
