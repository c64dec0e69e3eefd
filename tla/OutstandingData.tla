--------------------------- MODULE OutstandingData ---------------------------
(***************************************************************************)
(* OutstandingData (net/dcsctp/tx/outstanding_data.cc): the chunks that    *)
(* have a TSN and are not cumulatively acknowledged.  The object is a      *)
(* record q whose fields are its members; a method is an operator from the *)
(* record to the record it leaves behind.  TSNs are unwrapped.  The deque  *)
(* is a function from TSNs to items, its last TSN is kept next to it.      *)
(*                                                                         *)
(* Where the code walks over TSNs one by one, and the order of the walk    *)
(* makes no difference to where it ends, the step is taken for the whole   *)
(* set of TSNs at once.                                                    *)
(*                                                                         *)
(* A message is a natural number, its OutgoingMessageId.  Sizes are in     *)
(* words of four bytes, so that RoundUpTo4 has nothing to do.              *)
(***************************************************************************)
EXTENDS Integers, Sequences, FiniteSets, FiniteSetsExt, Functions

CONSTANT data_chunk_header_size

ASSUME HeaderAssumption == data_chunk_header_size \in Nat

\* MaxRetransmits::NoLimit(), UINT16_MAX.
NoLimit == 65535

\* "The number of times a packet must be NACKed before it's retransmitted."
kNumberOfNacksForRetransmission == 3

NewItem(message_id, data, max_retransmissions, lifecycle_id) ==
  [message_id |-> message_id, data |-> data, lifecycle_id |-> lifecycle_id,
   max_retransmissions |-> max_retransmissions, lifecycle |-> "Active",
   ack_state |-> "Unacked", nack_count |-> 0, num_retransmissions |-> 0]

is_outstanding(item) == item.ack_state = "Unacked"
is_acked(item) == item.ack_state = "Acked"
is_nacked(item) == item.ack_state = "Nacked"
is_abandoned(item) == item.lifecycle = "Abandoned"
should_be_retransmitted(item) == item.lifecycle = "ToBeRetransmitted"

highest_outstanding_tsn(q) == q.highest_tsn
Tsns(q) == DOMAIN q.outstanding_data

GetSerializedChunkSize(item) == data_chunk_header_size + item.data.size

PayloadBytes(q, tsns) ==
  SumFunctionOnSet([t \in Tsns(q) |-> q.outstanding_data[t].data.size], tsns)

PacketBytes(q, tsns) ==
  SumFunctionOnSet([t \in Tsns(q) |-> GetSerializedChunkSize(q.outstanding_data[t])], tsns)

\* The TSNs come into flight, or, with sign -1, leave it.
CountUnacked(q, tsns, sign) ==
  [q EXCEPT !.unacked_payload_bytes = @ + sign * PayloadBytes(q, tsns),
            !.unacked_packet_bytes = @ + sign * PacketBytes(q, tsns),
            !.unacked_items = @ + sign * Cardinality(tsns)]

\* Mutant: a chunk that is not in flight leaves it once more.
NotUnacked_Twice(q, tsns) == CountUnacked(q, tsns, -1)

NotUnacked(q, tsns) ==
  CountUnacked(q, {t \in tsns : is_outstanding(q.outstanding_data[t])}, -1)

------------------------------------------------------------------------------
(* The item.                                                               *)

Ack(item) ==
  [item EXCEPT !.lifecycle = IF is_abandoned(item) THEN @ ELSE "Active",
               !.ack_state = "Acked"]

\* nack_count_ is only compared with the limit, and counted up to it here.
Nack(item, retransmit_now) ==
  LET lost == /\ ~should_be_retransmitted(item) /\ ~is_abandoned(item)
              /\ \/ retransmit_now
                 \/ item.nack_count + 1 >= kNumberOfNacksForRetransmission
      action == IF ~lost THEN "Nothing"
                ELSE IF item.num_retransmissions < item.max_retransmissions
                     THEN "Retransmit" ELSE "Abandon"
  IN  [item |-> [item EXCEPT
         !.ack_state = "Nacked",
         !.nack_count = Min({@ + 1, kNumberOfNacksForRetransmission}),
         !.lifecycle = CASE action = "Retransmit" -> "ToBeRetransmitted"
                         [] action = "Abandon" -> "Abandoned"
                         [] OTHER -> @],
       action |-> action]

MarkAsRetransmitted(item) ==
  [item EXCEPT !.lifecycle = "Active", !.ack_state = "Unacked",
               !.nack_count = 0, !.num_retransmissions = @ + 1]

------------------------------------------------------------------------------
(* Abandoning messages.                                                    *)

\* The send queue is a function from the messages that have fragments left to
\* send to what is known of them; ids are given out in the order of the queue.
\* Discard() removes a message and says whether it was there.
Unsent(q, message_id) == message_id \in DOMAIN q.send_queue

\* Mutant: the application is not told.
Discard_Silent(q, messages) ==
  [q EXCEPT !.send_queue = Restrict(@, DOMAIN @ \ messages)]

\* HandleMessageExpired() tells the application that the message is gone.
Discard(q, messages) ==
  [q EXCEPT !.send_queue = Restrict(@, DOMAIN @ \ messages),
            !.ended = [m \in DOMAIN @ |-> IF m \in messages /\ Unsent(q, m)
                                          THEN Append(@[m], "Expired") ELSE @[m]]]

\* "a new fragment, representing the end, that the received will never see as
\* it is abandoned immediately".
MessageEnd(item) ==
  Ack(NewItem(item.message_id,
              [item.data EXCEPT !.size = 0, !.is_beginning = FALSE, !.is_end = TRUE],
              0, FALSE))

\* One placeholder for each message with unsent fragments, in the order of the
\* TSNs that had the messages abandoned.
AddMessageEnds(q, tsns) ==
  LET unsent == {t \in tsns : /\ Unsent(q, q.outstanding_data[t].message_id)
                              /\ \A u \in tsns : u < t =>
                                   q.outstanding_data[u].message_id
                                     # q.outstanding_data[t].message_id}
      last == q.highest_tsn + Cardinality(unsent)
      Cause(t) == CHOOSE u \in unsent :
                    Cardinality({v \in unsent : v <= u}) = t - q.highest_tsn
  IN  [q EXCEPT
         !.highest_tsn = last,
         !.outstanding_data =
           [t \in (q.last_cumulative_tsn_ack + 1)..last |->
              IF t <= q.highest_tsn THEN @[t] ELSE MessageEnd(@[Cause(t)])]]

\* Mutant: chunks of the message that wait to be retransmitted stay in the set.
AbandonAllFor_KeepsRtx(q, tsns) ==
  LET messages == {q.outstanding_data[t].message_id : t \in tsns}
  IN  [Discard(AddMessageEnds(q, tsns), messages) EXCEPT
         !.outstanding_data =
           [t \in DOMAIN @ |-> IF @[t].message_id \in messages
                               THEN [@[t] EXCEPT !.lifecycle = "Abandoned"] ELSE @[t]]]

\* Mutant: only the chunk itself is given up.
AbandonAllFor_OneChunk(q, tsns) ==
  [q EXCEPT !.to_be_fast_retransmitted = @ \ tsns,
            !.to_be_retransmitted = @ \ tsns,
            !.outstanding_data =
              [t \in DOMAIN @ |-> IF t \in tsns
                                  THEN [@[t] EXCEPT !.lifecycle = "Abandoned"] ELSE @[t]]]

\* The messages of the chunks are abandoned: what is left of them in the send
\* queue, and all their chunks that have a TSN.
AbandonAllFor(q, tsns) ==
  LET messages == {q.outstanding_data[t].message_id : t \in tsns}
      chunks == {t \in Tsns(q) : q.outstanding_data[t].message_id \in messages}
  IN  [Discard(AddMessageEnds(q, tsns), messages) EXCEPT
         !.to_be_fast_retransmitted = @ \ chunks,
         !.to_be_retransmitted = @ \ chunks,
         !.outstanding_data =
           [t \in DOMAIN @ |-> IF @[t].message_id \in messages
                               THEN [@[t] EXCEPT !.lifecycle = "Abandoned"] ELSE @[t]]]

------------------------------------------------------------------------------
(* SACKs.                                                                  *)

\* What a SACK acknowledges that was not acknowledged before.
NewlyAcked(q, cumulative_tsn_ack, gap_acked) ==
  {t \in Tsns(q) : /\ t <= cumulative_tsn_ack \/ t \in gap_acked
                   /\ ~is_acked(q.outstanding_data[t])}

AckChunks(q, tsns) ==
  [NotUnacked(q, tsns) EXCEPT
     !.to_be_retransmitted =
        @ \ {t \in tsns : should_be_retransmitted(q.outstanding_data[t])},
     !.outstanding_data =
        [t \in DOMAIN @ |-> IF t \in tsns THEN Ack(@[t]) ELSE @[t]]]

\* A message ends when its last chunk is removed.
RemoveAcked(q, cumulative_tsn_ack) ==
  LET removed == {t \in Tsns(q) : t <= cumulative_tsn_ack}
      outcome(t) == IF is_abandoned(q.outstanding_data[t]) THEN "Expired" ELSE "Delivered"
      EndOf(m) == {t \in removed : /\ q.outstanding_data[t].lifecycle_id
                                   /\ q.outstanding_data[t].message_id = m}
      last == Max({q.last_cumulative_tsn_ack} \cup removed)
  IN  [q EXCEPT
         !.last_cumulative_tsn_ack = last,
         !.outstanding_data = [t \in (last + 1)..q.highest_tsn |-> @[t]],
         !.ended = [m \in DOMAIN @ |->
                      IF EndOf(m) = {} THEN @[m]
                      ELSE Append(@[m], outcome(CHOOSE t \in EndOf(m) : TRUE))],
         !.stream_reset_breakpoint_tsns = {t \in @ : t > cumulative_tsn_ack + 1}]

\* NackItem() for each of the TSNs.  A chunk that is given up takes its whole
\* message with it, whichever chunk of it comes first.
ApplyNacks(q, tsns, nack, retransmit, abandon, do_fast_retransmit) ==
  [q |-> AbandonAllFor(
           [NotUnacked(q, tsns) EXCEPT
              !.outstanding_data =
                 [t \in DOMAIN @ |-> IF t \in tsns THEN nack[t].item ELSE @[t]],
              !.to_be_fast_retransmitted =
                 IF do_fast_retransmit THEN @ \cup retransmit ELSE @,
              !.to_be_retransmitted =
                 IF do_fast_retransmit THEN @ ELSE @ \cup retransmit],
           abandon),
   has_packet_loss |-> retransmit \cup abandon # {}]

NackItems(q, tsns, retransmit_now, do_fast_retransmit) ==
  LET nack == [t \in tsns |-> Nack(q.outstanding_data[t], retransmit_now)]
      With(action) == {t \in tsns : nack[t].action = action}
  IN  ApplyNacks(q, tsns, nack, With("Retransmit"), With("Abandon"), do_fast_retransmit)

\* The TSNs between the blocks, up to the highest one that is newly
\* acknowledged.  RemoveAcked() has run: q's last_cumulative_tsn_ack is the
\* SACK's.
ToNack(q, cumulative_tsn_ack, gap_acked, highest_tsn_acked, is_in_fast_recovery) ==
  LET last_block == Max({cumulative_tsn_ack} \cup gap_acked)
      max_tsn_to_nack ==
        IF is_in_fast_recovery /\ cumulative_tsn_ack > q.last_cumulative_tsn_ack
        THEN last_block ELSE highest_tsn_acked
  IN  {t \in (cumulative_tsn_ack + 1)..last_block :
         t \notin gap_acked /\ t <= max_tsn_to_nack}

NackBetweenAckBlocks(q, cumulative_tsn_ack, gap_acked, highest_tsn_acked, in_fast_recovery) ==
  NackItems(q, ToNack(q, cumulative_tsn_ack, gap_acked, highest_tsn_acked, in_fast_recovery),
            FALSE, ~in_fast_recovery)

AckInfo(nacked, bytes_acked) ==
  [q |-> nacked.q, bytes_acked |-> bytes_acked, has_packet_loss |-> nacked.has_packet_loss]

\* The gap ack blocks, sorted and merged by ChunkValidators::Clean, are the set
\* of the TSNs in them.
HandleSackChunk(q, cumulative_tsn_ack, gap_acked, is_in_fast_recovery) ==
  LET newly == NewlyAcked(q, cumulative_tsn_ack, gap_acked)
  IN  AckInfo(NackBetweenAckBlocks(
                RemoveAcked(AckChunks(q, newly), cumulative_tsn_ack),
                cumulative_tsn_ack, gap_acked, Max({cumulative_tsn_ack} \cup newly),
                is_in_fast_recovery),
              PacketBytes(q, newly))

------------------------------------------------------------------------------
(* Retransmission, expiry, T3-rtx.                                         *)

\* The chunks are taken in the order of their TSNs, each that still fits.  That
\* the walk ends when only a header would fit leaves none out: a chunk that is
\* retransmitted carries data.
CanFit(q, chunks, max_size) ==
  LET size(t) == GetSerializedChunkSize(q.outstanding_data[t])
      left[t \in q.last_cumulative_tsn_ack..q.highest_tsn] ==
        \* what is left of max_size after t
        IF t = q.last_cumulative_tsn_ack THEN max_size
        ELSE IF t \in chunks /\ size(t) <= left[t - 1] THEN left[t - 1] - size(t)
        ELSE left[t - 1]
  IN  {t \in chunks : left[t] # left[t - 1]}

Retransmit(q, tsns) ==
  CountUnacked([q EXCEPT !.outstanding_data =
                  [t \in DOMAIN @ |-> IF t \in tsns THEN MarkAsRetransmitted(@[t])
                                      ELSE @[t]]], tsns, 1)

GetChunksToBeFastRetransmitted(q, max_size) ==
  LET sent == CanFit(q, q.to_be_fast_retransmitted, max_size)
  IN  [q |-> [Retransmit(q, sent) EXCEPT
                !.to_be_retransmitted = @ \cup (q.to_be_fast_retransmitted \ sent),
                !.to_be_fast_retransmitted = {}],
       sent |-> sent]

GetChunksToBeRetransmitted(q, max_size) ==
  LET sent == CanFit(q, q.to_be_retransmitted, max_size)
  IN  [q |-> [Retransmit(q, sent) EXCEPT !.to_be_retransmitted = @ \ sent],
       sent |-> sent]

\* The chunks at the front that are abandoned, or nacked and expired: the walk
\* stops at the first other one.  lapsed are the messages whose lifetime is over.
ExpireOutstandingChunks(q, lapsed) ==
  LET Expires(t) == /\ is_nacked(q.outstanding_data[t])
                    /\ ~is_abandoned(q.outstanding_data[t])
                    /\ q.outstanding_data[t].message_id \in lapsed
      Gone(t) == \/ is_abandoned(q.outstanding_data[t])
                 \/ \E u \in Tsns(q) : /\ u <= t /\ Expires(u)
                                       /\ q.outstanding_data[u].message_id
                                            = q.outstanding_data[t].message_id
      walked == {t \in Tsns(q) : \A u \in Tsns(q) : u < t => Gone(u)}
  IN  AbandonAllFor(q, {t \in walked : Expires(t)})

Insert(q, message_id, data, max_retransmissions, expired, lifecycle_id) ==
  LET tsn == q.highest_tsn + 1
      a == CountUnacked([q EXCEPT !.highest_tsn = tsn,
             !.outstanding_data = [t \in DOMAIN @ \cup {tsn} |->
               IF t = tsn THEN NewItem(message_id, data, max_retransmissions, lifecycle_id)
               ELSE @[t]]], {tsn}, 1)
  IN  IF expired THEN AbandonAllFor(a, {tsn}) ELSE a

NackAll(q) ==
  NackItems(q, {t \in Tsns(q) : ~is_acked(q.outstanding_data[t])}, TRUE, FALSE).q

------------------------------------------------------------------------------
(* FORWARD-TSN.                                                            *)

ShouldSendForwardTsn(q) ==
  LET front == q.last_cumulative_tsn_ack + 1
  IN  front \in Tsns(q) /\ is_abandoned(q.outstanding_data[front])

\* Mutant: a FORWARD-TSN crosses the last TSN before a stream reset.
Skipped_NoBreakpoint(q) ==
  {t \in Tsns(q) : \A u \in Tsns(q) : u <= t => is_abandoned(q.outstanding_data[u])}

\* The TSNs that a FORWARD-TSN skips.
Skipped(q) ==
  {t \in Tsns(q) : \A u \in Tsns(q) :
     u <= t => /\ is_abandoned(q.outstanding_data[u])
               /\ u \notin q.stream_reset_breakpoint_tsns}

\* The largest of the numbers the items give, 0 included: the map's operator[]
\* starts from it.
CreateForwardTsn(q) ==
  LET skipped == Skipped(q)
      ordered == {t \in skipped : ~q.outstanding_data[t].data.is_unordered}
      Data(t) == q.outstanding_data[t].data
  IN  [new_cumulative_tsn |-> Max({q.last_cumulative_tsn_ack} \cup skipped),
       skipped_streams |->
         [s \in {Data(t).stream_id : t \in ordered} |->
            Max({0} \cup {Data(t).ssn : t \in {u \in ordered : Data(u).stream_id = s}})]]

CreateIForwardTsn(q) ==
  LET skipped == Skipped(q)
      Data(t) == q.outstanding_data[t].data
      Key(t) == <<Data(t).is_unordered, Data(t).stream_id>>
  IN  [new_cumulative_tsn |-> Max({q.last_cumulative_tsn_ack} \cup skipped),
       skipped_streams |->
         [k \in {Key(t) : t \in skipped} |->
            Max({0} \cup {Data(t).mid : t \in {u \in skipped : Key(u) = k}})]]

BeginResetStreams(q) ==
  [q EXCEPT !.stream_reset_breakpoint_tsns = @ \cup {q.highest_tsn + 1}]

------------------------------------------------------------------------------
\* OutstandingData::IsConsistent(): the counts are those of the chunks in flight,
\* the sets of chunks to be retransmitted those of the chunks marked so.
IsConsistent(q) ==
  LET unacked == {t \in Tsns(q) : is_outstanding(q.outstanding_data[t])}
  IN  /\ q.unacked_payload_bytes = PayloadBytes(q, unacked)
      /\ q.unacked_packet_bytes = PacketBytes(q, unacked)
      /\ q.unacked_items = Cardinality(unacked)
      /\ q.to_be_retransmitted \cup q.to_be_fast_retransmitted
           = {t \in Tsns(q) : should_be_retransmitted(q.outstanding_data[t])}
==============================================================================
