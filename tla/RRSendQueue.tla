----------------------------- MODULE RRSendQueue -----------------------------
(***************************************************************************)
(* RRSendQueue with its StreamScheduler (net/dcsctp/tx): the messages of   *)
(* all streams that have not been handed out in full, and the choice of    *)
(* the stream that the next fragment comes from, round-robin between       *)
(* messages or, with message interleaving, weighted fair between           *)
(* fragments.  The queue is a record q, a stream a record in q.streams     *)
(* that joins OutgoingStream and StreamScheduler::Stream.  Whoever uses    *)
(* the queue, the socket, the retransmission queue and the stream reset    *)
(* handler, may call it in any order that their code allows.               *)
(*                                                                         *)
(* Virtual time is counted in whole numbers: the inverse weights are       *)
(* scaled.  MIDs and SSNs are not wrapped, a stream does not send so many  *)
(* messages here; StreamReset.tla has the wrap.                            *)
(***************************************************************************)
EXTENDS Integers, Sequences, FiniteSets, FiniteSetsExt, SequencesExt

CONSTANTS
  Scripts,           \* what may happen: [messages, max_calls], where messages is a
                     \* sequence of [stream_id, size, unordered, lifetime] and
                     \* max_calls bounds the calls other than Send() and Produce()
  StreamIds,         \* natural numbers, 0 not among them
  MaxSizes,          \* room for a fragment
  max_payload_bytes,
  Weights,           \* inverse weights of priorities
  default_inverse_weight,
  Thresholds, total_low_threshold

VARIABLES
  script,   \* what happens
  q,        \* the queue
  lapsed,   \* messages whose lifetime is over
  calls     \* number of calls so far that max_calls bounds

vars == <<script, q, lapsed, calls>>

Messages == script.messages
Total == 0
NoChunk == [size |-> 0, is_end |-> FALSE]
NoNumber == -1

ASSUME SendQueueAssumption ==
  /\ Total \notin StreamIds
  /\ \A s \in Scripts : \A m \in DOMAIN s.messages : s.messages[m].size > 0
  /\ 0 \notin MaxSizes /\ max_payload_bytes > 0 /\ 0 \notin Weights

Items(s, id) == s.streams[id].items

\* RRSendQueue::OutgoingStream::bytes_to_send_in_next_message().
bytes_to_send_in_next_message(s, id) ==
  IF s.streams[id].pause_state \in {"Paused", "Resetting"} \/ Items(s, id) = <<>> THEN 0
  ELSE Head(Items(s, id)).remaining_size

------------------------------------------------------------------------------
(* Buffered amounts, of a stream and in total.                             *)

Increase(s, id, bytes) ==
  [s EXCEPT !.streams[id].buffered_amount = @ + bytes, !.total_buffered_amount = @ + bytes]

\* Mutant: reaching the threshold is not enough.
Reaches_Below(old_value, value, threshold) == old_value >= threshold /\ value < threshold
Reaches(old_value, value, threshold) == old_value > threshold /\ value <= threshold

\* The callbacks OnBufferedAmountLow, OnTotalBufferedAmountLow are put into .low.
Decrease(s, id, bytes) ==
  LET stream == s.streams[id]
  IN  [s EXCEPT
         !.streams[id].buffered_amount = @ - bytes,
         !.total_buffered_amount = @ - bytes,
         !.low = @ \cup
           (IF Reaches(stream.buffered_amount, stream.buffered_amount - bytes,
                       stream.low_threshold) THEN {id} ELSE {}) \cup
           (IF Reaches(s.total_buffered_amount, s.total_buffered_amount - bytes,
                       total_low_threshold) THEN {Total} ELSE {})]

\* HandleMessageExpired() for messages of a stream.
HandleMessagesExpired(s, id, items) ==
  [Decrease(s, id, FoldLeft(LAMBDA sum, i : sum + i.remaining_size, 0, items)) EXCEPT
     !.ended = [m \in DOMAIN @ |-> IF \E i \in DOMAIN items : items[i].message_id = m
                                   THEN Append(@[m], "Expired") ELSE @[m]]]

------------------------------------------------------------------------------
(* The scheduler.                                                          *)

CalculateFinishTime(s, id, bytes_to_send_next) ==
  s.streams[id].current_virtual_time
    + (IF s.enable_message_interleaving THEN bytes_to_send_next * s.streams[id].inverse_weight
       ELSE 1)

Activate(s, id) ==
  [s EXCEPT !.streams[id].next_finish_time =
               CalculateFinishTime(s, id, Min({bytes_to_send_in_next_message(s, id),
                                               max_payload_bytes})),
            !.active_streams = @ \cup {id}]

MakeActive(s, id) == Activate([s EXCEPT !.streams[id].current_virtual_time = s.virtual_time], id)

MaybeMakeActive(s, id) ==
  IF bytes_to_send_in_next_message(s, id) = 0 THEN s ELSE MakeActive(s, id)

MakeInactive(s, id) ==
  [s EXCEPT !.streams[id].next_finish_time = 0, !.active_streams = @ \ {id}]

\* Mutant: the scheduler goes on with the stream.
ForceReschedule_Not(s) == s
ForceReschedule(s) == [s EXCEPT !.currently_sending_a_message = FALSE]

\* The first by virtual finish time, then by stream id.
FirstActive(s) ==
  CHOOSE id \in s.active_streams : \A other \in s.active_streams :
    \/ s.streams[id].next_finish_time < s.streams[other].next_finish_time
    \/ /\ s.streams[id].next_finish_time = s.streams[other].next_finish_time
       /\ id <= other

------------------------------------------------------------------------------
(* OutgoingStream::Produce().                                              *)

\* Messages at the head that expired before they got a number.
Expired(s, id) ==
  SelectInSeq(Items(s, id), LAMBDA i : i.mid # NoNumber \/ i.message_id \notin lapsed)

DropFirst(s, id, n) ==
  HandleMessagesExpired([s EXCEPT !.streams[id].items = SubSeq(@, n + 1, Len(@))], id,
                        SubSeq(Items(s, id), 1, n))

DropExpired(s, id) ==
  DropFirst(s, id, IF Expired(s, id) = 0 THEN Len(Items(s, id)) ELSE Expired(s, id) - 1)

\* MID and SSN are assigned with the first fragment.
AssignNumbers(s, id, unordered) ==
  IF Head(Items(s, id)).mid # NoNumber THEN s
  ELSE [s EXCEPT !.streams[id] = [@ EXCEPT
          !.items[1].mid = IF unordered THEN s.streams[id].next_unordered_mid
                           ELSE s.streams[id].next_ordered_mid,
          !.items[1].ssn = IF unordered THEN NoNumber ELSE s.streams[id].next_ssn,
          !.next_unordered_mid = IF unordered THEN @ + 1 ELSE @,
          !.next_ordered_mid = IF unordered THEN @ ELSE @ + 1,
          !.next_ssn = IF unordered THEN @ ELSE @ + 1]]

\* Mutant: a stream that waits to be reset is not paused with its last fragment.
AfterFragment_StillPending(stream, item, size) ==
  IF size = item.remaining_size THEN [stream EXCEPT !.items = Tail(@)]
  ELSE [stream EXCEPT !.items[1] = [item EXCEPT !.remaining_size = @ - size,
                                                !.current_fsn = @ + 1]]

AfterFragment(stream, item, size) ==
  IF size = item.remaining_size
  THEN [stream EXCEPT !.items = Tail(@),
                      !.pause_state = IF @ = "Pending" THEN "Paused" ELSE @]
  ELSE [stream EXCEPT !.items[1] = [item EXCEPT !.remaining_size = @ - size,
                                                !.current_fsn = @ + 1]]

GrabFragment(s, id, item, size) ==
  [q |-> [Decrease([s EXCEPT !.streams[id] = AfterFragment(@, item, size)], id, size) EXCEPT
            !.ended[item.message_id] = IF size = item.remaining_size THEN Append(@, "Sent")
                                       ELSE @],
   chunk |-> [size |-> size, is_end |-> size = item.remaining_size]]

GrabNumbered(s, id, max_size) ==
  GrabFragment(s, id, Head(Items(s, id)), Min({max_size, Head(Items(s, id)).remaining_size}))

GrabFirst(s, id, max_size) ==
  IF Items(s, id) = <<>> THEN [q |-> s, chunk |-> NoChunk]
  ELSE GrabNumbered(AssignNumbers(s, id, Messages[Head(Items(s, id)).message_id].unordered),
                    id, max_size)

\* StreamScheduler::Stream::Produce() advances the stream's time.
AdvanceTime(p, id) ==
  IF p.chunk = NoChunk THEN p
  ELSE [p EXCEPT !.q.streams[id].current_virtual_time =
                    CalculateFinishTime(p.q, id, p.chunk.size)]

ProduceFrom(s, id, max_size) == AdvanceTime(GrabFirst(DropExpired(s, id), id, max_size), id)

------------------------------------------------------------------------------
(* StreamScheduler::Produce().                                             *)

rescheduling(s) == s.enable_message_interleaving \/ ~s.currently_sending_a_message

\* The stream that is chosen leaves the active ones.
TryFirst(s, max_size, id) ==
  ProduceFrom([MakeInactive(s, id) EXCEPT !.current_stream = id], id, max_size)

TryNext(p, max_size) ==
  IF p.chunk # NoChunk \/ p.q.active_streams = {} THEN p
  ELSE TryFirst(p.q, max_size, FirstActive(p.q))

ProduceRescheduling(s, max_size) ==
  FoldLeft(LAMBDA p, i : TryNext(p, max_size), [q |-> s, chunk |-> NoChunk],
           [i \in 1..Cardinality(StreamIds) |-> i])

\* It returns if there is still something to send.
Requeue(s, was_rescheduling) ==
  LET id == s.current_stream
  IN  CASE was_rescheduling /\ bytes_to_send_in_next_message(s, id) > 0 -> MakeActive(s, id)
        [] ~was_rescheduling /\ bytes_to_send_in_next_message(s, id) = 0 -> MakeInactive(s, id)
        [] OTHER -> s

\* Mutant: virtual time stands still.
Finish_SameTime(p, was_rescheduling) ==
  IF p.chunk = NoChunk THEN p
  ELSE [p EXCEPT !.q = Requeue([p.q EXCEPT !.currently_sending_a_message = ~p.chunk.is_end],
                               was_rescheduling)]

Finish(p, was_rescheduling) ==
  IF p.chunk = NoChunk THEN p
  ELSE [p EXCEPT !.q = Requeue(
          [p.q EXCEPT !.currently_sending_a_message = ~p.chunk.is_end,
                      !.virtual_time = p.q.streams[p.q.current_stream].current_virtual_time],
          was_rescheduling)]

ProduceChunk(s, max_size) ==
  Finish(IF rescheduling(s) THEN ProduceRescheduling(s, max_size)
         ELSE ProduceFrom(s, s.current_stream, max_size),
         rescheduling(s))

------------------------------------------------------------------------------
(* The other methods of the queue.                                         *)

NewItem(m) ==
  [message_id |-> m, remaining_size |-> Messages[m].size, mid |-> NoNumber, ssn |-> NoNumber,
   current_fsn |-> 0]

AddTo(s, id, m) ==
  LET added == [Increase(s, id, Messages[m].size) EXCEPT
                  !.streams[id].items = Append(@, NewItem(m)), !.accepted = m]
  IN  IF bytes_to_send_in_next_message(s, id) > 0 THEN added ELSE MaybeMakeActive(added, id)

Begun(item) == item.remaining_size < Messages[item.message_id].size

\* Mutant: the stream stays with the scheduler.
AfterDiscard_Active(s, id) ==
  [s EXCEPT !.streams[id].pause_state = IF @ = "Pending" THEN "Paused" ELSE @]

AfterDiscard(s, id) ==
  CASE s.streams[id].pause_state = "Pending" ->
         MakeInactive([s EXCEPT !.streams[id].pause_state = "Paused"], id)
    [] s.streams[id].pause_state # "Pending" /\ bytes_to_send_in_next_message(s, id) = 0 ->
         MakeInactive(s, id)
    [] OTHER -> s

DiscardFirst(s, id) == AfterDiscard(ForceReschedule(DropFirst(s, id, 1)), id)

AfterPause(s, id, had_pending_items) ==
  LET state == IF Items(s, id) = <<>> THEN "Paused" ELSE "Pending"
      paused == [s EXCEPT !.streams[id].pause_state = state]
  IN  IF had_pending_items /\ state = "Paused" THEN MakeInactive(paused, id) ELSE paused

\* Messages that have not begun are thrown away.
Pause(s, id) ==
  IF s.streams[id].pause_state # "NotPaused" THEN s
  ELSE AfterPause(
         HandleMessagesExpired([s EXCEPT !.streams[id].items = SelectSeq(@, Begun)], id,
                               SelectSeq(Items(s, id), LAMBDA i : ~Begun(i))),
         id, Items(s, id) # <<>>)

\* A message that has begun is sent again from its first byte.
PutBack(s, id, item) ==
  [Increase(s, id, Messages[item.message_id].size - item.remaining_size) EXCEPT
     !.streams[id].items[1] = NewItem(item.message_id)]

ResetStream(s, id) ==
  LET was_paused == s.streams[id].pause_state \in {"Paused", "Resetting"}
      reset == [s EXCEPT !.streams[id] = [@ EXCEPT
                  !.pause_state = "NotPaused", !.next_ordered_mid = 0,
                  !.next_unordered_mid = 0, !.next_ssn = 0]]
  IN  IF Items(s, id) = <<>> THEN reset
      ELSE IF was_paused THEN MaybeMakeActive(PutBack(reset, id, Head(Items(s, id))), id)
      ELSE PutBack(reset, id, Head(Items(s, id)))

Resume(s, id) == MaybeMakeActive([s EXCEPT !.streams[id].pause_state = "NotPaused"], id)

StreamsIn(s, state) == {id \in StreamIds : s.streams[id].pause_state = state}

------------------------------------------------------------------------------
(* The calls.                                                              *)

Init ==
  /\ script \in Scripts
  /\ \E interleaving \in BOOLEAN :
       q = [streams |-> [id \in StreamIds |->
              [pause_state |-> "NotPaused", items |-> <<>>,
               next_unordered_mid |-> 0, next_ordered_mid |-> 0, next_ssn |-> 0,
               buffered_amount |-> 0, low_threshold |-> 0,
               inverse_weight |-> default_inverse_weight,
               current_virtual_time |-> 0, next_finish_time |-> 0]],
            total_buffered_amount |-> 0, virtual_time |-> 0, current_stream |-> 0,
            currently_sending_a_message |-> FALSE, active_streams |-> {},
            enable_message_interleaving |-> interleaving,
            low |-> {}, waited |-> [id \in StreamIds |-> 0],
            ended |-> [m \in DOMAIN Messages |-> <<>>], accepted |-> 0]
  /\ lapsed = {} /\ calls = 0

\* The callbacks of a call are those it makes itself.
Start == [q EXCEPT !.low = {}]
Call == calls < script.max_calls /\ calls' = calls + 1 /\ UNCHANGED script

Add ==
  /\ q.accepted < Len(Messages)
  /\ q' = AddTo(Start, Messages[q.accepted + 1].stream_id, q.accepted + 1)
  /\ UNCHANGED <<script, lapsed, calls>>

\* History: for how many fragments of others each stream has waited.
Waits(p) ==
  [p.q EXCEPT !.waited = [id \in StreamIds |->
     IF p.chunk # NoChunk /\ id # p.q.current_stream /\ id \in q.active_streams
     THEN @[id] + 1 ELSE 0]]

Produce(max_size) ==
  /\ q.active_streams # {}
  /\ q' = Waits(ProduceChunk(Start, max_size))
  /\ UNCHANGED <<script, lapsed, calls>>

Lapse(m) ==
  /\ m <= q.accepted /\ Messages[m].lifetime /\ m \notin lapsed
  /\ lapsed' = lapsed \cup {m}
  /\ q' = Start
  /\ UNCHANGED <<script, calls>>

\* The retransmission queue has given up a message that is partially sent.
Discard(id) ==
  /\ Items(q, id) # <<>> /\ Begun(Head(Items(q, id)))
  /\ Call
  /\ q' = DiscardFirst(Start, id)
  /\ UNCHANGED lapsed

PrepareResetStream(id) ==
  /\ Call
  /\ q' = Pause(Start, id)
  /\ UNCHANGED lapsed

\* The request of the stream reset handler, one at a time, and how it ends.
GetStreamsReadyToBeReset ==
  /\ StreamsIn(q, "Resetting") = {} /\ StreamsIn(q, "Paused") # {}
  /\ q' = [Start EXCEPT !.streams = [id \in StreamIds |->
             IF @[id].pause_state = "Paused" THEN [@[id] EXCEPT !.pause_state = "Resetting"]
             ELSE @[id]]]
  /\ UNCHANGED <<script, lapsed, calls>>

CommitResetStreams ==
  /\ StreamsIn(q, "Resetting") # {}
  /\ q' = FoldLeft(ResetStream, Start, SetToSeq(StreamsIn(q, "Resetting")))
  /\ UNCHANGED <<script, lapsed, calls>>

RollbackResetStreams ==
  /\ StreamsIn(q, "Resetting") # {}
  /\ Call
  /\ q' = FoldLeft(Resume, Start, SetToSeq(StreamsIn(q, "Resetting")))
  /\ UNCHANGED lapsed

\* The peer has restarted: Reset(), then the transmission control block of the
\* new association says whether messages are interleaved.
Reset(interleaving) ==
  /\ Call
  /\ q' = [ForceReschedule(FoldLeft(ResetStream, Start, SetToSeq(StreamIds))) EXCEPT
             !.enable_message_interleaving = interleaving]
  /\ UNCHANGED lapsed

SetLowThreshold(s, id, bytes) ==
  [s EXCEPT !.low = IF /\ s.streams[id].low_threshold < s.streams[id].buffered_amount
                       /\ bytes >= s.streams[id].buffered_amount
                    THEN @ \cup {id} ELSE @,
            !.streams[id].low_threshold = bytes]

SetBufferedAmountLowThreshold(id, bytes) ==
  /\ Call
  /\ q' = SetLowThreshold(Start, id, bytes)
  /\ UNCHANGED lapsed

SetStreamPriority(id, inverse_weight) ==
  /\ Call
  /\ q' = [Start EXCEPT !.streams[id].inverse_weight = inverse_weight]
  /\ UNCHANGED lapsed

Next ==
  \/ Add
  \/ \E max_size \in MaxSizes : Produce(max_size)
  \/ \E m \in DOMAIN Messages : Lapse(m)
  \/ \E id \in StreamIds : Discard(id)
  \/ \E id \in StreamIds : PrepareResetStream(id)
  \/ GetStreamsReadyToBeReset
  \/ CommitResetStreams
  \/ RollbackResetStreams
  \/ \E interleaving \in BOOLEAN : Reset(interleaving)
  \/ \E id \in StreamIds, bytes \in Thresholds : SetBufferedAmountLowThreshold(id, bytes)
  \/ \E id \in StreamIds, w \in Weights : SetStreamPriority(id, w)

Spec == Init /\ [][Next]_vars

------------------------------------------------------------------------------
(* Properties.                                                             *)

SumOfItems(items) == FoldLeft(LAMBDA sum, i : sum + i.remaining_size, 0, items)

\* The three IsConsistent() functions after every call, Reset() included, which
\* does not check: amounts are what the queues hold, a stream is with the
\* scheduler exactly when it has something to send, and has a finish time
\* exactly then (MaybeMakeActive() and MakeActive() rely on it).
IsConsistent ==
  /\ \A id \in StreamIds : q.streams[id].buffered_amount = SumOfItems(Items(q, id))
  /\ q.total_buffered_amount =
       MapThenSumSet(LAMBDA id : q.streams[id].buffered_amount, StreamIds)
  /\ q.active_streams = {id \in StreamIds : bytes_to_send_in_next_message(q, id) > 0}
  /\ \A id \in StreamIds : (q.streams[id].next_finish_time # 0) = (id \in q.active_streams)

\* "It will send all fragments from one message before continuing with a
\* different message": without interleaving, currently_sending_a_message_ means
\* that one stream has a message begun, that it is current_stream_, and that
\* Produce() will go on with it; no other message is ever half sent.
MessageUnderWay ==
  LET begun == {id \in StreamIds : Items(q, id) # <<>> /\ Begun(Head(Items(q, id)))}
  IN  ~q.enable_message_interleaving =>
        begun = IF q.currently_sending_a_message THEN {q.current_stream} ELSE {}

\* A message that was accepted is in the queue, or was handed out in full, or
\* was reported as expired, and only one of these.  Only the first message of a
\* stream has begun, under the last number the stream assigned, and as long as
\* it is under way the stream is not reset.
Accounted ==
  \A id \in StreamIds :
    LET stream == q.streams[id]
        NextMid(item) == IF Messages[item.message_id].unordered THEN stream.next_unordered_mid
                        ELSE stream.next_ordered_mid
    IN  /\ {stream.items[i].message_id : i \in DOMAIN stream.items}
             = {m \in 1..q.accepted : Messages[m].stream_id = id /\ q.ended[m] = <<>>}
        /\ \A m \in 1..q.accepted : Len(q.ended[m]) <= 1
        /\ \A i \in DOMAIN stream.items :
             IF Begun(stream.items[i])
             THEN /\ i = 1 /\ stream.items[i].mid + 1 = NextMid(stream.items[i])
                  /\ stream.pause_state \in {"NotPaused", "Pending"}
             ELSE stream.items[i].mid = NoNumber
        /\ stream.pause_state = "Pending" => stream.items # <<>> /\ Begun(Head(stream.items))

Above(s, k) ==
  IF k = Total THEN s.total_buffered_amount > total_low_threshold
  ELSE s.streams[k].buffered_amount > s.streams[k].low_threshold

\* An application that waits for OnBufferedAmountLow or OnTotalBufferedAmountLow
\* is told, once, whenever the amount comes down to the threshold or the
\* threshold goes up to the amount, whichever call is the cause: fragments
\* handed out, messages expired, discarded or thrown away by a reset.
LowIsTold ==
  [][\A k \in StreamIds \cup {Total} : (k \in q'.low) = (Above(q, k) /\ ~Above(q', k))]_vars

\* No stream starves: how many fragments of other streams are handed out while a
\* stream waits is bounded by the cost of a message, however many messages the
\* others have ("which results in a round-robin scheduling", and weighted fair
\* queueing with message interleaving).
MaxCost ==
  LET longest == Max({Messages[m].size : m \in DOMAIN Messages})
      heaviest == Max(Weights \cup {default_inverse_weight}) * max_payload_bytes
  IN  Max({longest, heaviest})
NoStarvation ==
  \A id \in StreamIds : q.waited[id] <= 2 * MaxCost * (Cardinality(StreamIds) - 1)
==============================================================================
