----------------------------- MODULE StreamReset -----------------------------
(***************************************************************************)
(* Streams from one peer to the other, and their reset: the sender's       *)
(* StreamResetHandler, the pause states of its RRSendQueue and its         *)
(* OutstandingData, and the receiver's StreamResetHandler, ReassemblyQueue *)
(* and set of received TSNs.  Each peer plays both parts independently, so *)
(* one direction is modelled.  Chunks travel in packets of their own, are  *)
(* lost, duplicated and overtake each other.                               *)
(*                                                                         *)
(* Left to RetransmissionQueue.tla: the congestion window (here a number   *)
(* of chunks), the T3-rtx timer (here it runs while chunks are             *)
(* outstanding), stale SACKs (here a SACK carries what the receiver has    *)
(* when it is received).  Left to RRSendQueue.tla: the choice between      *)
(* streams (here first come, first served, or in turn with interleaving).  *)
(***************************************************************************)
EXTENDS OutstandingData, SequencesExt

CONSTANTS
  Scripts,     \* what the application may do: [message_interleaving, calls]
  StreamIds,
  SeqLimit,    \* SSNs and MIDs count modulo this
  FirstSsn,    \* where they stand when the model begins
  Window,      \* chunks in flight
  MaxFaults,   \* chunks lost or duplicated, expirations of T3-rtx before its time
  MaxRequests  \* requests sent before the receiver can perform one

VARIABLES
  script, \* what it does
  a,      \* the sender
  b,      \* the receiver
  net,    \* chunks on their way
  faults  \* what has gone wrong so far

vars == <<script, a, b, net, faults>>

Script == script.calls
message_interleaving == script.message_interleaving

RQ == INSTANCE ReassemblyQueue

Messages == {i \in DOMAIN Script : Script[i].call = "Send"}
NoRequest == [req_seq_nbr |-> 0, sender_last_assigned_tsn |-> 0, streams |-> {}]

\* What an application sees of a stream: messages and resets.
ResetMark(n) == [message_id |-> 0, resets |-> n]
MessageMark(m) == [message_id |-> m, resets |-> 0]
Resets(log) == Len(SelectSeq(log, LAMBDA e : e.message_id = 0))
WithReset(log) == Append(log, ResetMark(Resets(log) + 1))

------------------------------------------------------------------------------
(* The send queue.                                                         *)

Enqueue(s, m) ==
  [s EXCEPT !.send_queue =
     [k \in DOMAIN @ \cup {m} |-> IF k = m THEN [fsn |-> 0, ssn |-> 0, mid |-> 0] ELSE @[k]]]

StreamOf(m) == Script[m].stream_id

\* The queued messages a fragment may come from: the first one of a stream that
\* is not paused, and without interleaving no other than the one under way.
Ready(s) ==
  LET first == {m \in DOMAIN s.send_queue :
                  /\ s.streams[StreamOf(m)].pause_state \in {"NotPaused", "Pending"}
                  /\ \A k \in DOMAIN s.send_queue : k < m => StreamOf(k) # StreamOf(m)}
      begun == {m \in first : s.send_queue[m].fsn > 0}
  IN  IF ~message_interleaving /\ begun # {} THEN begun ELSE first

InTurn(s) ==
  LET others == {m \in Ready(s) : StreamOf(m) # s.last_stream}
  IN  IF message_interleaving /\ others # {} THEN Min(others) ELSE Min(Ready(s))

\* OutgoingStream::Produce() assigns the numbers with the first fragment, and
\* pauses a stream whose last message is on its way.
Numbered(e, m, out) ==
  IF e.fsn > 0 THEN e
  ELSE [e EXCEPT !.ssn = IF m.unordered THEN 0 ELSE out.next_ssn,
                 !.mid = IF m.unordered THEN out.next_unordered_mid ELSE out.next_ordered_mid]

AfterFragment(out, e, m) ==
  LET Count(counts, n) == IF counts /\ e.fsn = 0 THEN (n + 1) % SeqLimit ELSE n
  IN  [pause_state |-> IF e.fsn + 1 = m.fragments /\ out.pause_state = "Pending"
                       THEN "Paused" ELSE out.pause_state,
       next_ssn |-> Count(~m.unordered, out.next_ssn),
       next_ordered_mid |-> Count(~m.unordered, out.next_ordered_mid),
       next_unordered_mid |-> Count(m.unordered, out.next_unordered_mid)]

TakeFragment(s, i, e, m) ==
  [q |-> [s EXCEPT
     !.last_stream = m.stream_id,
     !.send_queue = IF e.fsn + 1 = m.fragments THEN Restrict(@, DOMAIN @ \ {i})
                    ELSE [@ EXCEPT ![i] = [e EXCEPT !.fsn = @ + 1]],
     !.streams[m.stream_id] = AfterFragment(@, e, m),
     !.log[m.stream_id] = IF e.fsn = 0 THEN Append(@, MessageMark(i)) ELSE @],
   message_id |-> i,
   data |-> [stream_id |-> m.stream_id, ssn |-> e.ssn, mid |-> e.mid, fsn |-> e.fsn,
             size |-> 1, is_beginning |-> e.fsn = 0, is_end |-> e.fsn + 1 = m.fragments,
             is_unordered |-> m.unordered, payload |-> <<i, e.fsn>>]]

ProduceFrom(s, i, e, m) == TakeFragment(s, i, Numbered(e, m, s.streams[m.stream_id]), m)
ProduceAt(s, i) == ProduceFrom(s, i, s.send_queue[i], Script[i])
Produce(s) == ProduceAt(s, InTurn(s))

\* Messages that have not begun are thrown away, one that has goes on.
Pause(s, id) ==
  LET queued == {m \in DOMAIN s.send_queue : StreamOf(m) = id}
      dropped == {m \in queued : s.send_queue[m].fsn = 0}
  IN  IF s.streams[id].pause_state # "NotPaused" THEN s
      ELSE [s EXCEPT !.send_queue = Restrict(@, DOMAIN @ \ dropped),
                     !.streams[id].pause_state = IF dropped # queued THEN "Pending"
                                                 ELSE "Paused"]

\* Discard() of a message that was under way pauses a stream that waited for it.
PauseDiscarded(s, before) ==
  LET discarded == {StreamOf(m) : m \in {k \in DOMAIN before.send_queue : ~Unsent(s, k)}}
  IN  [s EXCEPT !.streams = [id \in DOMAIN @ |->
         IF id \in discarded /\ @[id].pause_state = "Pending"
         THEN [@[id] EXCEPT !.pause_state = "Paused"] ELSE @[id]]]

StreamsIn(s, state) == {id \in StreamIds : s.streams[id].pause_state = state}

CommitResetStreams(s) ==
  [s EXCEPT !.streams = [id \in DOMAIN @ |->
     IF @[id].pause_state = "Resetting"
     THEN [pause_state |-> "NotPaused", next_ssn |-> 0, next_ordered_mid |-> 0,
           next_unordered_mid |-> 0]
     ELSE @[id]]]

RollbackResetStreams(s) ==
  [s EXCEPT !.streams = [id \in DOMAIN @ |->
     IF @[id].pause_state = "Resetting"
     THEN [@[id] EXCEPT !.pause_state = "NotPaused"] ELSE @[id]]]

------------------------------------------------------------------------------
(* The sender's StreamResetHandler.                                        *)

has_been_sent(s) == s.current_request.req_seq_nbr # 0

\* Mutant: each time it is sent the request gets a new number.
MakeReconfigChunk_NewNumber(s) ==
  LET request == [s.current_request EXCEPT !.req_seq_nbr = s.next_outgoing_req_seq_nbr]
  IN  [s EXCEPT !.current_request = request, !.next_outgoing_req_seq_nbr = @ + 1,
                !.out = @ \cup {[type |-> "RequestReset", request |-> request]}]

MakeReconfigChunk(s) ==
  LET nbr == IF has_been_sent(s) THEN s.current_request.req_seq_nbr
             ELSE s.next_outgoing_req_seq_nbr
      request == [s.current_request EXCEPT !.req_seq_nbr = nbr]
  IN  [s EXCEPT !.current_request = request,
                !.next_outgoing_req_seq_nbr = IF has_been_sent(s) THEN @ ELSE @ + 1,
                !.out = @ \cup {[type |-> "RequestReset", request |-> request]}]

\* Mutant: several requests at a time.
MakeStreamResetRequest_Several(s) ==
  LET ready == StreamsIn(s, "Paused")
  IN  IF ready = {} THEN s
      ELSE MakeReconfigChunk(
        [BeginResetStreams(s) EXCEPT
           !.streams = [id \in DOMAIN @ |-> IF id \in ready
                          THEN [@[id] EXCEPT !.pause_state = "Resetting"] ELSE @[id]],
           !.log = [id \in DOMAIN @ |-> IF id \in ready THEN WithReset(@[id]) ELSE @[id]],
           !.has_request = TRUE, !.reconfig_timer = TRUE,
           !.current_request = [req_seq_nbr |-> 0, streams |-> ready,
                                sender_last_assigned_tsn |-> s.highest_tsn]])

\* One request at a time, for all streams that are ready.
MakeStreamResetRequest(s) ==
  LET ready == StreamsIn(s, "Paused")
  IN  IF s.has_request \/ ready = {} THEN s
      ELSE MakeReconfigChunk(
        [BeginResetStreams(s) EXCEPT
           !.streams = [id \in DOMAIN @ |-> IF id \in ready
                          THEN [@[id] EXCEPT !.pause_state = "Resetting"] ELSE @[id]],
           !.log = [id \in DOMAIN @ |-> IF id \in ready THEN WithReset(@[id]) ELSE @[id]],
           !.has_request = TRUE, !.reconfig_timer = TRUE,
           !.current_request = [req_seq_nbr |-> 0, streams |-> ready,
                                sender_last_assigned_tsn |-> s.highest_tsn]])

\* Mutant: after "in progress" the request is repeated under its old number.
HandleResponse_SameNumber(s, response) ==
  LET done == [s EXCEPT !.has_request = FALSE, !.current_request = NoRequest,
                        !.reconfig_timer = FALSE]
      is_answer == /\ s.has_request /\ has_been_sent(s)
                   /\ response.req_seq_nbr = s.current_request.req_seq_nbr
  IN  IF is_answer /\ response.result = "SuccessPerformed"
      THEN [CommitResetStreams(done) EXCEPT !.performed = @ + 1] ELSE s

\* An answer to the current request: it is over, or has to be sent again under
\* a new number when the timer expires.
HandleResponse(s, response) ==
  LET done == [s EXCEPT !.has_request = FALSE, !.current_request = NoRequest,
                        !.reconfig_timer = FALSE]
      is_answer == /\ s.has_request /\ has_been_sent(s)
                   /\ response.req_seq_nbr = s.current_request.req_seq_nbr
  IN  CASE ~is_answer -> s
        [] is_answer /\ response.result \in {"SuccessNothingToDo", "SuccessPerformed"} ->
             [CommitResetStreams(done) EXCEPT !.performed = @ + 1]
        [] is_answer /\ response.result = "InProgress" ->
             [s EXCEPT !.current_request.req_seq_nbr = 0]
        [] is_answer /\ response.result = "ErrorBadSequenceNumber" ->
             [RollbackResetStreams(done) EXCEPT !.failed = @ + 1]

------------------------------------------------------------------------------
(* The sender's data.                                                      *)

DataChunk(s, tsn) == [type |-> "Data", tsn |-> tsn, data |-> s.outstanding_data[tsn].data]
WithChunks(s, tsns) == [s EXCEPT !.out = @ \cup {DataChunk(s, t) : t \in tsns}]

MaybeSendForwardTsn(s) ==
  IF ~ShouldSendForwardTsn(s) THEN s
  ELSE [s EXCEPT !.out = @ \cup
         {[type |-> "ForwardTsn",
           chunk |-> IF message_interleaving THEN CreateIForwardTsn(s) ELSE CreateForwardTsn(s)]}]

InsertNew(p) ==
  Insert(p.q, p.message_id, p.data, Script[p.message_id].max_retransmissions, FALSE,
         p.data.is_end)
WithLast(s) == WithChunks(s, {s.highest_tsn})

SendNew(s, i) ==
  IF s.unacked_items >= Window \/ Ready(s) = {} THEN s ELSE WithLast(InsertNew(Produce(s)))

Retransmitted(rtx) == WithChunks(rtx.q, rtx.sent)

GetChunksToSend(s) ==
  FoldLeft(SendNew, Retransmitted(GetChunksToBeRetransmitted(s, Window - s.unacked_items)),
           [i \in 1..Window |-> i])

\* SendBufferedPackets(): FORWARD-TSN, then RE-CONFIG, then data.
SendBufferedPackets(s) ==
  GetChunksToSend(MakeStreamResetRequest(MaybeSendForwardTsn(s)))

MaybeSendFastRetransmit(s) ==
  Retransmitted(GetChunksToBeFastRetransmitted(s, Window))

------------------------------------------------------------------------------
(* The receiver.                                                           *)

Received(r) == r.data \cup 1..r.skipped
Cumulative(r) == CHOOSE t \in 0..a.highest_tsn :
                   /\ 1..t \subseteq Received(r) /\ t + 1 \notin Received(r)

\* MaybeDeliverMessages().
Deliver(r) ==
  LET messages == r.reassembly_queue.reassembled_messages
      Of(id) == SelectSeq(messages, LAMBDA m : m.stream_id = id)
      Mark(m) == IF m.payload = [i \in 1..Script[m.payload[1][1]].fragments
                                   |-> <<m.payload[1][1], i - 1>>]
                 THEN MessageMark(m.payload[1][1])
                 ELSE MessageMark(-1) \* not what was sent
      Marks(ms) == [i \in DOMAIN ms |-> Mark(ms[i])]
  IN  [r EXCEPT !.reassembly_queue = RQ!MessagesTaken(@),
                !.log = [id \in DOMAIN @ |-> @[id] \o Marks(Of(id))]]

HandleDataCommon(r, c) ==
  IF c.tsn \in Received(r) THEN r
  ELSE Deliver([r EXCEPT !.data = @ \cup {c.tsn},
                         !.reassembly_queue = RQ!Add(@, c.tsn, c.data)])

\* A FORWARD-TSN at or behind the cumulative TSN is out of date.
HandleForwardTsnCommon(r, c) ==
  IF c.new_cumulative_tsn <= Cumulative(r) THEN r
  ELSE Deliver([r EXCEPT !.skipped = c.new_cumulative_tsn,
                         !.reassembly_queue = RQ!HandleForwardTsn(@, c.new_cumulative_tsn,
                                                                  c.skipped_streams)])

Respond(r, nbr, result) ==
  [r |-> r, response |-> [type |-> "Response", req_seq_nbr |-> nbr, result |-> result]]

\* Mutant: a repeated request is performed again.
HandleResetOutgoing_Twice(r, req) ==
  LET nbr == req.req_seq_nbr
      performed == [r EXCEPT
        !.last_processed_req_seq_nbr = nbr,
        !.last_processed_req_result = "SuccessPerformed",
        !.reassembly_queue = RQ!ResetStreamsAndLeaveDeferredReset(@, req.streams),
        !.log = [id \in DOMAIN @ |-> IF id \in req.streams THEN WithReset(@[id]) ELSE @[id]]]
  IN  IF req.sender_last_assigned_tsn > Cumulative(r) THEN Respond(r, nbr, "InProgress")
      ELSE Respond(Deliver(performed), nbr, "SuccessPerformed")

\* A repeated request gets the answer it got.  The next one is performed if
\* everything sent before it has been received, else all that follows is
\* deferred.
HandleResetOutgoing(r, req) ==
  LET nbr == req.req_seq_nbr
      seen == [r EXCEPT !.last_processed_req_seq_nbr = nbr]
      deferred == [seen EXCEPT
        !.last_processed_req_result = "InProgress",
        !.reassembly_queue = RQ!EnterDeferredReset(@, req.sender_last_assigned_tsn, req.streams)]
      performed == [seen EXCEPT
        !.last_processed_req_result = "SuccessPerformed",
        !.reassembly_queue = RQ!ResetStreamsAndLeaveDeferredReset(@, req.streams),
        !.log = [id \in DOMAIN @ |-> IF id \in req.streams THEN WithReset(@[id]) ELSE @[id]]]
  IN  CASE nbr = r.last_processed_req_seq_nbr ->
             Respond(r, nbr, r.last_processed_req_result)
        [] nbr \notin {r.last_processed_req_seq_nbr, r.last_processed_req_seq_nbr + 1} ->
             Respond(r, nbr, "ErrorBadSequenceNumber")
        [] nbr = r.last_processed_req_seq_nbr + 1 ->
             IF req.sender_last_assigned_tsn > Cumulative(r)
             THEN Respond(deferred, nbr, "InProgress")
             ELSE Respond(Deliver(performed), nbr, "SuccessPerformed")

------------------------------------------------------------------------------
(* The system.                                                             *)

Init ==
  /\ script \in Scripts
  /\ a = [last_cumulative_tsn_ack |-> 0, highest_tsn |-> 0, outstanding_data |-> <<>>,
          unacked_payload_bytes |-> 0, unacked_packet_bytes |-> 0, unacked_items |-> 0,
          to_be_fast_retransmitted |-> {}, to_be_retransmitted |-> {},
          stream_reset_breakpoint_tsns |-> {},
          send_queue |-> <<>>, ended |-> [m \in Messages |-> <<>>], last_stream |-> 0,
          streams |-> [id \in StreamIds |->
            [pause_state |-> "NotPaused", next_ssn |-> FirstSsn,
             next_ordered_mid |-> FirstSsn, next_unordered_mid |-> FirstSsn]],
          has_request |-> FALSE, current_request |-> NoRequest, reconfig_timer |-> FALSE,
          next_outgoing_req_seq_nbr |-> 1, performed |-> 0, failed |-> 0,
          calls |-> 0, out |-> {}, log |-> [id \in StreamIds |-> <<>>]]
  /\ b = [data |-> {}, skipped |-> 0, owes_sack |-> FALSE,
          reassembly_queue |-> RQ!EmptyReassemblyQueue(FirstSsn),
          last_processed_req_seq_nbr |-> 0, last_processed_req_result |-> "SuccessNothingToDo",
          log |-> [id \in StreamIds |-> <<>>]]
  /\ net = {}
  /\ faults = 0

\* What the handler has put together is sent.
Sends(s, rest) ==
  /\ a' = [s EXCEPT !.out = {}]
  /\ net' = rest \cup s.out

\* DcSctpSocket::Send().
Send ==
  LET m == a.calls + 1
  IN  /\ m \in Messages
      /\ Sends(SendBufferedPackets(Enqueue([a EXCEPT !.calls = m], m)), net)
      /\ UNCHANGED <<script, b, faults>>

\* DcSctpSocket::ResetStreams().
ResetStreams ==
  LET i == a.calls + 1
  IN  /\ i \in DOMAIN Script \ Messages
      /\ Sends(MakeStreamResetRequest(Pause([a EXCEPT !.calls = i], Script[i].stream_id)), net)
      /\ UNCHANGED <<script, b, faults>>

Fault == faults < MaxFaults /\ faults' = faults + 1

\* A chunk is received, and is on its way once more if it was duplicated.
Arrives(c, rest) ==
  \/ rest = net \ {c} /\ UNCHANGED faults
  \/ rest = net /\ Fault

ReceiveData(c, rest) ==
  /\ c.type = "Data" /\ Arrives(c, rest)
  /\ b' = [HandleDataCommon(b, c) EXCEPT !.owes_sack = TRUE]
  /\ net' = rest
  /\ UNCHANGED <<script, a>>

ReceiveForwardTsn(c, rest) ==
  /\ c.type = "ForwardTsn" /\ Arrives(c, rest)
  /\ b' = [HandleForwardTsnCommon(b, c.chunk) EXCEPT !.owes_sack = TRUE]
  /\ net' = rest
  /\ UNCHANGED <<script, a>>

\* The receiver sends nothing but its answer.
Answers(answer, rest) == b' = answer.r /\ net' = rest \cup {answer.response}

ReceiveRequest(c, rest) ==
  /\ c.type = "RequestReset" /\ Arrives(c, rest)
  /\ Answers(HandleResetOutgoing(b, c.request), rest)
  /\ UNCHANGED <<script, a>>

\* DcSctpSocket::HandleReconfig() goes on with streams that wait to be reset, and
\* with the data of those that were.
ReceiveResponse(c, rest) ==
  /\ c.type = "Response" /\ Arrives(c, rest)
  /\ Sends(SendBufferedPackets(MakeStreamResetRequest(HandleResponse(a, c))), rest)
  /\ UNCHANGED <<script, b>>

\* DcSctpSocket::HandleSack().
ReceiveSack ==
  LET cum == Cumulative(b)
      ack_info == HandleSackChunk(a, cum, {t \in b.data : t > cum}, FALSE)
  IN  /\ b.owes_sack
      /\ b' = [b EXCEPT !.owes_sack = FALSE]
      /\ Sends(SendBufferedPackets(MaybeSendFastRetransmit(PauseDiscarded(ack_info.q, a))), net)
      /\ UNCHANGED <<script, faults>>

ResetUnderWay == \E c \in net : c.type \in {"RequestReset", "Response"}
DataUnderWay == b.owes_sack \/ \E c \in net : c.type \in {"Data", "ForwardTsn"}

\* TransmissionControlBlock::OnRtxTimerExpiry().
OnRtxTimerExpiry ==
  /\ Tsns(a) # {}
  /\ \/ ~DataUnderWay /\ UNCHANGED faults
     \/ DataUnderWay /\ Fault
  /\ Sends(SendBufferedPackets(PauseDiscarded(NackAll(a), a)), net)
  /\ UNCHANGED <<script, b>>

\* StreamResetHandler::OnReconfigTimerExpiry(): the same request again, or, after
\* "in progress", a new one.
OnReconfigTimerExpiry ==
  /\ a.reconfig_timer
  /\ \/ has_been_sent(a) \/ a.next_outgoing_req_seq_nbr <= MaxRequests
     \/ a.current_request.sender_last_assigned_tsn <= Cumulative(b)
  /\ \/ ~ResetUnderWay /\ UNCHANGED faults
     \/ ResetUnderWay /\ Fault
  /\ Sends(MakeReconfigChunk(a), net)
  /\ UNCHANGED <<script, b>>

Lose ==
  /\ Fault
  /\ \E c \in net : net' = net \ {c}
  /\ UNCHANGED <<script, a, b>>

Receive ==
  \E c \in net : \E rest \in {net, net \ {c}} :
        \/ ReceiveData(c, rest)
        \/ ReceiveForwardTsn(c, rest)
        \/ ReceiveRequest(c, rest)
        \/ ReceiveResponse(c, rest)

Next ==
  \/ Send
  \/ ResetStreams
  \/ Receive
  \/ ReceiveSack
  \/ OnRtxTimerExpiry
  \/ OnReconfigTimerExpiry
  \/ Lose

Spec == Init /\ [][Next]_vars

------------------------------------------------------------------------------
(* Properties.                                                             *)

\* The sender's record is what its handlers rely on: OutstandingData is
\* consistent, the timer runs exactly when there is a request, which its
\* handler dereferences (OnReconfigTimerExpiry), and the streams being reset
\* are those of the request (GetStreamsReadyToBeReset, CommitResetStreams).
TypeOK ==
  /\ IsConsistent(a)
  /\ a.reconfig_timer = a.has_request
  /\ StreamsIn(a, "Resetting") = a.current_request.streams
  /\ \A id \in StreamIds : a.streams[id].pause_state
       \in {"NotPaused", "Pending", "Paused", "Resetting"}
  /\ b.last_processed_req_result
       \in {"SuccessNothingToDo", "SuccessPerformed", "InProgress"}

Limited(e) == e.message_id # 0 /\ Script[e.message_id].max_retransmissions # NoLimit
IsReset(e) == e.message_id = 0
Unordered(e) == e.message_id # 0 /\ Script[e.message_id].unordered

\* The second entry must not be seen before the first.
Ordered(first, second) ==
  IsReset(first) \/ IsReset(second) \/ ~(Unordered(first) \/ Unordered(second))

\* On each stream the receiver sees what the sender sent: every message whole,
\* no message or reset twice, ordered messages in their order, no message on the
\* wrong side of a reset; and of what comes before something it sees, only
\* messages with limited retransmissions are left out (ReassemblyQueue,
\* HandleResetOutgoing, stream_reset_breakpoint_tsns).
InOrder ==
  \A id \in StreamIds :
    LET sent == a.log[id]
        got == b.log[id]
        Position(e) == CHOOSE i \in DOMAIN sent : sent[i] = e
    IN  /\ Range(got) \subseteq Range(sent)
        /\ \A i, j \in DOMAIN got :
             i < j => /\ got[i] # got[j]
                      /\ Ordered(got[i], got[j]) => Position(got[i]) < Position(got[j])
        /\ \A i \in DOMAIN sent, j \in DOMAIN got :
             /\ i < Position(got[j]) /\ Ordered(sent[i], got[j])
             /\ sent[i] \notin {got[k] : k \in 1..(j - 1)}
             => Limited(sent[i])

\* When the sender has nothing unacknowledged and no reset is in progress, every
\* message it has sent in full and without limit has reached the application:
\* "Called when the library has received an SCTP message in full and delivers it
\* to the upper layer" (OnMessageReceived).
AllDelivered ==
  Tsns(a) = {} /\ ~a.has_request =>
    \A id \in StreamIds : \A i \in DOMAIN a.log[id] :
      LET e == a.log[id][i]
      IN  IsReset(e) \/ Limited(e) \/ Unsent(a, e.message_id) \/ e \in Range(b.log[id])

\* queued_bytes_, from which the advertised window is computed, is the size of
\* the chunks held and deferred: the streams report what each call adds or frees,
\* in four different ways.
QueuedBytes ==
  LET rq == b.reassembly_queue
      deferred == SelectSeq(rq.deferred_reset_streams.deferred_actions,
                            LAMBDA d : d.kind = "Data")
  IN  rq.queued_bytes = Len(deferred)
        + MapThenSumSet(LAMBDA k : RQ!Bytes(rq.streams[k].chunks), DOMAIN rq.streams)

\* With this implementation at both ends no request is ever refused: the numbers
\* under which a request is repeated after "in progress" or a timeout are those
\* the peer expects (ValidateReqSeqNbr, MakeReconfigChunk).
NeverFails == a.failed = 0

\* Weak fairness of the steps that are neither calls of the application nor
\* faults: what is not lost arrives, SACKs are sent, and timers expire.  It is
\* written out, with CanStep for ENABLED, which TLC cannot evaluate in time.
CanStep ==
  \/ net # {} \/ b.owes_sack \/ Tsns(a) # {}
  \/ a.reconfig_timer

SystemStep == a'.calls = a.calls /\ faults' = faults

FairSpec == Spec /\ ([]<>~CanStep \/ []<><<SystemStep>>_vars)

\* A stream that the application resets can be used again: the request is sent
\* once its last message is under way, repeated when it is lost or too early, and
\* the answer resumes the stream (StreamResetHandler).
ResetsEnd ==
  \A id \in StreamIds :
    a.streams[id].pause_state # "NotPaused" ~> a.streams[id].pause_state = "NotPaused"
==============================================================================
