--------------------------- MODULE ReassemblyQueue ---------------------------
(***************************************************************************)
(* ReassemblyQueue (net/dcsctp/rx/reassembly_queue.cc) with both of its    *)
(* ReassemblyStreams: TraditionalReassemblyStreams for DATA chunks and,    *)
(* with message_interleaving, InterleavedReassemblyStreams for I-DATA.     *)
(* The queue is a record r; a method is an operator from the record to the *)
(* record it leaves behind.                                                *)
(*                                                                         *)
(* A stream is [next, last, chunks]: next_ssn_ or next_mid_, the last      *)
(* number its unwrapper saw, and the set of chunks it holds, where         *)
(* chunks_by_ssn_ and chunks_by_mid_ are the chunks grouped by .number.    *)
(* The ordered and the unordered streams are one function on pairs         *)
(* <<is_unordered, stream_id>>, the FullStreamId of the interleaved        *)
(* streams.  TSNs are unwrapped, SSNs and MIDs wrap at SeqLimit.           *)
(***************************************************************************)
EXTENDS Integers, Sequences, FiniteSets, FiniteSetsExt, SequencesExt

CONSTANTS StreamIds, message_interleaving, SeqLimit

NotDeferred == [sender_last_assigned_tsn |-> 0, streams |-> {}, deferred_actions |-> <<>>]

\* The streams expect the number next.
EmptyReassemblyQueue(next) ==
  [streams |-> [k \in BOOLEAN \X StreamIds |-> [next |-> next, last |-> next, chunks |-> {}]],
   reassembled_messages |-> <<>>, queued_bytes |-> 0,
   is_deferred |-> FALSE, deferred_reset_streams |-> NotDeferred]

Bytes(chunks) == MapThenSumSet(LAMBDA c : c.data.size, chunks)

\* SeqNumUnwrapper: the number nearest to the last one, either way round.
Unwrap(last, value) ==
  LET diff == (value - last) % SeqLimit
      ahead == IF 2 * diff = SeqLimit THEN last % SeqLimit < value ELSE 2 * diff < SeqLimit
  IN  last + (IF ahead THEN diff ELSE diff - SeqLimit)

------------------------------------------------------------------------------
(* A stream.  The methods return a stream, the bytes they report to the    *)
(* queue, and the messages they have handed to on_assembled_message_.      *)

Result(stream, bytes, messages) ==
  [stream |-> stream, bytes |-> bytes, messages |-> messages]

ToMessage(sorted) ==
  [stream_id |-> sorted[1].data.stream_id, is_unordered |-> sorted[1].data.is_unordered,
   size |-> Bytes(Range(sorted)),
   payload |-> [i \in DOMAIN sorted |-> sorted[i].data.payload]]

Tsn(c) == c.tsn
Fsn(c) == c.data.fsn

\* The key of each chunk in the map that holds it.
ByTsn(chunks) == [c \in chunks |-> Tsn(c)]
ByFsn(chunks) == [c \in chunks |-> Fsn(c)]

\* The chunks are concatenated in the order of their keys in the map.
AssembleMessage(key) ==
  ToMessage(SetToSortSeq(DOMAIN key, LAMBDA c, d : key[c] < key[d]))

\* The first chunk begins the message, the last one ends it, none is missing
\* between them.
IsComplete(key) ==
  LET chunks == DOMAIN key
      first == CHOOSE c \in chunks : \A d \in chunks : key[c] <= key[d]
      last == CHOOSE c \in chunks : \A d \in chunks : key[d] <= key[c]
  IN  /\ chunks # {}
      /\ first.data.is_beginning /\ last.data.is_end
      /\ key[last] - key[first] = Cardinality(chunks) - 1

IsWhole(c) == c.data.is_beginning /\ c.data.is_end

\* One message of an ordered stream.  The traditional stream looks at the first
\* SSN it holds, the interleaved one at the chunks of the next MID.
NextChunks(stream) ==
  LET numbers == {c.number : c \in stream.chunks}
  IN  IF ~message_interleaving /\ numbers # {} /\ Min(numbers) # stream.next THEN {}
      ELSE {c \in stream.chunks : c.number = stream.next}

TryToAssemble(res, chunks) ==
  LET key == IF message_interleaving THEN ByFsn(chunks) ELSE ByTsn(chunks)
  IN  IF ~IsComplete(key) THEN res
      ELSE Result([res.stream EXCEPT !.chunks = @ \ chunks, !.next = @ + 1],
                  res.bytes + Bytes(chunks),
                  Append(res.messages, AssembleMessage(key)))
TryToAssembleMessage(res) == TryToAssemble(res, NextChunks(res.stream))

TryToAssembleMessages(stream, messages) ==
  FoldLeft(LAMBDA res, i : TryToAssembleMessage(res), Result(stream, 0, messages),
           [i \in 1..Cardinality(stream.chunks) |-> i])

\* TraditionalReassemblyStreams::UnorderedStream::Add(): the fragments of a
\* message have consecutive TSNs.
MessageAround(chunks, c) ==
  LET At(t) == CHOOSE d \in chunks : d.tsn = t
      tsns == {d.tsn : d \in chunks}
      Spans(first, last) ==
        /\ first..last \subseteq tsns /\ c.tsn \in first..last
        /\ At(first).data.is_beginning /\ At(last).data.is_end
        /\ \A t \in first..last : /\ At(t).data.is_beginning /\ t <= c.tsn => t = first
                                  /\ At(t).data.is_end /\ t >= c.tsn => t = last
  IN  {d \in chunks : \E first, last \in tsns : Spans(first, last) /\ d.tsn \in first..last}

HandOver(stream, c, message) ==
  IF message = {} THEN Result(stream, c.data.size, <<>>)
  ELSE Result([stream EXCEPT !.chunks = @ \ message],
              c.data.size - Bytes(message), <<AssembleMessage(ByTsn(message))>>)

AddUnorderedTraditional(stream, c) ==
  IF IsWhole(c) THEN Result(stream, 0, <<AssembleMessage(ByTsn({c}))>>)
  ELSE IF \E d \in stream.chunks : d.tsn = c.tsn THEN Result(stream, 0, <<>>)
  ELSE HandOver([stream EXCEPT !.chunks = @ \cup {c}], c,
                MessageAround(stream.chunks \cup {c}, c))

\* Stores the chunk, and reports what this adds to the queue.
Store(stream, c) ==
  LET inserted == ~\E d \in stream.chunks :
                     /\ d.number = c.number
                     /\ IF message_interleaving THEN Fsn(d) = Fsn(c) ELSE Tsn(d) = Tsn(c)
  IN  IF inserted THEN Result([stream EXCEPT !.chunks = @ \cup {c}], c.data.size, <<>>)
      ELSE Result(stream, 0, <<>>)

\* OrderedStream::Add() of the traditional streams, and Stream::Add() of the
\* interleaved ones when ordered.  A whole message whose turn it is bypasses
\* the map.
AfterStoring(stored) ==
  IF stored.bytes = 0 /\ stored.messages = <<>> THEN stored \* it was there
  ELSE [TryToAssembleMessages(stored.stream, stored.messages) EXCEPT !.bytes = stored.bytes - @]

AddOrdered(stream, c) ==
  CASE c.number # stream.next -> Store(stream, c)
    [] c.number = stream.next /\ IsWhole(c) ->
         AfterStoring(Result([stream EXCEPT !.next = @ + 1], 0, <<AssembleMessage(ByTsn({c}))>>))
    [] c.number = stream.next /\ ~IsWhole(c) -> AfterStoring(Store(stream, c))

\* Stream::Add() of the interleaved streams when unordered.
TryToAssembleUnordered(stored, c, chunks) ==
  IF stored.bytes = 0 \/ ~IsComplete(ByFsn(chunks)) THEN stored
  ELSE Result([stored.stream EXCEPT !.chunks = @ \ chunks],
              c.data.size - Bytes(chunks), <<AssembleMessage(ByFsn(chunks))>>)

AfterStoringUnordered(stored, c) ==
  TryToAssembleUnordered(stored, c, {d \in stored.stream.chunks : d.number = c.number})

AddUnorderedInterleaved(stream, c) ==
  IF IsWhole(c) THEN Result(stream, 0, <<AssembleMessage(ByFsn({c}))>>)
  ELSE AfterStoringUnordered(Store(stream, c), c)

AddChunk(stream, c) ==
  LET seen == [stream EXCEPT !.last = c.number]
  IN  IF ~c.data.is_unordered THEN AddOrdered(seen, c)
      ELSE IF message_interleaving THEN AddUnorderedInterleaved(seen, c)
      ELSE AddUnorderedTraditional(stream, [c EXCEPT !.number = 0])

Add_(stream, tsn, data) ==
  AddChunk(stream, [tsn |-> tsn, data |-> data, number |->
             Unwrap(stream.last, IF message_interleaving THEN data.mid ELSE data.ssn)])

\* EraseTo() of an ordered stream, and of an unordered interleaved one.
EraseToNumber(stream, is_unordered, number) ==
  LET erased == {c \in stream.chunks : c.number <= number}
      left == [stream EXCEPT !.last = number, !.chunks = @ \ erased]
      res == TryToAssembleMessages([left EXCEPT !.next = Max({@, number + 1})], <<>>)
  IN  IF is_unordered THEN Result(left, Bytes(erased), <<>>)
      ELSE [res EXCEPT !.bytes = @ + Bytes(erased)]

EraseTo(stream, is_unordered, value) ==
  EraseToNumber(stream, is_unordered, Unwrap(stream.last, value))

\* Mutant: the bytes that are erased are not reported.
EraseToTsn_Uncounted(stream, tsn) ==
  Result([stream EXCEPT !.chunks = {c \in @ : c.tsn > tsn}], 0, <<>>)

\* UnorderedStream::EraseTo() of the traditional streams.
EraseToTsn(stream, tsn) ==
  LET erased == {c \in stream.chunks : c.tsn <= tsn}
  IN  Result([stream EXCEPT !.chunks = @ \ erased], Bytes(erased), <<>>)

------------------------------------------------------------------------------
(* The queue.                                                              *)

\* The stream's result is taken over; AddReassembledMessage() counts the
\* messages, which wait for GetNextMessage().
Take(r, k, res, bytes) ==
  [r EXCEPT !.streams[k] = res.stream,
            !.reassembled_messages = @ \o res.messages,
            !.queued_bytes = @ + bytes
               + FoldLeft(LAMBDA sum, m : sum + m.size, 0, res.messages)]

\* Add() when the chunk is not deferred.
AddToStream(r, tsn, data) ==
  LET k == <<data.is_unordered, data.stream_id>>
      TakeResult(res) == Take(r, k, res, res.bytes)
  IN  TakeResult(Add_(r.streams[k], tsn, data))

IsDeferred(r, tsn) ==
  r.is_deferred /\ tsn > r.deferred_reset_streams.sender_last_assigned_tsn

Defer(r, action) ==
  [r EXCEPT !.deferred_reset_streams.deferred_actions = Append(@, action)]

Add(r, tsn, data) ==
  IF IsDeferred(r, tsn) /\ data.stream_id \in r.deferred_reset_streams.streams
  THEN Defer([r EXCEPT !.queued_bytes = @ + data.size],
             [kind |-> "Data", tsn |-> tsn, data |-> data])
  ELSE AddToStream(r, tsn, data)

\* The keys of skipped_streams are stream ids in a FORWARD-TSN, and
\* <<unordered, stream id>> in an I-FORWARD-TSN.
PerformForwardTsn(r, tsn, skipped_streams) ==
  LET unordered == {k \in DOMAIN r.streams : k[1] /\ ~message_interleaving}
      skipped == IF message_interleaving THEN DOMAIN skipped_streams
                 ELSE {<<FALSE, s>> : s \in DOMAIN skipped_streams}
      Value(k) == skipped_streams[IF message_interleaving THEN k ELSE k[2]]
      EraseIn(acc, k) ==
        LET TakeResult(res) == Take(acc, k, res, -res.bytes)
        IN  TakeResult(IF k \in unordered THEN EraseToTsn(acc.streams[k], tsn)
                       ELSE EraseTo(acc.streams[k], k[1], Value(k)))
  IN  FoldLeft(EraseIn, r, SetToSeq(unordered \cup skipped))

HandleForwardTsn(r, tsn, skipped_streams) ==
  IF IsDeferred(r, tsn)
  THEN Defer(r, [kind |-> "ForwardTsn", tsn |-> tsn, skipped_streams |-> skipped_streams])
  ELSE PerformForwardTsn(r, tsn, skipped_streams)

EnterDeferredReset(r, sender_last_assigned_tsn, streams) ==
  IF r.is_deferred THEN r
  ELSE [r EXCEPT !.is_deferred = TRUE,
                 !.deferred_reset_streams =
                    [sender_last_assigned_tsn |-> sender_last_assigned_tsn,
                     streams |-> streams, deferred_actions |-> <<>>]]

\* Reset() of a stream leaves its chunks.  The traditional streams reset only
\* the ordered ones.  No stream id means all of them.
ResetStreams(r, stream_ids) ==
  [r EXCEPT !.streams = [k \in DOMAIN @ |->
     IF (stream_ids = {} \/ k[2] \in stream_ids) /\ (message_interleaving \/ ~k[1])
     THEN [@[k] EXCEPT !.next = 0, !.last = 0] ELSE @[k]]]

\* The deferred actions are fed back, none of them deferred any more.
ResetStreamsAndLeaveDeferredReset(r, stream_ids) ==
  LET Perform(acc, action) ==
        IF action.kind = "Data"
        THEN AddToStream([acc EXCEPT !.queued_bytes = @ - action.data.size],
                         action.tsn, action.data)
        ELSE PerformForwardTsn(acc, action.tsn, action.skipped_streams)
  IN  FoldLeft(Perform,
               [ResetStreams(r, stream_ids) EXCEPT
                  !.is_deferred = FALSE, !.deferred_reset_streams = NotDeferred],
               r.deferred_reset_streams.deferred_actions)

\* GetNextMessage() until there is none.
MessagesTaken(r) ==
  [r EXCEPT !.reassembled_messages = <<>>,
            !.queued_bytes = @ - FoldLeft(LAMBDA sum, m : sum + m.size, 0,
                                          r.reassembled_messages)]
==============================================================================
