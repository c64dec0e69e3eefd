------------------------------ MODULE MCStreams ------------------------------
(* StreamReset for TLC: what the application does.                         *)
EXTENDS StreamReset

Message(stream_id, fragments, max_retransmissions, unordered) ==
  [call |-> "Send", stream_id |-> stream_id, fragments |-> fragments,
   max_retransmissions |-> max_retransmissions, unordered |-> unordered]
Ordered1(stream_id, fragments, max_retransmissions) ==
  Message(stream_id, fragments, max_retransmissions, FALSE)
Unordered1(stream_id, fragments, max_retransmissions) ==
  Message(stream_id, fragments, max_retransmissions, TRUE)
Reset(stream_id) == [call |-> "Reset", stream_id |-> stream_id]

Traditional(calls) == [message_interleaving |-> FALSE, calls |-> calls]
Interleaved(calls) == [message_interleaving |-> TRUE, calls |-> calls]

\* A stream is reset with its message half sent, and used again.
HalfSent == Traditional(<<Ordered1(1, 2, NoLimit), Reset(1), Ordered1(1, 1, NoLimit)>>)

\* Limited messages of both streams are outstanding when one is reset.
Skipping == Traditional(<<Ordered1(1, 2, 0), Ordered1(2, 1, 0), Reset(1),
                          Ordered1(1, 1, NoLimit)>>)

\* A message waits for one that is given up.
Waiting == {Traditional(<<Ordered1(1, 1, 0), Ordered1(1, 2, NoLimit)>>),
            Interleaved(<<Ordered1(1, 1, 0), Ordered1(1, 2, NoLimit)>>)}

\* Two resets wait for each other, and one of the streams is reset again.
TwoResets == Traditional(<<Ordered1(1, 1, 0), Reset(1), Reset(2), Ordered1(1, 1, NoLimit),
                           Reset(1)>>)

UnorderedMessages == Traditional(<<Unordered1(1, 2, 0), Unordered1(1, 2, NoLimit), Reset(1),
                                   Ordered1(1, 1, NoLimit)>>)

InterleavedMessages ==
  {Interleaved(<<Ordered1(1, 2, 0), Ordered1(2, 1, NoLimit), Reset(1),
                 Ordered1(1, 1, NoLimit)>>),
   Interleaved(<<Unordered1(1, 2, 0), Ordered1(2, 1, NoLimit), Reset(1),
                 Unordered1(1, 2, NoLimit)>>)}

\* Two limited messages and then one without limit.
TwoLimited == Traditional(<<Ordered1(1, 1, 0), Ordered1(1, 1, 0), Ordered1(1, 1, NoLimit)>>)

AllScripts == {HalfSent, Skipping, TwoResets, UnorderedMessages, TwoLimited}
                \cup Waiting \cup InterleavedMessages

\* One stream is reset while a limited message of the other is half sent; then a
\* message follows that takes two chunks.
SplitByReset == {Traditional(<<Ordered1(2, 3, 0), Reset(1), Ordered1(2, 2, NoLimit)>>)}
==============================================================================
