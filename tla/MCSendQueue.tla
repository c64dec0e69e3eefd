----------------------------- MODULE MCSendQueue -----------------------------
EXTENDS RRSendQueue

Message(stream_id, size, unordered, lifetime) ==
  [stream_id |-> stream_id, size |-> size, unordered |-> unordered, lifetime |-> lifetime]

\* Two streams with messages of several fragments, one with a lifetime, and
\* every call of the queue.
Mixed == [messages |-> <<Message(1, 3, FALSE, FALSE), Message(2, 2, FALSE, TRUE),
                         Message(1, 1, TRUE, FALSE)>>,
          max_calls |-> 3]

\* One stream has more to send than the other is ready to wait for.
Many == [messages |-> <<Message(2, 2, FALSE, FALSE)>>
                        \o [i \in 1..10 |-> Message(1, 1, FALSE, FALSE)],
         max_calls |-> 0]

AllScripts == {Mixed, Many}
==============================================================================
