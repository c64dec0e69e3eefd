------------------------------- MODULE MCQueue -------------------------------
EXTENDS QueueContract

Message(size, max_rtx, lifetime) ==
  [size |-> size, max_retransmissions |-> max_rtx, lifetime |-> lifetime]

\* A message of two fragments that may not be sent again and may lapse, and a
\* reliable one behind it.
Fragile == <<Message(7, 0, TRUE), Message(1, NoLimit, FALSE)>>

\* Four fragments: the window opens far enough for fast retransmission.
Long == <<Message(20, NoLimit, FALSE)>>
LongLimited == <<Message(20, 1, FALSE)>>

\* The third fragment has no TSN when the first two are lost.
UnsentEnd == <<Message(12, 0, FALSE)>>

Limited == <<Message(5, 1, FALSE), Message(5, NoLimit, TRUE)>>

AllScripts == {Fragile, Long, LongLimited, UnsentEnd, Limited}

\* The receiver's window is open, or may be closed at times.
MayClose(script) == IF script \in {UnsentEnd, Limited} THEN {0, 100} ELSE {100}

\* The third fragment has no TSN when the lifetime is over.
Lapses == {<<Message(12, NoLimit, TRUE)>>}
==============================================================================
