------------------------------ MODULE MCSocket ------------------------------
(* Instances of DcSctpSocket for TLC: a run explores each of a few budgets.  *)
EXTENDS DcSctpSocket
CONSTANTS A, B

Each(a, b) == [p \in Peers |-> IF p = A THEN a ELSE b]
\* A connects once; nothing else happens than what packets and timers do.
Plain == [loss |-> 0, dup |-> 0, restart |-> 0, connect |-> Each(1, 0),
          shutdown |-> 0, close |-> 0, messages |-> Each(0, 0),
          max_init_retransmits |-> 0]

\* Both connect, or one does twice, with a loss, a duplicate and a call of
\* Close(); or both connect and the T1 timers retry.
Handshakes ==
  {[Plain EXCEPT !.connect = c, !.loss = 1, !.dup = 1, !.close = 1] :
     c \in {Each(1, 1), Each(2, 0)}}
  \cup {[Plain EXCEPT !.connect = Each(1, 1), !.max_init_retransmits = 1]}
\* A sends two messages, a process restarts and A connects again.
Restarts ==
  {[Plain EXCEPT !.connect = Each(2, 0), !.restart = 1, !.messages = Each(2, 0)]}
HandshakesAndRestarts == Handshakes \cup Restarts

\* The T1 timers retry twice, with a loss and a duplicate, or once, while
\* somebody shuts down; or both connect, with a loss and no retry.
Retries ==
  {[Plain EXCEPT !.max_init_retransmits = 2, !.loss = 1, !.dup = 1],
   [Plain EXCEPT !.max_init_retransmits = 1, !.shutdown = 1],
   [Plain EXCEPT !.connect = Each(1, 1), !.loss = 1]}
\* A sends a message, a packet is lost and both sides may shut down.
Shutdowns == {[Plain EXCEPT !.loss = 1, !.shutdown = 2, !.messages = Each(1, 0)]}
RetriesAndShutdowns == Retries \cup Shutdowns

\* A sends two messages and somebody shuts down; nothing is lost.
TwoMessages == {[Plain EXCEPT !.shutdown = 1, !.messages = Each(2, 0)]}
\* T1 timers retry and somebody shuts down; nothing is lost.
OneShutdown == {[Plain EXCEPT !.max_init_retransmits = 1, !.shutdown = 1]}
=============================================================================
