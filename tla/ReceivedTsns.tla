---------------------------- MODULE ReceivedTsns ----------------------------
(***************************************************************************)
(* What a data receiver promises its reassembly queue (the comments of     *)
(* DataTracker::Observe and HandleForwardTsn in net/dcsctp/rx/             *)
(* data_tracker.h): it is a set of TSNs that knows whether a chunk "was    *)
(* seen for the first time", and whether a FORWARD-TSN "had any effect".   *)
(***************************************************************************)
EXTENDS Integers

CONSTANTS First,   \* the peer's initial TSN
          Last     \* bounds the TSNs the peer gets to

VARIABLES received,  \* the TSNs that have been received or skipped
          result     \* what the last operation returned

vars == <<received, result>>

Init == received = {} /\ result = FALSE

\* A DATA chunk.
Observe(t) ==
  /\ result' = (t \notin received)
  /\ received' = received \cup {t}

\* A FORWARD-TSN chunk: all TSNs up to t.
HandleForwardTsn(t) ==
  /\ result' = ~(First..t \subseteq received)
  /\ received' = received \cup (First..t)

Next == \E t \in First..Last : Observe(t) \/ HandleForwardTsn(t)

Spec == Init /\ [][Next]_vars
=============================================================================
