------------------------------ MODULE MCTracker ------------------------------
(* Instances of DataTracker for TLC. *)
EXTENDS DataTracker
=============================================================================
