------------------------------ MODULE MCTimer ------------------------------
(* Instances of DcSctpTimer for TLC. *)
EXTENDS DcSctpTimer

\* std::nullopt, the max_restarts of t3-rtx
Unlimited == NoLimit
=============================================================================
