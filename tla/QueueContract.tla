---------------------------- MODULE QueueContract ----------------------------
(***************************************************************************)
(* The contract of the lifecycle callbacks, kept by RetransmissionQueue:   *)
(* its messages, TSNs and callbacks are those of MessageTransfer.          *)
(***************************************************************************)
EXTENDS RetransmissionQueue

MT == INSTANCE MessageTransfer WITH
        limited <- {m \in DOMAIN Messages : \/ Messages[m].lifetime
                                            \/ Messages[m].max_retransmissions # NoLimit},
        owner <- q.assigned,
        abandoned <- q.given_up,
        cum <- q.last_cumulative_tsn_ack,
        ended <- q.ended,
        data <- rx.data,
        skipped <- rx.skipped

\* Windows, timers, losses and FORWARD-TSNs keep the contract of the lifecycle
\* callbacks: each message ends at most once, as delivered only when every
\* fragment arrived, and only messages with a limit are ever skipped.
Implements == MT!Spec

\* "It's guaranteed that OnLifecycleMessageDelivered is not called if this
\* callback [OnLifecycleMessageExpired] has triggered", and when it is called
\* the receiver has all of the message.
DeliveredIsReceived == MT!DeliveredIsReceived
==============================================================================
