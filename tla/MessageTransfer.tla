--------------------------- MODULE MessageTransfer ---------------------------
(***************************************************************************)
(* What the sender and the receiver of data promise each other: the        *)
(* contract behind the lifecycle callbacks of public/dcsctp_socket.h.      *)
(* Each TSN carries a fragment of one message.  The sender may give up a   *)
(* message that is limited in lifetime or in retransmissions, and only     *)
(* then may the receiver be told to skip TSNs it never got.  A message     *)
(* ends once, delivered or expired.                                        *)
(*                                                                         *)
(* Windows, timers, SACKs and packets are left out: RetransmissionQueue    *)
(* has them and implements this specification.                             *)
(***************************************************************************)
EXTENDS Integers, Sequences

CONSTANT MessageIds

VARIABLES
  limited,     \* the messages sent with a limit, which may be given up
  owner,       \* the message of each TSN that has been assigned
  abandoned,   \* messages the sender has given up
  cum,         \* the sender's last_cumulative_tsn_ack
  ended,       \* the lifecycle events of each message
  data,        \* the TSNs the receiver got
  skipped      \* the TSN up to which it was told to move forward

vars == <<limited, owner, abandoned, cum, ended, data, skipped>>

Has(t) == t \in data \/ t <= skipped

Init ==
  /\ limited \subseteq MessageIds
  /\ owner = <<>> /\ abandoned = {} /\ cum = 0 /\ data = {} /\ skipped = 0
  /\ ended = [m \in MessageIds |-> <<>>]

------------------------------------------------------------------------------
(* The sender, whatever made it move: an event may assign TSNs, give up    *)
(* messages, take note of what the receiver has, and end messages.         *)

AssignTsns ==
  /\ owner' \in Seq(MessageIds)
  /\ Len(owner) <= Len(owner')
  /\ \A t \in 1..Len(owner) : owner'[t] = owner[t]
  /\ \A t \in (Len(owner) + 1)..Len(owner') : ended[owner'[t]] = <<>>

Abandon ==
  /\ abandoned \subseteq abandoned'
  /\ \A m \in abandoned' \ abandoned : m \in limited /\ ended[m] = <<>>

Acknowledge ==
  /\ cum' \in cum..Len(owner')
  /\ \A t \in 1..cum' : Has(t)

End(m) ==
  \/ ended'[m] = ended[m]
  \/ /\ ended[m] = <<>>
     /\ ended'[m] = <<"Expired">>
     /\ m \in abandoned'
  \/ /\ ended[m] = <<>>
     /\ ended'[m] = <<"Delivered">>
     /\ m \notin abandoned'
     /\ \A t \in 1..Len(owner') : owner'[t] = m => t <= cum'

Sender ==
  /\ AssignTsns
  /\ Abandon
  /\ Acknowledge
  /\ DOMAIN ended' = MessageIds
  /\ \A m \in MessageIds : End(m)
  /\ UNCHANGED <<limited, data, skipped>>

\* A packet brings fragments and, perhaps, moves the receiver forward.
Receiver ==
  /\ skipped <= skipped' /\ skipped' \in 0..Len(owner)
  /\ \A t \in 1..skipped' : Has(t) \/ owner[t] \in abandoned
  /\ data \subseteq data' /\ data' \subseteq 1..Len(owner)
  /\ UNCHANGED <<limited, owner, abandoned, cum, ended>>

Next == Sender \/ Receiver

Spec == Init /\ [][Next]_vars

------------------------------------------------------------------------------
\* OnLifecycleMessageDelivered tells the truth: every fragment of the message
\* arrived, none was skipped.
DeliveredIsReceived ==
  \A t \in 1..Len(owner) : ended[owner[t]] = <<"Delivered">> => t \in data

\* What the sender forgets of a message without limits has arrived: it is not
\* acknowledged because of a FORWARD-TSN.
ReliableIsReceived ==
  \A t \in 1..cum : owner[t] \in limited \/ t \in data
==============================================================================
