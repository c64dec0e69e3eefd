---------------------------- MODULE SendingProofs ----------------------------
(***************************************************************************)
(* What the steps of the sender of data keep true: giving messages up,     *)
(* removing what is acknowledged, and filling a packet with chunks.        *)
(*                                                                         *)
(* A handler is a chain of operators from one record to the next.  Good    *)
(* holds between any two of them; e is what had ended when the handler     *)
(* began.                                                                  *)
(***************************************************************************)
EXTENDS RetransmissionQueue, OutstandingDataProofs

AllFields ==
  QueueFields \cup
  {"cwnd", "rwnd", "ssthresh", "partial_bytes_acked", "fast_recovery_exit_tsn", "t3_rtx",
   "tx_error_counter", "limit_forward_tsn", "aborted", "out", "assigned", "given_up",
   "accepted"}

Typed(s) ==
  /\ Messages \in Scripts
  /\ DOMAIN s = AllFields
  /\ s.cwnd \in Int /\ s.rwnd \in Int /\ s.ssthresh \in Int /\ s.partial_bytes_acked \in Int
  /\ s.t3_rtx \in BOOLEAN /\ s.limit_forward_tsn \in BOOLEAN
  /\ s.accepted \in 0..Len(Messages)

Id(s, t) == s.outstanding_data[t].message_id
GivenUp(s, t) == is_abandoned(s.outstanding_data[t])
IsLast(s, t) == s.outstanding_data[t].lifecycle_id
ChunksOf(s, m) == {t \in Tsns(s) : Id(s, t) = m}

\* Which chunk belongs to which message.
Owned(s, e) ==
  /\ s.assigned \in Seq(MessageIds)
  /\ s.last_cumulative_tsn_ack <= Len(s.assigned) /\ Len(s.assigned) <= s.highest_tsn
  /\ \A t \in Tsns(s) : /\ Id(s, t) \in 1..s.accepted
                        /\ t <= Len(s.assigned) => s.assigned[t] = Id(s, t)
                        /\ t > Len(s.assigned) => e[Id(s, t)] = <<>>

\* A message is abandoned as a whole, and its last chunk is the one that ends it.
Whole(s) ==
  \A t, u \in Tsns(s) : Id(s, t) = Id(s, u) => /\ GivenUp(s, t) => GivenUp(s, u)
                                               /\ IsLast(s, t) => u <= t

\* What is left of a message to send: nothing of it is given up.
Waiting(s) ==
  \A m \in DOMAIN s.send_queue :
    /\ m \in 1..s.accepted /\ s.send_queue[m] \in 0..(Messages[m].size - 1)
    /\ s.ended[m] = <<>> /\ m \notin s.given_up
    /\ \A t \in ChunksOf(s, m) : /\ s.send_queue[m] > 0
                                 /\ ~IsLast(s, t) /\ ~GivenUp(s, t)

\* What has ended, or was given up.
Over(s, e) ==
  /\ DOMAIN s.ended = MessageIds
  /\ \A m \in MessageIds :
       /\ s.ended[m] \in {<<>>, <<"Expired">>, <<"Delivered">>}
       /\ s.ended[m] = e[m] \/ e[m] = <<>>
       /\ s.ended[m] = <<"Delivered">> => ChunksOf(s, m) = {} /\ m \notin s.given_up
       /\ s.ended[m] = <<"Expired">> \/ m \in s.given_up =>
            \A t \in ChunksOf(s, m) : GivenUp(s, t)
       /\ s.ended[m] = <<"Expired">> => \A t \in ChunksOf(s, m) : ~IsLast(s, t)

\* Nothing has happened to a message that is still to be sent.
Fresh(s) ==
  \A m \in MessageIds : m \notin 1..s.accepted => s.ended[m] = <<>> /\ m \notin s.given_up

\* The packets to send: a FORWARD-TSN skips what is acknowledged or given up.
Packed(s) ==
  \A p \in s.out :
    /\ p.tsns \subseteq 1..s.highest_tsn /\ p.forward_tsn \in 0..s.highest_tsn
    /\ \A t \in 1..p.forward_tsn :
         t <= s.last_cumulative_tsn_ack \/ (t \in Tsns(s) /\ GivenUp(s, t))

Good(s, e) ==
  /\ Sane(s) /\ Typed(s)
  /\ Owned(s, e) /\ Whole(s) /\ Waiting(s) /\ Over(s, e) /\ Fresh(s) /\ Packed(s)

\* T3-rtx runs, or will be started for what was put into the packet.
Pending(s) == \E t \in Tsns(s) : ~GivenUp(s, t)

\* Between handlers the history is up to date.
Rest(r) ==
  /\ Good(r, r.ended)
  /\ r.to_be_fast_retransmitted = {} /\ r.out = {}
  /\ Len(r.assigned) = r.highest_tsn
  /\ r.given_up \subseteq MessageIds
  /\ \A t \in Tsns(r) : GivenUp(r, t) => Id(r, t) \in r.given_up
  /\ \A m \in MessageIds : r.ended[m] = <<"Expired">> => m \in r.given_up

AtRest == Rest(q)

\* What the receiver has, or may skip, up to k.
Arrived(k) == \A t \in 1..k : t \in rx.data \/ q.assigned[t] \in q.given_up

Remote ==
  /\ rx.data \subseteq 1..Len(q.assigned)
  /\ rx.skipped \in 0..Len(q.assigned) /\ Arrived(rx.skipped)
  /\ \A p \in net : /\ p.tsns \subseteq 1..Len(q.assigned)
                    /\ p.forward_tsn \in 0..Len(q.assigned) /\ Arrived(p.forward_tsn)
  /\ \A k \in sacks : /\ k.cumulative_tsn_ack \in 0..Len(q.assigned)
                      /\ 1..k.cumulative_tsn_ack \subseteq Received(rx)
                      /\ k.gap_acked \subseteq rx.data
                      /\ k.a_rwnd \in Nat
  /\ 1..q.last_cumulative_tsn_ack \subseteq Received(rx)

QueueInv == AtRest /\ Timed /\ Remote

------------------------------------------------------------------------------
(* Steps of a handler.                                                     *)

LEMMA AcceptedIds ==
  ASSUME NEW s, Typed(s)
  PROVE  /\ 1..s.accepted \subseteq MessageIds /\ s.accepted \in Nat
         /\ \A m \in 1..s.accepted :
              m \in DOMAIN Messages /\ Messages[m].size \in Nat \ {0}
<1>1. /\ Messages \in Seq([size : Nat \ {0}, max_retransmissions : 0..NoLimit,
                           lifetime : BOOLEAN])
      /\ Messages \in Scripts
  BY QueueAssumption, Zenon DEF Typed
<1>2. s.accepted \in 0..Len(Messages) /\ Len(Messages) \in Nat
      /\ DOMAIN Messages = 1..Len(Messages)
  BY <1>1, LenIs DEF Typed
<1>3. DOMAIN Messages \subseteq MessageIds
  BY <1>1 DEF MessageIds
<1>4. \A m \in 1..Len(Messages) : Messages[m].size \in Nat \ {0}
  <2> TAKE m \in 1..Len(Messages)
  <2> DEFINE Kinds == [size : Nat \ {0}, max_retransmissions : 0..NoLimit, lifetime : BOOLEAN]
  <2>1. Messages \in Seq(Kinds) /\ m \in 1..Len(Messages)
    BY <1>1
  <2> HIDE DEF Kinds
  <2>2. Messages[m] \in Kinds
    BY <2>1
  <2> QED
    BY <2>2 DEF Kinds
<1> QED
  BY <1>2, <1>3, <1>4

\* The fields that no method of OutstandingData touches.
LEMMA QueueFrame ==
  ASSUME NEW q0, Typed(q0), Sane(q0), NEW r, Frame(r, q0, NackFields)
  PROVE  /\ Typed(r) /\ r.assigned = q0.assigned /\ r.given_up = q0.given_up
         /\ r.accepted = q0.accepted /\ r.out = q0.out /\ r.t3_rtx = q0.t3_rtx
         /\ r.cwnd = q0.cwnd /\ r.rwnd = q0.rwnd
         /\ r.fast_recovery_exit_tsn = q0.fast_recovery_exit_tsn
         /\ r.limit_forward_tsn = q0.limit_forward_tsn
         /\ r.last_cumulative_tsn_ack = q0.last_cumulative_tsn_ack
  BY Zenon DEF Typed, Frame, AllFields, NackFields, AbandonFields, FlightFields, QueueFields

\* Abandoning messages leaves the queue good.
LEMMA GoodAbandons ==
  ASSUME NEW s, NEW e, Good(s, e), NEW r, Sane(r), Frame(r, s, NackFields), NEW ms,
         Abandons(r, s, ms)
  PROVE  Good(r, e) /\ (Pending(r) => Pending(s))
<1>1. /\ Typed(r) /\ r.assigned = s.assigned /\ r.given_up = s.given_up
      /\ r.accepted = s.accepted /\ r.out = s.out
      /\ r.last_cumulative_tsn_ack = s.last_cumulative_tsn_ack
  BY QueueFrame DEF Good
<1>2. /\ s.highest_tsn <= r.highest_tsn /\ s.highest_tsn \in Nat /\ r.highest_tsn \in Nat
      /\ s.last_cumulative_tsn_ack \in Nat
      /\ Tsns(s) = (s.last_cumulative_tsn_ack + 1)..s.highest_tsn
      /\ Tsns(r) = (s.last_cumulative_tsn_ack + 1)..r.highest_tsn
  BY <1>1 DEF Abandons, Good, Sane, Shape
<1>3. /\ Tsns(s) \subseteq Tsns(r)
      /\ \A t \in Tsns(r) : t \notin Tsns(s) => t > s.highest_tsn
  BY <1>2
<1>4. \A t \in Tsns(s) : /\ Id(r, t) = Id(s, t)
                         /\ IsLast(r, t) <=> IsLast(s, t)
                         /\ GivenUp(r, t) <=> GivenUp(s, t) \/ Id(s, t) \in ms
  BY DEF Abandons, Id, IsLast, GivenUp, SameChunk
<1>5. \A t \in Tsns(r) : t \notin Tsns(s) =>
        /\ Id(r, t) \in ms /\ Id(r, t) \in DOMAIN s.send_queue
        /\ GivenUp(r, t) /\ ~IsLast(r, t)
  BY DEF Abandons, Id, IsLast, GivenUp, Unsent
<1>6. \A m \in ms : \E t \in Tsns(s) : Id(s, t) = m
  BY DEF Abandons, Id
<1>7. /\ DOMAIN r.send_queue = DOMAIN s.send_queue \ ms
      /\ \A m \in DOMAIN r.send_queue : r.send_queue[m] = s.send_queue[m]
      /\ DOMAIN r.ended = DOMAIN s.ended
      /\ \A m \in DOMAIN s.ended :
           r.ended[m] = IF m \in ms /\ m \in DOMAIN s.send_queue
                        THEN Append(s.ended[m], "Expired") ELSE s.ended[m]
  BY DEF Abandons, Unsent
<1>8. 1..s.accepted \subseteq MessageIds
  BY AcceptedIds DEF Good
<1>9. Owned(s, e) /\ Whole(s) /\ Waiting(s) /\ Over(s, e) /\ Fresh(s) /\ Packed(s)
  BY DEF Good
<1>10. Owned(r, e)
  <2>1. Len(s.assigned) \in Nat /\ Len(s.assigned) <= s.highest_tsn
    BY <1>9, LenIs DEF Owned
  <2>2. ASSUME NEW t \in Tsns(r), t \in Tsns(s)
        PROVE  /\ Id(r, t) \in 1..s.accepted
               /\ t <= Len(s.assigned) => s.assigned[t] = Id(r, t)
               /\ t > Len(s.assigned) => e[Id(r, t)] = <<>>
    BY <1>4, <1>9, <2>2 DEF Owned
  <2>3. ASSUME NEW t \in Tsns(r), t \notin Tsns(s)
        PROVE  /\ Id(r, t) \in 1..s.accepted /\ ~(t <= Len(s.assigned))
               /\ e[Id(r, t)] = <<>>
    <3>1. Id(r, t) \in DOMAIN s.send_queue /\ t > s.highest_tsn
      BY <1>3, <1>5, <2>3
    <3>2. Id(r, t) \in 1..s.accepted /\ s.ended[Id(r, t)] = <<>>
      BY <1>9, <3>1 DEF Waiting
    <3>3. e[Id(r, t)] = <<>>
      BY <1>8, <1>9, <3>2 DEF Over
    <3> QED
      BY <1>2, <2>1, <3>1, <3>2, <3>3
  <2>4. Len(s.assigned) <= r.highest_tsn
    BY <1>2, <2>1
  <2> QED
    BY <1>1, <1>9, <2>2, <2>3, <2>4, Zenon DEF Owned
<1>11. Whole(r)
  <2> SUFFICES ASSUME NEW t \in Tsns(r), NEW u \in Tsns(r), Id(r, t) = Id(r, u)
               PROVE  /\ GivenUp(r, t) => GivenUp(r, u)
                      /\ IsLast(r, t) => u <= t
    BY DEF Whole
  <2>1. CASE t \in Tsns(s) /\ u \in Tsns(s)
    BY <1>4, <1>9, <2>1, Zenon DEF Whole
  <2>2. CASE t \in Tsns(s) /\ u \notin Tsns(s)
    <3>1. GivenUp(r, u) /\ Id(s, t) \in DOMAIN s.send_queue
      BY <1>4, <1>5, <2>2, Zenon
    <3>2. ~IsLast(s, t)
      BY <1>9, <2>2, <3>1, Zenon DEF Waiting, ChunksOf
    <3> QED
      BY <1>4, <2>2, <3>1, <3>2
  <2>3. CASE t \notin Tsns(s) /\ u \in Tsns(s)
    BY <1>4, <1>5, <2>3
  <2>4. CASE t \notin Tsns(s) /\ u \notin Tsns(s)
    BY <1>5, <2>4
  <2> QED
    BY <2>1, <2>2, <2>3, <2>4
<1>12. \A m : m \notin ms => ChunksOf(r, m) = ChunksOf(s, m)
  BY <1>3, <1>4, <1>5, Zenon DEF ChunksOf
<1>13. Waiting(r)
  <2> SUFFICES ASSUME NEW m \in DOMAIN r.send_queue
               PROVE  /\ m \in 1..r.accepted /\ r.send_queue[m] \in 0..(Messages[m].size - 1)
                      /\ r.ended[m] = <<>> /\ m \notin r.given_up
                      /\ \A t \in ChunksOf(r, m) : /\ r.send_queue[m] > 0
                                                   /\ ~IsLast(r, t) /\ ~GivenUp(r, t)
    BY DEF Waiting
  <2>1. m \in DOMAIN s.send_queue /\ m \notin ms /\ r.send_queue[m] = s.send_queue[m]
    BY <1>7, Zenon
  <2>2. m \in 1..s.accepted /\ m \in MessageIds
    BY <1>8, <1>9, <2>1, Zenon DEF Waiting
  <2>3. r.ended[m] = s.ended[m]
    BY <1>7, <1>9, <2>1, <2>2, Zenon DEF Over
  <2>4. \A t \in ChunksOf(r, m) : t \in ChunksOf(s, m) /\ ~IsLast(r, t) /\ ~GivenUp(r, t)
    BY <1>4, <1>9, <1>12, <2>1, Zenon DEF Waiting, ChunksOf
  <2> QED
    BY <1>1, <1>9, <2>1, <2>2, <2>3, <2>4, Zenon DEF Waiting
<1>14. Over(r, e)
  <2> SUFFICES ASSUME NEW m \in MessageIds
               PROVE  /\ r.ended[m] \in {<<>>, <<"Expired">>, <<"Delivered">>}
                      /\ r.ended[m] = e[m] \/ e[m] = <<>>
                      /\ r.ended[m] = <<"Delivered">> => ChunksOf(r, m) = {} /\ m \notin r.given_up
                      /\ r.ended[m] = <<"Expired">> \/ m \in r.given_up =>
                           \A t \in ChunksOf(r, m) : GivenUp(r, t)
                      /\ r.ended[m] = <<"Expired">> => \A t \in ChunksOf(r, m) : ~IsLast(r, t)
    BY <1>7, <1>9, Zenon DEF Over
  <2>1. /\ s.ended[m] \in {<<>>, <<"Expired">>, <<"Delivered">>}
        /\ s.ended[m] = e[m] \/ e[m] = <<>>
        /\ s.ended[m] = <<"Delivered">> => ChunksOf(s, m) = {} /\ m \notin s.given_up
        /\ s.ended[m] = <<"Expired">> \/ m \in s.given_up =>
             \A t \in ChunksOf(s, m) : GivenUp(s, t)
        /\ s.ended[m] = <<"Expired">> => \A t \in ChunksOf(s, m) : ~IsLast(s, t)
        /\ m \in DOMAIN s.ended
    BY <1>9 DEF Over
  <2>2. CASE m \notin ms
    <3>1. r.ended[m] = s.ended[m] /\ ChunksOf(r, m) = ChunksOf(s, m)
      BY <1>7, <1>12, <2>1, <2>2, Zenon
    <3>2. \A t \in ChunksOf(s, m) : /\ GivenUp(s, t) => GivenUp(r, t)
                                    /\ IsLast(r, t) <=> IsLast(s, t)
      BY <1>4, Zenon DEF ChunksOf
    <3> QED
      BY <1>1, <2>1, <3>1, <3>2, Zenon
  <2>3. CASE m \in ms
    <3>1. \A t \in ChunksOf(r, m) : GivenUp(r, t)
      BY <1>4, <1>5, <2>3, Zenon DEF ChunksOf
    <3>2. ChunksOf(s, m) # {}
      BY <1>6, <2>3, Zenon DEF ChunksOf
    <3>3. s.ended[m] # <<"Delivered">>
      BY <2>1, <3>2, Zenon
    <3>4. CASE m \in DOMAIN s.send_queue
      <4>1. s.ended[m] = <<>>
        BY <1>9, <3>4 DEF Waiting
      <4>2. r.ended[m] = <<"Expired">>
        <5>1. r.ended[m] = Append(<<>>, "Expired")
          BY <1>7, <2>1, <2>3, <3>4, <4>1, Zenon
        <5> QED
          BY <5>1
      <4>3. \A t \in ChunksOf(s, m) : ~IsLast(s, t)
        BY <1>9, <3>4 DEF Waiting
      <4>4. \A t \in ChunksOf(r, m) : ~IsLast(r, t)
        BY <1>4, <1>5, <4>3, Zenon DEF ChunksOf
      <4>5. e[m] = <<>>
        BY <2>1, <4>1, Zenon
      <4> QED
        BY <3>1, <4>2, <4>4, <4>5
    <3>5. CASE m \notin DOMAIN s.send_queue
      <4>1. r.ended[m] = s.ended[m]
        BY <1>7, <2>1, <3>5, Zenon
      <4>2. \A t \in ChunksOf(r, m) : t \in ChunksOf(s, m) /\ (IsLast(r, t) <=> IsLast(s, t))
        BY <1>4, <1>5, <3>5, Zenon DEF ChunksOf
      <4> QED
        BY <2>1, <3>1, <3>3, <4>1, <4>2, Zenon
    <3> QED
      BY <3>4, <3>5
  <2> QED
    BY <2>2, <2>3, Zenon
<1>15. Packed(r)
  <2>1. ASSUME NEW p \in r.out
        PROVE  /\ p.tsns \subseteq 1..r.highest_tsn /\ p.forward_tsn \in 0..r.highest_tsn
               /\ \A t \in 1..p.forward_tsn :
                    t <= r.last_cumulative_tsn_ack \/ (t \in Tsns(r) /\ GivenUp(r, t))
    BY <1>1, <1>2, <1>3, <1>4, <1>9 DEF Packed
  <2> QED
    BY <2>1, Zenon DEF Packed
<1>16. Pending(r) => Pending(s)
  BY <1>4, <1>5 DEF Pending
<1>17. Fresh(r)
  <2> SUFFICES ASSUME NEW m \in MessageIds, m \notin 1..s.accepted
               PROVE  r.ended[m] = <<>> /\ m \notin s.given_up
    BY <1>1 DEF Fresh
  <2>1. m \notin ms
    BY <1>6, <1>9, Zenon DEF Owned
  <2>2. r.ended[m] = s.ended[m]
    BY <1>7, <1>9, <2>1 DEF Over
  <2> QED
    BY <1>9, <2>2 DEF Fresh
<1> QED
  BY <1>1, <1>10, <1>11, <1>13, <1>14, <1>15, <1>16, <1>17 DEF Good

\* The fields that OutstandingData's own bookkeeping is about.
CoreFields == {"last_cumulative_tsn_ack", "highest_tsn", "outstanding_data",
               "unacked_payload_bytes", "unacked_packet_bytes", "unacked_items",
               "to_be_fast_retransmitted", "to_be_retransmitted"}

LEMMA SaneFrame ==
  ASSUME NEW s, Sane(s), NEW r, NEW F, F \cap CoreFields = {}, Frame(r, s, F)
  PROVE  /\ Sane(r) /\ r.outstanding_data = s.outstanding_data /\ r.highest_tsn = s.highest_tsn
         /\ r.last_cumulative_tsn_ack = s.last_cumulative_tsn_ack
         /\ r.to_be_fast_retransmitted = s.to_be_fast_retransmitted
         /\ r.to_be_retransmitted = s.to_be_retransmitted
         /\ r.unacked_payload_bytes = s.unacked_payload_bytes
         /\ r.unacked_packet_bytes = s.unacked_packet_bytes
         /\ r.unacked_items = s.unacked_items
<1>1. Shape(s) /\ Counted(s) /\ Marked(s)
  BY DEF Sane
<1>2. CoreFields \subseteq DOMAIN s /\ QueueFields \subseteq DOMAIN s
  BY <1>1 DEF Shape, CoreFields, QueueFields
<1>3. \A f \in CoreFields : r[f] = s[f]
  BY <1>2 DEF Frame
<1>4. /\ r.outstanding_data = s.outstanding_data /\ r.highest_tsn = s.highest_tsn
      /\ r.last_cumulative_tsn_ack = s.last_cumulative_tsn_ack
      /\ r.to_be_fast_retransmitted = s.to_be_fast_retransmitted
      /\ r.to_be_retransmitted = s.to_be_retransmitted
      /\ r.unacked_payload_bytes = s.unacked_payload_bytes
      /\ r.unacked_packet_bytes = s.unacked_packet_bytes
      /\ r.unacked_items = s.unacked_items
  BY <1>3 DEF CoreFields
<1>5. Tsns(r) = Tsns(s) /\ IsRecord(r) /\ QueueFields \subseteq DOMAIN r
  BY <1>2, <1>4 DEF Tsns, Frame
<1>6. Shape(r)
  BY <1>1, <1>4, <1>5 DEF Shape
<1>7. Unacked(r) = Unacked(s)
  BY <1>4, <1>5 DEF Unacked
<1>8. Counted(r)
  BY <1>1, <1>4, <1>6, <1>7, Stay, Zenon
<1>9. Marked(r)
  BY <1>1, <1>4, <1>5, Zenon DEF Marked
<1> QED
  BY <1>4, <1>6, <1>8, <1>9, Zenon DEF Sane

ControlFields == {"cwnd", "rwnd", "ssthresh", "partial_bytes_acked", "fast_recovery_exit_tsn",
                  "t3_rtx", "tx_error_counter", "limit_forward_tsn", "aborted"}

\* Windows and timers do not touch the messages.
LEMMA GoodControl ==
  ASSUME NEW s, NEW e, Good(s, e), NEW r, Frame(r, s, ControlFields), Typed(r)
  PROVE  /\ Good(r, e) /\ (Pending(r) <=> Pending(s)) /\ Tsns(r) = Tsns(s)
         /\ r.to_be_fast_retransmitted = s.to_be_fast_retransmitted
         /\ r.last_cumulative_tsn_ack = s.last_cumulative_tsn_ack
         /\ r.highest_tsn = s.highest_tsn
<1>1. /\ Sane(s) /\ Owned(s, e) /\ Whole(s) /\ Waiting(s) /\ Over(s, e) /\ Fresh(s)
      /\ Packed(s) /\ Typed(s)
  BY DEF Good
<1>2. ControlFields \cap CoreFields = {}
  BY DEF ControlFields, CoreFields
<1>3. /\ Sane(r) /\ r.outstanding_data = s.outstanding_data /\ r.highest_tsn = s.highest_tsn
      /\ r.last_cumulative_tsn_ack = s.last_cumulative_tsn_ack
      /\ r.to_be_fast_retransmitted = s.to_be_fast_retransmitted
  BY <1>1, <1>2, SaneFrame
<1>4. /\ r.assigned = s.assigned /\ r.given_up = s.given_up /\ r.accepted = s.accepted
      /\ r.out = s.out /\ r.send_queue = s.send_queue /\ r.ended = s.ended
  BY <1>1, Zenon DEF Frame, Typed, AllFields, QueueFields, ControlFields
<1>5. /\ Tsns(r) = Tsns(s) /\ \A m : ChunksOf(r, m) = ChunksOf(s, m)
      /\ \A t : Id(r, t) = Id(s, t) /\ GivenUp(r, t) = GivenUp(s, t) /\ IsLast(r, t) = IsLast(s, t)
  BY <1>3, Zenon DEF Tsns, ChunksOf, Id, GivenUp, IsLast
<1>6. Owned(r, e)
  BY <1>1, <1>3, <1>4, <1>5, Zenon DEF Owned
<1>7. Whole(r)
  BY <1>1, <1>5, Zenon DEF Whole
<1>8. Waiting(r)
  BY <1>1, <1>4, <1>5, Zenon DEF Waiting
<1>9. Over(r, e)
  BY <1>1, <1>4, <1>5, Zenon DEF Over
<1>10. Packed(r)
  BY <1>1, <1>3, <1>4, <1>5 DEF Packed
<1>11. Pending(r) <=> Pending(s)
  BY <1>5 DEF Pending
<1>12. Fresh(r)
  BY <1>1, <1>4 DEF Fresh
<1> QED
  BY <1>3, <1>5, <1>6, <1>7, <1>8, <1>9, <1>10, <1>11, <1>12, Zenon DEF Good

\* Removing what is acknowledged ends messages.
LEMMA GoodRemoves ==
  ASSUME NEW s, NEW e, Good(s, e), NEW r, Sane(r), NEW cum,
         cum \in s.last_cumulative_tsn_ack..Len(s.assigned),
         Frame(r, s, RemoveFields),
         Removes(r, s, cum), r.last_cumulative_tsn_ack = cum, Remains(r, s, cum)
  PROVE  Good(r, e)
<1>1. /\ Sane(s) /\ Owned(s, e) /\ Whole(s) /\ Waiting(s) /\ Over(s, e) /\ Fresh(s)
      /\ Packed(s) /\ Typed(s)
  BY DEF Good
<1>2. /\ r.assigned = s.assigned /\ r.given_up = s.given_up /\ r.accepted = s.accepted
      /\ r.out = s.out /\ r.send_queue = s.send_queue /\ r.highest_tsn = s.highest_tsn
      /\ Typed(r)
  BY <1>1, Zenon DEF Frame, Typed, AllFields, QueueFields, RemoveFields
<1>3. /\ \A t \in Tsns(r) : /\ t \in Tsns(s) /\ t > cum
                            /\ Id(r, t) = Id(s, t) /\ GivenUp(r, t) = GivenUp(s, t)
                            /\ IsLast(r, t) = IsLast(s, t)
      /\ \A m : \A t \in ChunksOf(r, m) : t \in ChunksOf(s, m) /\ t > cum
  BY SMTT(20) DEF Remains, Id, GivenUp, IsLast, ChunksOf
<1>4. /\ s.highest_tsn \in Nat /\ s.last_cumulative_tsn_ack \in Nat /\ cum \in Nat
      /\ s.last_cumulative_tsn_ack <= cum /\ cum <= Len(s.assigned) /\ Len(s.assigned) \in Nat
      /\ Tsns(s) = (s.last_cumulative_tsn_ack + 1)..s.highest_tsn
      /\ Tsns(r) = (cum + 1)..s.highest_tsn
  BY <1>1, <1>2, LenIs, SMTT(20) DEF Sane, Shape, Owned
<1>5. DOMAIN s.ended = MessageIds /\ 1..s.accepted \subseteq MessageIds
  BY <1>1, AcceptedIds, Zenon DEF Over
\* What the end of a message m means.
<1>6. ASSUME NEW m \in MessageIds
      PROVE  \/ r.ended[m] = s.ended[m]
             \/ /\ s.ended[m] = <<>> /\ ChunksOf(r, m) = {} /\ m \notin DOMAIN s.send_queue
                /\ m \in 1..s.accepted
                /\ \/ r.ended[m] = <<"Expired">>
                   \/ r.ended[m] = <<"Delivered">> /\ m \notin s.given_up
  <2>1. CASE r.ended[m] = s.ended[m]
    BY <2>1, Zenon
  <2>2. CASE r.ended[m] # s.ended[m]
    <3>1. PICK t \in Tsns(s) :
            /\ t <= cum
            /\ s.outstanding_data[t].message_id = m /\ s.outstanding_data[t].lifecycle_id
            /\ r.ended[m] = Append(s.ended[m], IF is_abandoned(s.outstanding_data[t])
                                               THEN "Expired" ELSE "Delivered")
      BY <1>5, <2>2, Zenon DEF Removes
    <3>2. /\ t \in ChunksOf(s, m) /\ IsLast(s, t) /\ Id(s, t) = m
          /\ r.ended[m] = Append(s.ended[m], IF GivenUp(s, t) THEN "Expired" ELSE "Delivered")
      BY <3>1, Zenon DEF ChunksOf, IsLast, Id, GivenUp
    <3>3. s.ended[m] = <<>>
      BY <1>1, <3>2, Zenon DEF Over
    <3>4. \A u \in ChunksOf(r, m) : FALSE
      <4> TAKE u \in ChunksOf(r, m)
      <4>1. u \in Tsns(s) /\ Id(s, u) = m /\ u > cum /\ u \in Nat /\ t \in Nat
        BY <1>3, <1>4 DEF ChunksOf
      <4>2. u <= t
        BY <1>1, <3>2, <4>1, Zenon DEF Whole
      <4> QED
        BY <1>4, <3>1, <4>1, <4>2
    <3>5. m \notin DOMAIN s.send_queue /\ m \in 1..s.accepted
      BY <1>1, <3>2, Zenon DEF Waiting, Owned, ChunksOf
    <3>6. CASE GivenUp(s, t)
      <4>1. r.ended[m] = Append(<<>>, "Expired")
        BY <3>2, <3>3, <3>6, Zenon
      <4> QED
        BY <3>3, <3>4, <3>5, <4>1
    <3>7. CASE ~GivenUp(s, t)
      <4>1. r.ended[m] = Append(<<>>, "Delivered")
        BY <3>2, <3>3, <3>7, Zenon
      <4>2. m \notin s.given_up
        BY <1>1, <3>2, <3>7, Zenon DEF Over
      <4> QED
        BY <3>3, <3>4, <3>5, <4>1, <4>2, SMTT(20)
    <3> QED
      BY <3>6, <3>7, Zenon
  <2> QED
    BY <2>1, <2>2, Zenon
<1>7. Owned(r, e)
  BY <1>1, <1>2, <1>3, <1>4, Zenon DEF Owned
<1>8. Whole(r)
  BY <1>1, <1>3, Zenon DEF Whole
<1>9. Waiting(r)
  <2> SUFFICES ASSUME NEW m \in DOMAIN s.send_queue
               PROVE  /\ m \in 1..s.accepted /\ s.send_queue[m] \in 0..(Messages[m].size - 1)
                      /\ r.ended[m] = <<>> /\ m \notin s.given_up
                      /\ \A t \in ChunksOf(r, m) : /\ s.send_queue[m] > 0
                                                   /\ ~IsLast(r, t) /\ ~GivenUp(r, t)
    BY <1>2, SMTT(20) DEF Waiting
  <2>1. m \in 1..s.accepted /\ m \in MessageIds /\ s.ended[m] = <<>>
    BY <1>1, <1>5, Zenon DEF Waiting
  <2>2. r.ended[m] = <<>>
    BY <1>6, <2>1
  <2>3. \A t \in ChunksOf(r, m) : t \in ChunksOf(s, m) /\ t \in Tsns(r)
    BY <1>3, Zenon DEF ChunksOf
  <2>4. /\ s.send_queue[m] \in 0..(Messages[m].size - 1) /\ m \notin s.given_up
        /\ \A t \in ChunksOf(s, m) : /\ s.send_queue[m] > 0
                                     /\ ~IsLast(s, t) /\ ~GivenUp(s, t)
    BY <1>1, Zenon DEF Waiting
  <2>5. \A t \in ChunksOf(r, m) : /\ s.send_queue[m] > 0
                                  /\ ~IsLast(r, t) /\ ~GivenUp(r, t)
    BY <1>3, <2>3, <2>4, Zenon
  <2> QED
    BY <2>1, <2>2, <2>4, <2>5, Zenon
<1>10. Over(r, e)
  <2> SUFFICES ASSUME NEW m \in MessageIds
               PROVE  /\ r.ended[m] \in {<<>>, <<"Expired">>, <<"Delivered">>}
                      /\ r.ended[m] = e[m] \/ e[m] = <<>>
                      /\ r.ended[m] = <<"Delivered">> => ChunksOf(r, m) = {} /\ m \notin r.given_up
                      /\ r.ended[m] = <<"Expired">> \/ m \in r.given_up =>
                           \A t \in ChunksOf(r, m) : GivenUp(r, t)
                      /\ r.ended[m] = <<"Expired">> => \A t \in ChunksOf(r, m) : ~IsLast(r, t)
    BY <1>5, SMTT(20) DEF Over, Removes
  <2>1. \A t \in ChunksOf(r, m) : t \in ChunksOf(s, m) /\ t \in Tsns(r)
    BY <1>3, Zenon DEF ChunksOf
  <2>2. CASE r.ended[m] = s.ended[m]
    <3>1. /\ s.ended[m] \in {<<>>, <<"Expired">>, <<"Delivered">>}
          /\ s.ended[m] = e[m] \/ e[m] = <<>>
          /\ s.ended[m] = <<"Delivered">> => ChunksOf(s, m) = {} /\ m \notin s.given_up
          /\ s.ended[m] = <<"Expired">> \/ m \in s.given_up =>
               \A t \in ChunksOf(s, m) : GivenUp(s, t)
          /\ s.ended[m] = <<"Expired">> => \A t \in ChunksOf(s, m) : ~IsLast(s, t)
      BY <1>1, Zenon DEF Over
    <3> QED
      BY <1>2, <1>3, <2>1, <2>2, <3>1, Zenon
  <2>3. CASE r.ended[m] # s.ended[m]
    <3>1. /\ s.ended[m] = <<>> /\ ChunksOf(r, m) = {}
          /\ \/ r.ended[m] = <<"Expired">>
             \/ r.ended[m] = <<"Delivered">> /\ m \notin s.given_up
      BY <1>6, <2>3, SMTT(20)
    <3>2. e[m] = <<>>
      BY <1>1, <3>1, Zenon DEF Over
    <3>3. CASE r.ended[m] = <<"Expired">>
      BY <3>1, <3>2, <3>3
    <3>4. CASE r.ended[m] = <<"Delivered">> /\ m \notin s.given_up
      BY <1>2, <3>1, <3>2, <3>4, Zenon
    <3> QED
      BY <3>1, <3>3, <3>4, Zenon
  <2> QED
    BY <2>2, <2>3, Zenon
<1>11. Packed(r)
  <2> SUFFICES ASSUME NEW p \in s.out, NEW t \in 1..p.forward_tsn
               PROVE  t <= cum \/ (t \in Tsns(r) /\ GivenUp(r, t))
    BY <1>1, <1>2, Zenon DEF Packed
  <2>1. t <= s.last_cumulative_tsn_ack \/ (t \in Tsns(s) /\ GivenUp(s, t))
    BY <1>1, Zenon DEF Packed
  <2>2. t \in Int
    OBVIOUS
  <2> QED
    BY <1>3, <1>4, <2>1, <2>2, SMTT(20)
<1>12. Fresh(r)
  BY <1>1, <1>2, <1>6, Zenon DEF Fresh
<1> QED
  BY <1>2, <1>7, <1>8, <1>9, <1>10, <1>11, <1>12, Zenon DEF Good

------------------------------------------------------------------------------
(* New chunks.                                                             *)

\* Messages that expire before their first fragment is sent.
LEMMA GoodDropExpired ==
  ASSUME NEW s, NEW e, Good(s, e)
  PROVE  LET r == DropExpired(s, Dropped(s))
         IN  /\ Good(r, e) /\ (Pending(r) <=> Pending(s))
             /\ r.to_be_fast_retransmitted = s.to_be_fast_retransmitted
             /\ r.t3_rtx = s.t3_rtx /\ r.highest_tsn = s.highest_tsn
             /\ Frame(r, s, {"send_queue", "ended"})
<1> DEFINE D == Dropped(s)
           sq == Restrict(s.send_queue, DOMAIN s.send_queue \ D)
           en == [m \in DOMAIN s.ended |->
                    IF m \in D THEN Append(s.ended[m], "Expired") ELSE s.ended[m]]
           r == DropExpired(s, D)
<1>1. /\ Sane(s) /\ Owned(s, e) /\ Whole(s) /\ Waiting(s) /\ Over(s, e) /\ Fresh(s)
      /\ Packed(s) /\ Typed(s)
  BY DEF Good
<1>2. r = [s EXCEPT !.send_queue = sq, !.ended = en]
  BY DEF DropExpired
<1>3. /\ DOMAIN sq = DOMAIN s.send_queue \ D
      /\ \A m \in DOMAIN sq : sq[m] = s.send_queue[m]
  BY Zenon DEF Restrict
<1>4. DOMAIN s.ended = MessageIds /\ 1..s.accepted \subseteq MessageIds
  BY <1>1, AcceptedIds DEF Over
<1>5. /\ DOMAIN en = MessageIds
      /\ \A m \in MessageIds : en[m] = IF m \in D THEN Append(s.ended[m], "Expired")
                                       ELSE s.ended[m]
  BY <1>4
<1>6. \A m \in D : m \in DOMAIN s.send_queue /\ ~(s.send_queue[m] > 0)
  <2> TAKE m \in D
  <2>1. m \in DOMAIN s.send_queue
    BY Zenon DEF Dropped
  <2>2. m \in 1..s.accepted /\ s.accepted \in Nat
    BY <1>1, <2>1, AcceptedIds, Zenon DEF Waiting
  <2>3. m <= m
    BY <2>2
  <2>4. ~NotDropped(s, m)
    BY <2>1, <2>3 DEF Dropped
  <2> QED
    BY <2>1, <2>4, Zenon DEF NotDropped
<1> HIDE DEF D, sq, en
<1>7. /\ Frame(r, s, {"send_queue", "ended"}) /\ r.send_queue = sq /\ r.ended = en
  BY <1>1, <1>2, Zenon DEF Frame, Sane, Shape, IsRecord, QueueFields
<1> HIDE DEF r
<1>8. /\ Sane(r) /\ r.outstanding_data = s.outstanding_data /\ r.highest_tsn = s.highest_tsn
      /\ r.last_cumulative_tsn_ack = s.last_cumulative_tsn_ack
      /\ r.to_be_fast_retransmitted = s.to_be_fast_retransmitted
  <2>1. {"send_queue", "ended"} \cap CoreFields = {}
    BY DEF CoreFields
  <2> QED
    BY <1>1, <1>7, <2>1, SaneFrame, Zenon
<1>9. /\ r.assigned = s.assigned /\ r.given_up = s.given_up /\ r.accepted = s.accepted
      /\ r.out = s.out /\ r.t3_rtx = s.t3_rtx /\ Typed(r)
  BY <1>1, <1>7, Zenon DEF Frame, Typed, AllFields, QueueFields
<1>10. /\ Tsns(r) = Tsns(s) /\ \A m : ChunksOf(r, m) = ChunksOf(s, m)
       /\ \A t : Id(r, t) = Id(s, t) /\ GivenUp(r, t) = GivenUp(s, t) /\ IsLast(r, t) = IsLast(s, t)
  BY <1>8, SMTT(20) DEF Tsns, ChunksOf, Id, GivenUp, IsLast
<1>11. Owned(r, e)
  BY <1>1, <1>8, <1>9, <1>10, Zenon DEF Owned
<1>12. Whole(r)
  BY <1>1, <1>10, Zenon DEF Whole
<1>13. Waiting(r)
  <2> SUFFICES ASSUME NEW m \in DOMAIN sq
               PROVE  /\ m \in 1..s.accepted /\ sq[m] \in 0..(Messages[m].size - 1)
                      /\ en[m] = <<>> /\ m \notin s.given_up
                      /\ \A t \in ChunksOf(s, m) : /\ sq[m] > 0
                                                   /\ ~IsLast(s, t) /\ ~GivenUp(s, t)
    BY <1>7, <1>9, <1>10, Zenon DEF Waiting
  <2>1. m \in DOMAIN s.send_queue /\ m \notin D /\ sq[m] = s.send_queue[m]
    BY <1>3, Zenon
  <2> QED
    BY <1>1, <1>4, <1>5, <2>1, Zenon DEF Waiting
<1>14. Over(r, e)
  <2> SUFFICES ASSUME NEW m \in MessageIds
               PROVE  /\ en[m] \in {<<>>, <<"Expired">>, <<"Delivered">>}
                      /\ en[m] = e[m] \/ e[m] = <<>>
                      /\ en[m] = <<"Delivered">> => ChunksOf(s, m) = {} /\ m \notin s.given_up
                      /\ en[m] = <<"Expired">> \/ m \in s.given_up =>
                           \A t \in ChunksOf(s, m) : GivenUp(s, t)
                      /\ en[m] = <<"Expired">> => \A t \in ChunksOf(s, m) : ~IsLast(s, t)
    BY <1>5, <1>7, <1>9, <1>10, ZenonT(30) DEF Over
  <2>1. CASE m \notin D
    BY <1>1, <1>5, <2>1, Zenon DEF Over
  <2>2. CASE m \in D
    <3>1. s.ended[m] = <<>> /\ ChunksOf(s, m) = {}
      BY <1>1, <1>6, <2>2, Zenon DEF Waiting
    <3>2. en[m] = Append(<<>>, "Expired")
      BY <1>5, <2>2, <3>1
    <3>3. en[m] = <<"Expired">>
      BY <3>2, SMTT(20)
    <3>4. e[m] = <<>>
      BY <1>1, <3>1, Zenon DEF Over
    <3> QED
      BY <3>1, <3>3, <3>4, SMTT(20)
  <2> QED
    BY <2>1, <2>2, SMTT(20)
<1>15. Packed(r)
  BY <1>1, <1>8, <1>9, <1>10, Zenon DEF Packed
<1>16. Pending(r) <=> Pending(s)
  BY <1>10, Zenon DEF Pending
<1>17. Fresh(r)
  <2>1. \A m \in D : m \in 1..s.accepted
    BY <1>1, <1>6, Zenon DEF Waiting
  <2> QED
    BY <1>1, <1>5, <1>7, <1>9, <2>1, Zenon DEF Fresh
<1> QED
  BY <1>7, <1>8, <1>9, <1>11, <1>12, <1>13, <1>14, <1>15, <1>16, <1>17, Zenon DEF Good, r, D

\* The next fragment of m leaves the send queue and gets a TSN.
LEMMA GoodInserts ==
  ASSUME NEW s, NEW e, Good(s, e), NEW m \in DOMAIN s.send_queue, NEW last \in BOOLEAN,
         NEW r, Sane(r), Typed(r), Inserts(r, s, m, last),
         r.assigned = s.assigned, r.given_up = s.given_up, r.accepted = s.accepted,
         r.out = s.out, r.ended = s.ended,
         DOMAIN r.send_queue = IF last THEN DOMAIN s.send_queue \ {m} ELSE DOMAIN s.send_queue,
         \A k \in DOMAIN s.send_queue \ {m} : r.send_queue[k] = s.send_queue[k],
         ~last => r.send_queue[m] \in 1..(Messages[m].size - 1)
  PROVE  Good(r, e)
<1> DEFINE tsn == s.highest_tsn + 1
<1>1. /\ Sane(s) /\ Owned(s, e) /\ Whole(s) /\ Waiting(s) /\ Over(s, e) /\ Fresh(s)
      /\ Packed(s) /\ Typed(s)
  BY SMTT(20) DEF Good
<1>2. /\ s.highest_tsn \in Nat /\ s.last_cumulative_tsn_ack \in Nat
      /\ Tsns(s) = (s.last_cumulative_tsn_ack + 1)..s.highest_tsn
      /\ Len(s.assigned) \in Nat /\ Len(s.assigned) <= s.highest_tsn
  BY <1>1, LenIs, Zenon DEF Sane, Shape, Owned
<1>3. /\ r.last_cumulative_tsn_ack = s.last_cumulative_tsn_ack /\ r.highest_tsn = tsn
      /\ Tsns(r) = Tsns(s) \cup {tsn} /\ tsn \notin Tsns(s)
      /\ \A t \in Tsns(s) : t < tsn
  BY <1>2, SMTT(20) DEF Inserts
<1>4. /\ \A t \in Tsns(s) : /\ Id(r, t) = Id(s, t) /\ GivenUp(r, t) = GivenUp(s, t)
                            /\ IsLast(r, t) = IsLast(s, t)
      /\ Id(r, tsn) = m /\ IsLast(r, tsn) = last /\ ~GivenUp(r, tsn)
  BY Zenon DEF Inserts, Id, GivenUp, IsLast
<1>5. /\ m \in 1..s.accepted /\ m \in MessageIds /\ s.ended[m] = <<>> /\ m \notin s.given_up
      /\ \A t \in ChunksOf(s, m) : ~IsLast(s, t) /\ ~GivenUp(s, t)
  BY <1>1, AcceptedIds, Zenon DEF Waiting
<1>6. /\ \A k : k # m => ChunksOf(r, k) = ChunksOf(s, k)
      /\ ChunksOf(r, m) = ChunksOf(s, m) \cup {tsn}
  <2> HIDE DEF tsn
  <2> QED
    BY <1>3, <1>4, SMTT(20) DEF ChunksOf
<1>7. Owned(r, e)
  <2>1. e[m] = <<>>
    BY <1>1, <1>5, Zenon DEF Over
  <2>2. tsn > Len(s.assigned) /\ Len(s.assigned) <= tsn /\ ~(tsn <= Len(s.assigned))
    BY <1>2, SMTT(20)
  <2> HIDE DEF tsn
  <2> QED
    BY <1>1, <1>3, <1>4, <1>5, <2>1, <2>2, Zenon DEF Owned
<1>8. Whole(r)
  <2> SUFFICES ASSUME NEW t \in Tsns(r), NEW u \in Tsns(r), Id(r, t) = Id(r, u)
               PROVE  /\ GivenUp(r, t) => GivenUp(r, u)
                      /\ IsLast(r, t) => u <= t
    BY SMTT(20) DEF Whole
  <2>1. CASE t \in Tsns(s) /\ u \in Tsns(s)
    BY <1>1, <1>4, <2>1, Zenon DEF Whole
  <2>2. CASE t \in Tsns(s) /\ u = tsn
    <3>1. t \in ChunksOf(s, m)
      BY <1>4, <2>2, Zenon DEF ChunksOf
    <3> QED
      BY <1>4, <1>5, <2>2, <3>1, Zenon
  <2>3. CASE t = tsn
    <3>1. u <= tsn
      BY <1>2, <1>3, SMTT(20)
    <3> QED
      BY <1>4, <2>3, <3>1, Zenon
  <2> QED
    BY <1>3, <2>1, <2>2, <2>3, Zenon
<1> HIDE DEF tsn
<1>9. Waiting(r)
  <2> SUFFICES ASSUME NEW k \in DOMAIN r.send_queue
               PROVE  /\ k \in 1..s.accepted /\ r.send_queue[k] \in 0..(Messages[k].size - 1)
                      /\ s.ended[k] = <<>> /\ k \notin s.given_up
                      /\ \A t \in ChunksOf(r, k) : /\ r.send_queue[k] > 0
                                                   /\ ~IsLast(r, t) /\ ~GivenUp(r, t)
    BY SMTT(20) DEF Waiting
  <2>1. CASE k # m
    <3>1. k \in DOMAIN s.send_queue /\ r.send_queue[k] = s.send_queue[k]
      BY <2>1, Zenon
    <3>2. ChunksOf(r, k) = ChunksOf(s, k) /\ ChunksOf(s, k) \subseteq Tsns(s)
      BY <1>6, <2>1, Zenon DEF ChunksOf
    <3> QED
      BY <1>1, <1>4, <3>1, <3>2, ZenonT(30) DEF Waiting
  <2>2. CASE k = m
    <3>1. ~last
      BY <2>2, SMTT(20)
    <3>2. r.send_queue[m] \in 1..(Messages[m].size - 1) /\ Messages[m].size \in Nat
      BY <1>1, <1>5, <3>1, AcceptedIds, Zenon
    <3>3. r.send_queue[m] > 0 /\ r.send_queue[m] \in 0..(Messages[m].size - 1)
      BY <3>2, SMTT(20)
    <3>4. \A t \in ChunksOf(r, m) : ~IsLast(r, t) /\ ~GivenUp(r, t)
      <4> TAKE t \in ChunksOf(r, m)
      <4>1. CASE t = tsn
        BY <1>4, <3>1, <4>1, Zenon
      <4>2. CASE t \in ChunksOf(s, m)
        BY <1>4, <1>5, <4>2, Zenon DEF ChunksOf
      <4> QED
        BY <1>6, <4>1, <4>2
    <3> QED
      BY <1>5, <2>2, <3>3, <3>4, Zenon
  <2> QED
    BY <2>1, <2>2, Zenon
<1>10. Over(r, e)
  <2> SUFFICES ASSUME NEW k \in MessageIds
               PROVE  /\ s.ended[k] \in {<<>>, <<"Expired">>, <<"Delivered">>}
                      /\ s.ended[k] = e[k] \/ e[k] = <<>>
                      /\ s.ended[k] = <<"Delivered">> => ChunksOf(r, k) = {} /\ k \notin s.given_up
                      /\ s.ended[k] = <<"Expired">> \/ k \in s.given_up =>
                           \A t \in ChunksOf(r, k) : GivenUp(r, t)
                      /\ s.ended[k] = <<"Expired">> => \A t \in ChunksOf(r, k) : ~IsLast(r, t)
    BY <1>1, Zenon DEF Over
  <2>1. CASE k # m
    <3>1. ChunksOf(r, k) = ChunksOf(s, k)
          /\ \A t \in ChunksOf(s, k) : GivenUp(r, t) = GivenUp(s, t) /\ IsLast(r, t) = IsLast(s, t)
      BY <1>4, <1>6, <2>1, Zenon DEF ChunksOf
    <3> QED
      BY <1>1, <3>1, Zenon DEF Over
  <2>2. CASE k = m
    <3>1. s.ended[m] # <<"Expired">> /\ s.ended[m] # <<"Delivered">> /\ m \notin s.given_up
      BY <1>5
    <3> QED
      BY <1>1, <2>2, <3>1, Zenon DEF Over
  <2> QED
    BY <2>1, <2>2, Zenon
<1>11. Packed(r)
  <2> SUFFICES ASSUME NEW p \in s.out
               PROVE  /\ p.tsns \subseteq 1..tsn /\ p.forward_tsn \in 0..tsn
                      /\ \A t \in 1..p.forward_tsn :
                           t <= s.last_cumulative_tsn_ack \/ (t \in Tsns(r) /\ GivenUp(r, t))
    BY <1>3, Zenon DEF Packed
  <2>1. tsn \in Nat /\ s.highest_tsn <= tsn
    BY <1>2 DEF tsn
  <2>2. 1..s.highest_tsn \subseteq 1..tsn /\ 0..s.highest_tsn \subseteq 0..tsn
    BY <1>2, <2>1
  <2> QED
    BY <1>1, <1>3, <1>4, <2>2, Zenon DEF Packed
<1>12. Fresh(r)
  BY <1>1 DEF Fresh
<1> QED
  BY <1>7, <1>8, <1>9, <1>10, <1>11, <1>12, Zenon DEF Good

LEMMA Constants ==
  /\ SizeLimit \in Nat \ {0} /\ Mtu \in Nat /\ PacketHeader \in Nat
  /\ ForwardTsnSize \in Nat /\ cwnd_mtus_min \in Nat /\ cwnd_mtus_initial \in Nat
  /\ max_burst \in Nat /\ InitialRwnd \in Nat /\ max_retransmissions \in Nat
  /\ data_chunk_header_size \in Nat
  BY QueueAssumption, HeaderAssumption

LEMMA FragmentIs ==
  ASSUME NEW s, Typed(s), NEW m \in 1..s.accepted, NEW offset \in 0..(Messages[m].size - 1),
         NEW max_size \in Nat \ {0}
  PROVE  LET data == Fragment(m, offset, max_size)
         IN  /\ IsData(data) /\ data.is_end \in BOOLEAN /\ data.size <= max_size
             /\ ~data.is_end => offset + data.size \in 1..(Messages[m].size - 1)
<1> DEFINE left == Messages[m].size - offset
           size == Min({max_size, left})
<1>1. Messages[m].size \in Nat \ {0}
  BY AcceptedIds
<1>2. left \in Nat \ {0} /\ offset \in Nat
  BY <1>1
<1>3. size = IF max_size <= left THEN max_size ELSE left
  <2> HIDE DEF left
  <2> QED
    BY <1>2, MinOfTwo
<1>4. Fragment(m, offset, max_size) = [size |-> size, is_beginning |-> offset = 0, is_end |-> size = left]
  BY DEF Fragment
<1>5. size \in Nat \ {0} /\ size <= max_size
      /\ (size # left => offset + size \in 1..(Messages[m].size - 1))
  <2> HIDE DEF size
  <2> QED
    BY <1>1, <1>2, <1>3
<1> HIDE DEF size, left
<1> DEFINE data == Fragment(m, offset, max_size)
<1>6. /\ DOMAIN data = {"size", "is_beginning", "is_end"} /\ IsRecord(data)
      /\ data.size = size /\ data.is_end = (size = left)
  BY <1>4 DEF IsRecord
<1> HIDE DEF data
<1>7. IsData(data)
  BY <1>5, <1>6, Zenon DEF IsData
<1> QED
  BY <1>5, <1>6, <1>7, Zenon DEF data

\* What no sending changes: what is given up stays given up.
Kept(r, b) ==
  /\ r.last_cumulative_tsn_ack = b.last_cumulative_tsn_ack
  /\ r.assigned = b.assigned /\ r.given_up = b.given_up
  /\ r.accepted = b.accepted
  /\ \A t \in Tsns(b) : GivenUp(b, t) => t \in Tsns(r) /\ GivenUp(r, t)

LEMMA KeptFrame ==
  ASSUME NEW b, NEW s, Typed(s), Kept(s, b), NEW r,
         Frame(r, s, ControlFields \cup {"send_queue", "ended", "out"})
  PROVE  Kept(r, b)
<1>1. /\ r.last_cumulative_tsn_ack = s.last_cumulative_tsn_ack
      /\ r.assigned = s.assigned /\ r.given_up = s.given_up
      /\ r.accepted = s.accepted
      /\ r.outstanding_data = s.outstanding_data
  BY DEF Frame, Typed, AllFields, QueueFields, ControlFields
<1> QED
  BY <1>1 DEF Kept, Tsns, GivenUp

LEMMA KeptAbandons ==
  ASSUME NEW b, NEW s, Typed(s), Sane(s), Kept(s, b), NEW r, Sane(r),
         Frame(r, s, NackFields), NEW ms, Abandons(r, s, ms)
  PROVE  Kept(r, b)
<1>1. /\ r.last_cumulative_tsn_ack = s.last_cumulative_tsn_ack
      /\ r.assigned = s.assigned /\ r.given_up = s.given_up
      /\ r.accepted = s.accepted
  BY QueueFrame
<1>2. Tsns(s) \subseteq Tsns(r)
  BY <1>1, SMTT(20) DEF Abandons, Sane, Shape
<1>3. \A t \in Tsns(s) : GivenUp(s, t) => GivenUp(r, t)
  BY Zenon DEF Abandons, GivenUp
<1> QED
  BY <1>1, <1>2, <1>3 DEF Kept

Handled(s, e, b) == Good(s, e) /\ s.to_be_fast_retransmitted = {} /\ Kept(s, b)

\* What is in flight may grow to the congestion window, which sending leaves as
\* it is.
Limit(s) == IF s.unacked_packet_bytes >= s.cwnd THEN s.unacked_packet_bytes ELSE s.cwnd

Flown(r, o) ==
  /\ o.unacked_packet_bytes \in Int /\ o.cwnd \in Int /\ r.unacked_packet_bytes \in Int
  /\ r.cwnd = o.cwnd /\ r.fast_recovery_exit_tsn = o.fast_recovery_exit_tsn
  /\ r.unacked_packet_bytes <= Limit(o)

LEMMA FlownSelf ==
  ASSUME NEW s, Sane(s), Typed(s)
  PROVE  Flown(s, s)
<1>1. s.unacked_packet_bytes \in Int /\ s.cwnd \in Int
  BY InFlight, Zenon DEF Typed
<1> QED
  BY <1>1 DEF Flown, Limit

LEMMA FlownThen ==
  ASSUME NEW o, NEW s, Flown(s, o), NEW r, Flown(r, s)
  PROVE  Flown(r, o)
  BY DEF Flown, Limit

LEMMA FlownSame ==
  ASSUME NEW o, NEW s, Flown(s, o), NEW r,
         r.unacked_packet_bytes = s.unacked_packet_bytes, r.cwnd = s.cwnd,
         r.fast_recovery_exit_tsn = s.fast_recovery_exit_tsn
  PROVE  Flown(r, o)
  BY Zenon DEF Flown

\* A packet that is being filled; the chunks in it have T3-rtx started later.
Filling(acc, e, b, o) ==
  /\ acc = [q |-> acc.q, max_bytes |-> acc.max_bytes, sent |-> acc.sent]
  /\ Handled(acc.q, e, b) /\ Flown(acc.q, o)
  /\ acc.q.unacked_packet_bytes + acc.max_bytes <= Limit(o)
  /\ acc.max_bytes \in Int
  /\ acc.sent \subseteq 1..acc.q.highest_tsn
  /\ Pending(acc.q) => acc.q.t3_rtx \/ acc.sent # {}

\* The flight has grown by this much.
Grown(r, s, bytes) ==
  /\ r.cwnd = s.cwnd /\ r.fast_recovery_exit_tsn = s.fast_recovery_exit_tsn
  /\ r.unacked_packet_bytes = s.unacked_packet_bytes + bytes

\* The fragment is taken from the send queue and inserted.
LEMMA FillingInsert ==
  ASSUME NEW d, NEW e, NEW b, Handled(d, e, b), NEW m \in DOMAIN d.send_queue,
         NEW max_size \in Nat \ {0}, NEW rtx, NEW sent, sent \subseteq 1..d.highest_tsn,
         Pending(d) => d.t3_rtx \/ sent # {}
  PROVE  LET data == Fragment(m, d.send_queue[m], max_size)
             p == TakeFragment(d, m, data)
             u == [p.q EXCEPT !.rwnd = (@ - data.size) % SizeLimit]
             r == Insert(u, m, data, rtx, m \in lapsed, data.is_end)
             now == IF m \in lapsed THEN sent ELSE sent \cup {p.q.highest_tsn + 1}
         IN  /\ Handled(r, e, b) /\ data.size \in Int /\ data.size <= max_size
             /\ Grown(r, d, data_chunk_header_size + data.size)
             /\ now \subseteq 1..r.highest_tsn
             /\ Pending(r) => r.t3_rtx \/ now # {}
<1> DEFINE data == Fragment(m, d.send_queue[m], max_size)
           sq == Unread(d.send_queue, m, data)
           p == TakeFragment(d, m, data)
           w == (d.rwnd - data.size) % SizeLimit
           u == [p.q EXCEPT !.rwnd = (@ - data.size) % SizeLimit]
           expired == m \in lapsed
           a == Inserted(u, m, data, rtx, data.is_end)
           r == Insert(u, m, data, rtx, expired, data.is_end)
           tsn == d.highest_tsn + 1
           now == IF m \in lapsed THEN sent ELSE sent \cup {tsn}
<1>1. Good(d, e) /\ Sane(d) /\ Typed(d) /\ Waiting(d) /\ Kept(d, b)
      /\ d.to_be_fast_retransmitted = {} /\ d.highest_tsn \in Nat
  BY Zenon DEF Handled, Good, Sane, Shape
<1>2. m \in 1..d.accepted /\ d.send_queue[m] \in 0..(Messages[m].size - 1)
  BY <1>1, Zenon DEF Waiting
<1>3. /\ IsData(data) /\ data.is_end \in BOOLEAN /\ data.size <= max_size
      /\ ~data.is_end => d.send_queue[m] + data.size \in 1..(Messages[m].size - 1)
  BY <1>1, <1>2, FragmentIs, SMTT(20)
<1>4. data.size \in Nat
  BY <1>3, Zenon DEF IsData
<1> HIDE DEF data
<1>5. /\ DOMAIN sq = IF data.is_end THEN DOMAIN d.send_queue \ {m} ELSE DOMAIN d.send_queue
      /\ \A k \in DOMAIN d.send_queue \ {m} : sq[k] = d.send_queue[k]
      /\ ~data.is_end => sq[m] \in 1..(Messages[m].size - 1)
  BY <1>3 DEF Unread, Restrict
<1>6. p.q = [d EXCEPT !.send_queue = sq]
  BY DEF TakeFragment
<1>7. w \in Int
  <2>1. SizeLimit \in Nat \ {0} /\ d.rwnd - data.size \in Int
    <3>1. SizeLimit \in Nat \ {0} /\ d.rwnd \in Int
      BY <1>1, Constants, Zenon DEF Typed
    <3> QED
      BY <1>4, <3>1
  <2> QED
    BY <2>1, Division, SMTT(20)
<1> HIDE DEF sq, p, w
<1>8. p.q.highest_tsn = d.highest_tsn /\ u = [d EXCEPT !.send_queue = sq, !.rwnd = w]
  BY <1>1, <1>6 DEF w, Typed, AllFields, QueueFields, Sane, Shape, IsRecord
<1> HIDE DEF u
<1>9. /\ Frame(u, d, {"send_queue", "rwnd"}) /\ u.send_queue = sq /\ u.rwnd = w
  BY <1>1, <1>8, Zenon DEF Frame, Typed, AllFields, QueueFields, Sane, Shape, IsRecord
<1>10. /\ Sane(u) /\ u.outstanding_data = d.outstanding_data /\ u.highest_tsn = d.highest_tsn
      /\ u.last_cumulative_tsn_ack = d.last_cumulative_tsn_ack
      /\ u.to_be_fast_retransmitted = d.to_be_fast_retransmitted
      /\ u.unacked_packet_bytes = d.unacked_packet_bytes
  <2>1. {"send_queue", "rwnd"} \cap CoreFields = {}
    BY DEF CoreFields
  <2> QED
    BY <1>1, <1>9, <2>1, SaneFrame, Zenon
<1>11. expired \in BOOLEAN
  BY SMTT(20)
<1> HIDE DEF expired
<1>12. /\ Sane(a) /\ Frame(a, u, InsertFields) /\ Inserts(a, u, m, data.is_end)
       /\ Sane(r) /\ Frame(r, a, AbandonFields)
       /\ Abandons(r, a, IF expired THEN {m} ELSE {})
       /\ r.to_be_fast_retransmitted \subseteq u.to_be_fast_retransmitted
  BY <1>3, <1>10, <1>11, InsertIs, Zenon DEF Enters
<1>13. r.unacked_packet_bytes = u.unacked_packet_bytes + (data_chunk_header_size + data.size)
  <2>1. Sane(u) /\ IsData(data)
    BY <1>3, <1>10, Zenon
  <2> DEFINE last == data.is_end
  <2> HIDE DEF last
  <2>2. Insert(u, m, data, rtx, expired, last).unacked_packet_bytes
          = u.unacked_packet_bytes + (data_chunk_header_size + data.size)
    BY <1>11, <2>1, InsertFlight
  <2> QED
    BY <2>2, Zenon DEF last
<1> HIDE DEF a, r
<1>14. /\ Typed(a) /\ a.assigned = d.assigned /\ a.given_up = d.given_up
       /\ a.accepted = d.accepted /\ a.out = d.out /\ a.ended = d.ended
       /\ a.send_queue = sq /\ a.t3_rtx = d.t3_rtx
       /\ a.last_cumulative_tsn_ack = d.last_cumulative_tsn_ack
  BY <1>1, <1>7, <1>9, <1>12, Zenon DEF Frame, InsertFields, Typed, AllFields, QueueFields
<1>15. Inserts(a, d, m, data.is_end)
  BY <1>10, <1>12, Zenon DEF Inserts, Tsns
<1>16. Good(a, e)
  BY <1>1, <1>3, <1>5, <1>12, <1>14, <1>15, GoodInserts, Zenon
<1>17. Frame(r, a, NackFields)
  BY <1>12, Zenon DEF Frame, NackFields
<1>18. Good(r, e)
  BY <1>12, <1>16, <1>17, GoodAbandons
<1>19. /\ Kept(r, b) /\ r.t3_rtx = d.t3_rtx
  <2>1. r.t3_rtx = a.t3_rtx
    BY <1>12, <1>14, <1>17, QueueFrame, Zenon
  <2>2. \A t \in Tsns(d) : t \in Tsns(a) /\ a.outstanding_data[t] = d.outstanding_data[t]
    BY <1>15, SMTT(20) DEF Inserts
  <2>3. Kept(a, b)
    BY <1>1, <1>14, <2>2, ZenonT(30) DEF Kept, GivenUp
  <2> QED
    BY <1>12, <1>14, <1>17, <2>1, <2>3, KeptAbandons, Zenon
<1>20. tsn <= r.highest_tsn /\ r.highest_tsn \in Nat
  <2>1. a.highest_tsn = tsn
    BY <1>15, Zenon DEF Inserts
  <2>2. a.highest_tsn <= r.highest_tsn
    BY <1>12, Zenon DEF Abandons
  <2>3. r.highest_tsn \in Nat
    BY <1>12, Zenon DEF Sane, Shape
  <2> QED
    BY <2>1, <2>2, <2>3, Zenon
<1>21. now \subseteq 1..r.highest_tsn
  <2>1. d.highest_tsn < tsn /\ tsn \in Nat
    BY <1>1
  <2> HIDE DEF tsn
  <2>2. \A t \in sent : t \in 1..d.highest_tsn
    OBVIOUS
  <2>3. \A t \in 1..d.highest_tsn : t \in 1..r.highest_tsn
    BY <1>1, <1>20, <2>1
  <2>4. tsn \in 1..r.highest_tsn
    BY <1>1, <1>20, <2>1
  <2> QED
    BY <2>2, <2>3, <2>4, Zenon
<1>22. Pending(r) => r.t3_rtx \/ now # {}
  <2>1. CASE expired
    <3> SUFFICES ASSUME NEW t \in Tsns(r), ~GivenUp(r, t) PROVE Pending(d)
      BY <1>19, <2>1, SMTT(20) DEF Pending, expired
    <3>1. t \in Tsns(a) /\ ~is_abandoned(a.outstanding_data[t])
          /\ a.outstanding_data[t].message_id # m
      BY <1>12, <2>1, Zenon DEF Abandons, GivenUp
    <3>2. t \in Tsns(d) /\ a.outstanding_data[t] = d.outstanding_data[t]
      BY <1>15, <3>1 DEF Inserts
    <3> QED
      BY <3>1, <3>2 DEF Pending, GivenUp
  <2>2. CASE ~expired
    BY <2>2, Zenon DEF expired
  <2> QED
    BY <2>1, <2>2
<1>23. r.to_be_fast_retransmitted = {}
  BY <1>1, <1>10, <1>12
<1>24. now = IF m \in lapsed THEN sent ELSE sent \cup {p.q.highest_tsn + 1}
  BY <1>8
<1>25. Handled(r, e, b) /\ data.size \in Int /\ data.size <= max_size
  BY <1>3, <1>4, <1>18, <1>19, <1>23 DEF Handled
<1>26. Grown(r, d, data_chunk_header_size + data.size)
  <2>1. r.cwnd = a.cwnd /\ r.fast_recovery_exit_tsn = a.fast_recovery_exit_tsn
    BY <1>12, <1>14, Zenon DEF Frame, AbandonFields, Typed, AllFields
  <2>2. a.cwnd = d.cwnd /\ a.fast_recovery_exit_tsn = d.fast_recovery_exit_tsn
    BY <1>1, <1>9, <1>12, Zenon DEF Frame, InsertFields, Typed, AllFields
  <2> QED
    BY <1>10, <1>13, <2>1, <2>2, Zenon DEF Grown
<1> HIDE DEF now
<1> QED
  BY <1>21, <1>22, <1>24, <1>25, <1>26, Zenon DEF r, u, p, data, expired

\* One round of the loop over new chunks.
LEMMA FillingSendNew ==
  ASSUME NEW acc, NEW e, NEW b, NEW o, Filling(acc, e, b, o)
  PROVE  Filling(SendNew(acc), e, b, o)
<1> DEFINE d == DropExpired(acc.q, Dropped(acc.q))
           max_size == acc.max_bytes - data_chunk_header_size
<1>1. /\ acc = [q |-> acc.q, max_bytes |-> acc.max_bytes, sent |-> acc.sent]
      /\ Handled(acc.q, e, b) /\ acc.max_bytes \in Int
      /\ acc.sent \subseteq 1..acc.q.highest_tsn
      /\ Pending(acc.q) => acc.q.t3_rtx \/ acc.sent # {}
      /\ Flown(acc.q, o) /\ acc.q.unacked_packet_bytes + acc.max_bytes <= Limit(o)
  BY DEF Filling
<1>2. CASE acc.max_bytes <= data_chunk_header_size
  <2>1. SendNew(acc) = acc
    BY <1>2 DEF SendNew
  <2> QED
    BY <2>1
<1>3. CASE ~(acc.max_bytes <= data_chunk_header_size)
  <2>1. SendNew(acc) = InsertNew(acc, ProduceFrom(d, max_size))
    BY <1>3, Zenon DEF SendNew, Produce
  <2>2. max_size \in Nat \ {0}
    BY <1>1, <1>3, Constants, SMTT(20)
  <2>3. /\ Handled(d, e, b) /\ d.highest_tsn = acc.q.highest_tsn
        /\ Pending(d) => d.t3_rtx \/ acc.sent # {}
        /\ Flown(d, o) /\ d.unacked_packet_bytes = acc.q.unacked_packet_bytes
    <3>1. /\ Good(d, e) /\ Frame(d, acc.q, {"send_queue", "ended"})
          /\ d.highest_tsn = acc.q.highest_tsn
          /\ d.to_be_fast_retransmitted = {}
          /\ Pending(d) => d.t3_rtx \/ acc.sent # {}
      BY <1>1, GoodDropExpired DEF Handled
    <3> HIDE DEF d
    <3>2. Typed(acc.q) /\ Sane(acc.q)
      BY <1>1 DEF Handled, Good
    <3>3. d.unacked_packet_bytes = acc.q.unacked_packet_bytes /\ d.cwnd = acc.q.cwnd
          /\ d.fast_recovery_exit_tsn = acc.q.fast_recovery_exit_tsn
      BY <3>1, <3>2, Zenon DEF Frame, Typed, AllFields, QueueFields
    <3>4. Flown(d, o)
      BY <1>1, <3>3, FlownSame, Zenon
    <3>5. Kept(d, b)
      <4>1. Frame(d, acc.q, ControlFields \cup {"send_queue", "ended", "out"})
        BY <3>1 DEF Frame
      <4> QED
        BY <1>1, <3>2, <4>1, KeptFrame, Zenon DEF Handled
    <3> QED
      BY <3>1, <3>5, <3>3, <3>4, Zenon DEF Handled
  <2> HIDE DEF d, max_size
  <2>4. CASE DOMAIN d.send_queue = {}
    <3>1. ProduceFrom(d, max_size) = [q |-> d, message_id |-> None]
      BY <2>4 DEF ProduceFrom
    <3>2. SendNew(acc) = [acc EXCEPT !.q = d]
      BY <2>1, <3>1 DEF InsertNew
    <3>3. SendNew(acc) = [q |-> d, max_bytes |-> acc.max_bytes, sent |-> acc.sent]
      BY <1>1, <3>2
    <3> QED
      BY <1>1, <2>3, <3>3 DEF Filling
  <2>5. CASE DOMAIN d.send_queue # {}
    <3> DEFINE m == Min(DOMAIN d.send_queue)
               data == Fragment(m, d.send_queue[m], max_size)
               p == TakeFragment(d, m, data)
               rtx == Messages[m].max_retransmissions
               u == [p.q EXCEPT !.rwnd = (@ - data.size) % SizeLimit]
               r == Insert(u, m, data, rtx, m \in lapsed, data.is_end)
               now == IF m \in lapsed THEN acc.sent ELSE acc.sent \cup {p.q.highest_tsn + 1}
    <3>1. m \in DOMAIN d.send_queue /\ m # None
      <4>1. DOMAIN d.send_queue \subseteq 1..d.accepted /\ d.accepted \in Nat
        BY <2>3, AcceptedIds, Zenon DEF Handled, Good, Waiting
      <4>2. DOMAIN d.send_queue \subseteq Nat
        BY <4>1
      <4>3. m \in DOMAIN d.send_queue
        BY <2>5, <4>2, MinOf
      <4> QED
        BY <4>1, <4>3, SMTT(20) DEF None
    <3>2. ProduceFrom(d, max_size) = p
      BY <2>5, Zenon DEF ProduceFrom
    <3> HIDE DEF m
    <3>3. p.message_id = m /\ p.data = data
      BY SMTT(20) DEF TakeFragment
    <3>4. /\ Handled(r, e, b) /\ data.size \in Int /\ data.size <= max_size
          /\ Grown(r, d, data_chunk_header_size + data.size)
          /\ now \subseteq 1..r.highest_tsn
          /\ Pending(r) => r.t3_rtx \/ now # {}
      <4> HIDE DEF rtx
      <4> QED
        BY <1>1, <2>2, <2>3, <3>1, FillingInsert, ZenonT(30)
    <3> HIDE DEF p, data
    <3>5. SendNew(acc) = [q |-> r, max_bytes |-> acc.max_bytes - data_chunk_header_size - data.size,
                          sent |-> now]
      BY <2>1, <3>1, <3>2, <3>3, Zenon DEF InsertNew
    <3> HIDE DEF r, now
    <3>6. acc.max_bytes - data_chunk_header_size - data.size \in Int
      BY <1>1, <3>4, Constants
    <3> DEFINE left == acc.max_bytes - data_chunk_header_size - data.size
    <3>7. Flown(r, o) /\ r.unacked_packet_bytes + left <= Limit(o)
      <4>1. /\ data_chunk_header_size \in Int /\ max_size = acc.max_bytes - data_chunk_header_size
            /\ acc.max_bytes \in Int /\ d.unacked_packet_bytes \in Int /\ Limit(o) \in Int
        BY <1>1, <2>3, Constants DEF max_size, Flown, Limit
      <4>2. /\ d.unacked_packet_bytes + acc.max_bytes <= Limit(o)
            /\ data.size \in Int /\ data.size <= max_size
            /\ r.unacked_packet_bytes
                 = d.unacked_packet_bytes + (data_chunk_header_size + data.size)
        BY <1>1, <2>3, <3>4, Zenon DEF Grown
      <4> DEFINE z == data.size
                 v == d.unacked_packet_bytes
                 w == r.unacked_packet_bytes
                 l == Limit(o)
      <4> HIDE DEF z, v, w, l
      <4>3. /\ data_chunk_header_size \in Int /\ max_size = acc.max_bytes - data_chunk_header_size
            /\ acc.max_bytes \in Int /\ v \in Int /\ l \in Int /\ z \in Int
            /\ v + acc.max_bytes <= l /\ z <= max_size /\ w = v + (data_chunk_header_size + z)
        BY <4>1, <4>2, Zenon DEF z, v, w, l
      <4>4. w \in Int /\ w <= l /\ w + (acc.max_bytes - data_chunk_header_size - z) <= l
        BY <4>3
      <4>5. r.cwnd = d.cwnd /\ r.fast_recovery_exit_tsn = d.fast_recovery_exit_tsn
        BY <3>4, Zenon DEF Grown
      <4>6. Flown(r, o)
        BY <2>3, <4>4, <4>5, Zenon DEF Flown, w, l
      <4> QED
        BY <4>4, <4>6, Zenon DEF z, w, l
    <3> HIDE DEF left
    <3>8. /\ SendNew(acc) = [q |-> r, max_bytes |-> left, sent |-> now] /\ left \in Int
      BY <3>5, <3>6, Zenon DEF left
    <3> QED
      BY <3>4, <3>7, <3>8 DEF Filling
  <2> QED
    BY <2>4, <2>5
<1> QED
  BY <1>2, <1>3

\* f is what SendNewChunks() computes, for n rounds.
IsRounds(f, n, base) ==
  f = [i \in 0..n |-> IF i > 0 THEN SendNew(f[i - 1]) ELSE base]

LEMMA RoundsExist ==
  ASSUME NEW n \in Nat, NEW base
  PROVE  \E f : IsRounds(f, n, base)
<1> DEFINE T == {k \in Nat : ~\E f : IsRounds(f, k, base)}
<1>1. ASSUME T # {} PROVE FALSE
  <2>1. PICK k \in T : \A j \in T : k <= j
    BY <1>1, LeastNatural, Zenon
  <2>2. k \in Nat /\ ~\E f : IsRounds(f, k, base)
    OBVIOUS
  <2>3. CASE k = 0
    <3> DEFINE f == [i \in 0..0 |-> base]
    <3>1. IsRounds(f, 0, base)
      BY DEF IsRounds
    <3> QED
      BY <2>2, <2>3, <3>1
  <2>4. CASE k # 0
    <3>1. k - 1 \in Nat /\ k - 1 \notin T
      <4> HIDE DEF T
      <4> QED
        BY <2>1, <2>2, <2>4
    <3>2. PICK f : IsRounds(f, k - 1, base)
      BY <3>1, Zenon
    <3> DEFINE g == [i \in 0..k |-> IF i = k THEN SendNew(f[k - 1]) ELSE f[i]]
    <3>3. \A i \in 0..k : g[i] = IF i > 0 THEN SendNew(g[i - 1]) ELSE base
      <4> TAKE i \in 0..k
      <4>1. CASE i = k
        <5>1. g[k] = SendNew(f[k - 1]) /\ g[k - 1] = f[k - 1] /\ k > 0
          BY <2>2, <2>4
        <5> QED
          BY <4>1, <5>1
      <4>2. CASE i # k
        <5>1. i \in 0..(k - 1) /\ g[i] = f[i]
          BY <2>2, <4>2
        <5>2. f[i] = IF i > 0 THEN SendNew(f[i - 1]) ELSE base
          BY <3>2, <5>1 DEF IsRounds
        <5>3. i > 0 => g[i - 1] = f[i - 1]
          BY <2>2, <5>1
        <5> QED
          BY <5>1, <5>2, <5>3
      <4> QED
        BY <4>1, <4>2
    <3>4. g = [i \in 0..k |-> IF i > 0 THEN SendNew(g[i - 1]) ELSE base]
      <4>1. g = [i \in 0..k |-> g[i]]
        OBVIOUS
      <4> HIDE DEF g
      <4> QED
        BY <3>3, <4>1, Zenon
    <3>5. IsRounds(g, k, base)
      BY <3>4, Zenon DEF IsRounds
    <3> QED
      BY <2>2, <3>5
  <2> QED
    BY <2>3, <2>4
<1> HIDE DEF T
<1>2. n \notin T
  BY <1>1
<1> QED
  BY <1>2 DEF T

LEMMA FillingRounds ==
  ASSUME NEW n \in Nat, NEW base, NEW e, NEW b, NEW o, Filling(base, e, b, o), NEW f,
         IsRounds(f, n, base)
  PROVE  Filling(f[n], e, b, o)
<1> DEFINE T == {k \in 0..n : ~Filling(f[k], e, b, o)}
<1>1. ASSUME T # {} PROVE FALSE
  <2>1. PICK k \in T : \A j \in T : k <= j
    <3>1. T \subseteq Nat
      OBVIOUS
    <3> QED
      BY <1>1, <3>1, LeastNatural, Zenon
  <2>2. k \in 0..n /\ ~Filling(f[k], e, b, o)
    OBVIOUS
  <2>3. f[k] = IF k > 0 THEN SendNew(f[k - 1]) ELSE base
    BY <2>2 DEF IsRounds
  <2>4. k > 0
    BY <2>2, <2>3
  <2>5. k - 1 \in 0..n /\ k - 1 \notin T
    <3> HIDE DEF T
    <3> QED
      BY <2>1, <2>2, <2>4
  <2>6. Filling(f[k - 1], e, b, o)
    BY <2>5
  <2> QED
    BY <2>2, <2>3, <2>4, <2>6, FillingSendNew, Zenon
<1> HIDE DEF T
<1>2. n \notin T
  BY <1>1, Zenon
<1> QED
  BY <1>2 DEF T

\* The loop of GetChunksToSend() over new chunks.
LEMMA FillingSendNewChunks ==
  ASSUME NEW rtx, NEW max_bytes, NEW e, NEW b, NEW o,
         Filling([q |-> rtx.q, max_bytes |-> max_bytes - PacketBytes(rtx.q, rtx.sent),
                  sent |-> rtx.sent], e, b, o)
  PROVE  Filling(SendNewChunks(rtx, max_bytes), e, b, o)
<1> DEFINE base == [q |-> rtx.q, max_bytes |-> max_bytes - PacketBytes(rtx.q, rtx.sent),
                    sent |-> rtx.sent]
           f == CHOOSE f : IsRounds(f, Rounds, base)
<1>1. Rounds \in Nat
  BY Constants DEF Rounds
<1>2. SendNewChunks(rtx, max_bytes) = f[Rounds]
  BY Zenon DEF SendNewChunks, IsRounds
<1>3. Filling(base, e, b, o)
  OBVIOUS
<1> HIDE DEF base
<1>4. IsRounds(f, Rounds, base)
  BY <1>1, RoundsExist
<1> HIDE DEF f
<1> QED
  BY <1>1, <1>2, <1>3, <1>4, FillingRounds, Zenon

LEMMA MinOfThree ==
  ASSUME NEW x \in Int, NEW y \in Int, NEW z \in Int
  PROVE  Min({x, y, z}) \in Int /\ Min({x, y, z}) <= x
<1>1. \E m \in {x, y, z} : \A k \in {x, y, z} : m <= k
  <2>1. CASE x <= y /\ x <= z
    BY <2>1
  <2>2. CASE y <= x /\ y <= z
    BY <2>2
  <2>3. CASE z <= x /\ z <= y
    BY <2>3
  <2> QED
    BY <2>1, <2>2, <2>3
<1>2. Min({x, y, z}) \in {x, y, z} /\ Min({x, y, z}) <= x
  BY <1>1, Zenon DEF Min
<1> QED
  BY <1>2

LEMMA FlightType ==
  ASSUME NEW s, Sane(s)
  PROVE  s.unacked_packet_bytes \in Int /\ s.unacked_payload_bytes \in Int
<1>1. Shape(s) /\ Unacked(s) \subseteq Tsns(s)
  BY SMTT(20) DEF Sane, Unacked
<1> QED
  BY <1>1, BytesType DEF Sane, Counted

\* GetChunksToSend() leaves T3-rtx running when something is in flight.
LEMMA GoodGetChunksToSend ==
  ASSUME NEW s, NEW e, NEW b, Handled(s, e, b), Pending(s) => s.t3_rtx, NEW room \in Int
  PROVE  LET c == GetChunksToSend(s, room)
         IN  /\ Handled(c.q, e, b) /\ (Pending(c.q) => c.q.t3_rtx)
             /\ c.sent \subseteq 1..c.q.highest_tsn /\ Flown(c.q, s)
<1> DEFINE max_bytes == Min({ByCwnd(s), ByRwnd(s), room})
           g == GetChunksToBeRetransmitted(s, max_bytes)
           n == SendNewChunks(g, max_bytes)
           c == GetChunksToSend(s, room)
<1>1. Good(s, e) /\ Sane(s) /\ Typed(s) /\ Kept(s, b) /\ s.to_be_fast_retransmitted = {}
  BY Zenon DEF Handled, Good
<1>2. ByCwnd(s) \in Int /\ ByRwnd(s) \in Int
  <2>1. ByCwnd(s) \in Int
    BY <1>1, FlightType DEF ByCwnd, Typed
  <2>2. (s.rwnd + data_chunk_header_size) % SizeLimit \in Int
    <3>1. s.rwnd + data_chunk_header_size \in Int
      BY <1>1, Constants DEF Typed
    <3> QED
      BY <3>1, Constants, Division, SMTT(20)
  <2> QED
    BY <2>1, <2>2, Constants, SMTT(20) DEF ByRwnd
<1>3. max_bytes \in Int /\ max_bytes <= ByCwnd(s)
  BY <1>2, MinOfThree
<1>4. c = StartT3IfSent(n)
  BY ZenonT(30) DEF GetChunksToSend
<1> HIDE DEF max_bytes, c
<1>5. /\ Sane(g.q) /\ Touched(g.q, s) /\ Abandons(g.q, s, {})
      /\ g.q.to_be_fast_retransmitted = {} /\ g.sent \subseteq Tsns(s)
  BY <1>1, GetChunksToBeRetransmittedIs, Zenon
<1>6. /\ g.q.unacked_packet_bytes = s.unacked_packet_bytes + PacketBytes(s, g.sent)
      /\ PacketBytes(s, g.sent) \in Int
      /\ PacketBytes(s, g.sent) <= max_bytes \/ PacketBytes(s, g.sent) = 0
  BY <1>1, <1>3, RetransmittedFlight, Zenon
<1> HIDE DEF g
<1>7. Frame(g.q, s, NackFields)
  BY <1>5, Zenon DEF Touched, Frame, NackFields
<1>8. Good(g.q, e) /\ (Pending(g.q) => Pending(s))
  BY <1>1, <1>5, <1>7, GoodAbandons, Zenon
<1>9. /\ g.q.t3_rtx = s.t3_rtx /\ Kept(g.q, b)
  BY <1>1, <1>5, <1>7, QueueFrame, KeptAbandons, Zenon
<1>10. /\ Shape(g.q) /\ Tsns(g.q) = Tsns(s) /\ Tsns(g.q) \subseteq 1..g.q.highest_tsn
  <2>1. Shape(g.q)
    BY <1>5, Zenon DEF Sane
  <2>2. Tsns(g.q) = Tsns(s)
    BY <1>5, Zenon DEF Touched
  <2>3. Tsns(g.q) \subseteq 1..g.q.highest_tsn
    BY <2>1 DEF Shape
  <2> QED
    BY <2>1, <2>2, <2>3, Zenon
<1>11. PacketBytes(g.q, g.sent) \in Int
  BY <1>5, <1>10, BytesType, Zenon
<1> DEFINE left == max_bytes - PacketBytes(g.q, g.sent)
           base == [q |-> g.q, max_bytes |-> left, sent |-> g.sent]
<1>12. left \in Int
  BY <1>3, <1>11
<1>13. g.sent \subseteq 1..g.q.highest_tsn
  BY <1>5, <1>10, SMTT(20)
<1>14. Flown(g.q, s) /\ g.q.unacked_packet_bytes + left <= Limit(s)
  <2>1. PacketBytes(g.q, g.sent) = PacketBytes(s, g.sent)
    <3>1. Shape(s) /\ g.sent \subseteq Tsns(g.q)
          /\ \A t \in g.sent : g.q.outstanding_data[t].data = s.outstanding_data[t].data
      BY <1>1, <1>5, <1>10, Zenon DEF Sane, Touched, SameChunk
    <3> QED
      BY <1>5, <1>10, <3>1, BytesSame, Zenon
  <2> DEFINE z == PacketBytes(s, g.sent)
             v == s.unacked_packet_bytes
             w == g.q.unacked_packet_bytes
  <2>2. v \in Int /\ s.cwnd \in Int /\ z \in Int
    BY <1>1, <1>6, InFlight, Zenon DEF Typed
  <2>3. Limit(s) = v + ByCwnd(s) /\ Limit(s) \in Int /\ ByCwnd(s) >= 0
    BY <2>2 DEF Limit, ByCwnd
  <2>4. w = v + z /\ (z <= max_bytes \/ z = 0) /\ left = max_bytes - z
    BY <1>6, <2>1, Zenon
  <2> HIDE DEF z, v, w, left
  <2>5. w \in Int /\ w <= Limit(s) /\ w + left <= Limit(s)
    BY <1>2, <1>3, <2>2, <2>3, <2>4
  <2>6. g.q.cwnd = s.cwnd /\ g.q.fast_recovery_exit_tsn = s.fast_recovery_exit_tsn
    <3> DEFINE k == g.q
    <3>1. Frame(k, s, NackFields)
      BY <1>7
    <3> HIDE DEF k
    <3>2. k.cwnd = s.cwnd /\ k.fast_recovery_exit_tsn = s.fast_recovery_exit_tsn
      BY <1>1, <3>1, QueueFrame, Zenon
    <3> QED
      BY <3>2 DEF k
  <2> QED
    BY <2>2, <2>5, <2>6, Zenon DEF Flown, v, w
<1>15. Filling(base, e, b, s)
  <2> HIDE DEF left
  <2>1. Handled(g.q, e, b)
    BY <1>5, <1>8, <1>9, Zenon DEF Handled
  <2> QED
    BY <1>8, <1>9, <1>12, <1>13, <1>14, <2>1, ZenonT(30) DEF Filling
<1>16. Filling(n, e, b, s)
  BY <1>15, FillingSendNewChunks
<1> HIDE DEF n
<1>17. c = [q |-> [n.q EXCEPT !.t3_rtx = @ \/ n.sent # {}], sent |-> n.sent]
  BY <1>4, Zenon DEF StartT3IfSent
<1>18. /\ Handled(n.q, e, b) /\ Good(n.q, e) /\ Typed(n.q) /\ Sane(n.q)
       /\ n.sent \subseteq 1..n.q.highest_tsn
       /\ Pending(n.q) => n.q.t3_rtx \/ n.sent # {}
       /\ Flown(n.q, s)
  BY <1>16 DEF Filling, Handled, Good
<1> DEFINE runs == n.q.t3_rtx \/ n.sent # {}
           r == [n.q EXCEPT !.t3_rtx = runs]
<1>19. c.q = r /\ c.sent = n.sent
  BY <1>17, Zenon
<1>20. runs \in BOOLEAN /\ (runs <=> n.q.t3_rtx \/ n.sent # {})
  OBVIOUS
<1> HIDE DEF runs
<1>21. /\ Frame(r, n.q, ControlFields) /\ Typed(r) /\ r.t3_rtx = runs
       /\ r.unacked_packet_bytes = n.q.unacked_packet_bytes /\ r.cwnd = n.q.cwnd
       /\ r.fast_recovery_exit_tsn = n.q.fast_recovery_exit_tsn
  BY <1>18, <1>20, Zenon
     DEF Typed, Frame, IsRecord, Sane, Shape, AllFields, QueueFields, ControlFields
<1> HIDE DEF r
<1>22. /\ Good(r, e) /\ (Pending(r) <=> Pending(n.q)) /\ r.highest_tsn = n.q.highest_tsn
       /\ r.to_be_fast_retransmitted = n.q.to_be_fast_retransmitted
  BY <1>18, <1>21, GoodControl, ZenonT(30)
<1>23. Kept(r, b)
  <2>1. Frame(r, n.q, ControlFields \cup {"send_queue", "ended", "out"})
    BY <1>21, Zenon DEF Frame
  <2> QED
    BY <1>18, <2>1, KeptFrame, Zenon DEF Handled
<1>24. Handled(r, e, b)
  BY <1>18, <1>22, <1>23 DEF Handled
<1>25. Flown(r, s)
  BY <1>18, <1>21, FlownSame, Zenon
<1> QED
  BY <1>18, <1>21, <1>19, <1>20, <1>22, <1>24, <1>25, Zenon DEF c
==============================================================================
