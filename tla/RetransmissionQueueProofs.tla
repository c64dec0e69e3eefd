---------------------- MODULE RetransmissionQueueProofs ----------------------
(***************************************************************************)
(* What the sender of data keeps true, for all messages, windows, sizes    *)
(* and losses: its counters are right, T3-rtx runs while something is to   *)
(* be acknowledged, a message is reported as delivered only when all of it *)
(* has arrived, and the sender keeps to the contract of MessageTransfer.   *)
(* SendingProofs and HandlerProofs have the steps of the handlers; here    *)
(* are the handlers as a whole, the receiver, and the theorems.            *)
(***************************************************************************)
EXTENDS HandlerProofs, QueueContract

------------------------------------------------------------------------------
(* The handlers as a whole.                                                *)

\* What the receiver has, or may skip, up to k, with the history of s.
Reached(s, data, k) == \A t \in 1..k : t \in data \/ s.assigned[t] \in s.given_up

\* Extends is what a handler does to the history.
Extends(r, s) ==
  /\ r.assigned \in Seq(MessageIds)
  /\ Len(s.assigned) <= Len(r.assigned)
  /\ \A t \in 1..Len(s.assigned) : r.assigned[t] = s.assigned[t]
  /\ s.given_up \subseteq r.given_up

\* What a handler may add to the flight beyond the congestion window: a packet,
\* when it enters fast recovery.
Beyond(exit_tsn) ==
  IF exit_tsn \notin {None, q.fast_recovery_exit_tsn} THEN Mtu - PacketHeader ELSE 0

Bounded(s) ==
  q.fast_recovery_exit_tsn \in Nat =>
    /\ s.fast_recovery_exit_tsn \in Nat
    /\ s.unacked_packet_bytes <= Max({q.unacked_packet_bytes, s.cwnd})
                                   + Beyond(s.fast_recovery_exit_tsn)

\* A handler has the state s when it sends its packets.  b is the state in
\* which it started to send.
Handler(s, b) ==
  /\ \E o : Ready(s, q.ended, b, o)
  /\ Bounded(s)
  /\ b.assigned = q.assigned /\ b.given_up = q.given_up
  /\ b.last_cumulative_tsn_ack >= q.last_cumulative_tsn_ack
  /\ 1..b.last_cumulative_tsn_ack \subseteq Received(rx)

LEMMA BeyondIs == \A exit_tsn : Beyond(exit_tsn) \in Nat
<1>1. Mtu - PacketHeader \in Nat
  BY Constants, QueueAssumption
<1> QED
  BY <1>1, Zenon DEF Beyond

\* o is the state from which the window bounds what is sent.
LEMMA BoundedBy ==
  ASSUME Sane(q), NEW o, NEW s, Flown(s, o),
         q.fast_recovery_exit_tsn \in Nat =>
           /\ o.fast_recovery_exit_tsn \in Nat
           /\ o.unacked_packet_bytes <=
                q.unacked_packet_bytes + Beyond(o.fast_recovery_exit_tsn)
  PROVE  Bounded(s)
<1> SUFFICES ASSUME q.fast_recovery_exit_tsn \in Nat
             PROVE  /\ s.fast_recovery_exit_tsn \in Nat
                    /\ s.unacked_packet_bytes <= Max({q.unacked_packet_bytes, s.cwnd})
                                                   + Beyond(s.fast_recovery_exit_tsn)
  BY Zenon DEF Bounded
<1> DEFINE x == q.unacked_packet_bytes
           y == s.cwnd
           w == Beyond(o.fast_recovery_exit_tsn)
           m == Max({x, y})
<1>1. /\ x \in Int /\ y \in Int /\ o.unacked_packet_bytes \in Int
      /\ s.unacked_packet_bytes \in Int
  BY InFlight, Zenon DEF Flown
<1>2. w \in Nat
  BY BeyondIs, Zenon
<1>3. /\ s.fast_recovery_exit_tsn = o.fast_recovery_exit_tsn /\ o.unacked_packet_bytes <= x + w
      /\ s.unacked_packet_bytes <= Limit(o) /\ y = o.cwnd
  BY Zenon DEF Flown
<1> HIDE DEF x, y, w
<1>4. m \in {x, y} /\ m >= x /\ m >= y /\ m \in Int
  BY <1>1, MaxOfTwo, ZenonT(30)
<1> HIDE DEF m
<1>5. s.unacked_packet_bytes <= m + w
  BY <1>1, <1>2, <1>3, <1>4 DEF Limit
<1> QED
  BY <1>3, <1>5, Zenon DEF x, y, w, m

LEMMA HandlerExtends ==
  ASSUME AtRest, NEW s, NEW b, Handler(s, b)
  PROVE  LET r == Finished(s)
         IN  /\ Rest(r) /\ Extends(r, q) /\ (Pending(r) => r.t3_rtx)
             /\ r.last_cumulative_tsn_ack = b.last_cumulative_tsn_ack
             /\ Len(r.assigned) = s.highest_tsn
             /\ \A t \in Tsns(s) : r.assigned[t] = Id(s, t)
             /\ \A t \in Tsns(s) : GivenUp(s, t) => Id(s, t) \in r.given_up
             /\ Bounded(r)
<1> DEFINE r == Finished(s)
<1>1. /\ Good(s, q.ended) /\ s.to_be_fast_retransmitted = {} /\ (Pending(s) => s.t3_rtx)
      /\ s.assigned = q.assigned /\ s.given_up = q.given_up
      /\ s.last_cumulative_tsn_ack = b.last_cumulative_tsn_ack
  BY Zenon DEF Handler, Ready, Handled, Kept
<1>2. s.given_up \subseteq MessageIds
  BY <1>1, SMTT(20) DEF AtRest, Rest
<1>3. Rest(r)
  BY <1>1, <1>2, RestFinished
<1>4. /\ Frame(r, s, {"out", "assigned", "given_up"}) /\ r.out = {}
      /\ r.assigned \in Seq(MessageIds) /\ Len(r.assigned) = s.highest_tsn
      /\ \A t \in 1..Len(s.assigned) : r.assigned[t] = s.assigned[t]
      /\ \A t \in Tsns(s) : r.assigned[t] = Id(s, t)
      /\ \A m : m \in r.given_up <=>
           \/ m \in s.given_up
           \/ m \in MessageIds /\ s.ended[m] = <<"Expired">>
           \/ \E t \in Tsns(s) : GivenUp(s, t) /\ Id(s, t) = m
  BY <1>1, FinishedIs, Zenon
<1> HIDE DEF r
<1>5. /\ r.outstanding_data = s.outstanding_data /\ r.t3_rtx = s.t3_rtx
      /\ r.last_cumulative_tsn_ack = s.last_cumulative_tsn_ack
      /\ r.unacked_packet_bytes = s.unacked_packet_bytes /\ r.cwnd = s.cwnd
      /\ r.fast_recovery_exit_tsn = s.fast_recovery_exit_tsn
  BY <1>1, <1>4, Zenon DEF Good, Frame, Typed, AllFields, QueueFields
<1>6. Pending(r) <=> Pending(s)
  BY <1>5, SMTT(20) DEF Pending, Tsns, GivenUp
<1>7. Len(s.assigned) <= s.highest_tsn
  BY <1>1, Zenon DEF Good, Owned
<1>8. Extends(r, q)
  BY <1>1, <1>4, <1>7, Zenon DEF Extends
<1>9. Bounded(r)
  BY <1>5, Zenon DEF Handler, Bounded
<1> QED
  BY <1>1, <1>3, <1>4, <1>5, <1>6, <1>8, <1>9, Zenon DEF r

LEMMA ReachedExtends ==
  ASSUME NEW s, NEW r, Extends(r, s), Len(s.assigned) \in Nat, NEW data,
         NEW k \in 0..Len(s.assigned), Reached(s, data, k)
  PROVE  Reached(r, data, k) /\ k \in 0..Len(r.assigned)
<1>1. Len(r.assigned) \in Nat
  BY LenIs DEF Extends
<1>2. 1..k \subseteq 1..Len(s.assigned) /\ k \in 0..Len(r.assigned)
  BY <1>1, SMTT(20) DEF Extends
<1> QED
  BY <1>2 DEF Reached, Extends

\* The history of a state at rest.
LEMMA RestType ==
  ASSUME NEW s, Rest(s)
  PROVE  /\ s.assigned \in Seq(MessageIds) /\ Len(s.assigned) \in Nat
         /\ Len(s.assigned) = s.highest_tsn
         /\ s.last_cumulative_tsn_ack \in 0..Len(s.assigned)
         /\ Tsns(s) = (s.last_cumulative_tsn_ack + 1)..Len(s.assigned)
         /\ \A t \in Tsns(s) : s.assigned[t] = Id(s, t)
<1>1. Owned(s, s.ended) /\ Sane(s) /\ Len(s.assigned) = s.highest_tsn
  BY Zenon DEF Rest, Good
<1>2. s.assigned \in Seq(MessageIds) /\ Len(s.assigned) \in Nat
  BY <1>1, LenIs, Zenon DEF Owned
<1>3. /\ s.last_cumulative_tsn_ack \in 0..Len(s.assigned)
      /\ Tsns(s) = (s.last_cumulative_tsn_ack + 1)..Len(s.assigned)
  BY <1>1 DEF Sane, Shape
<1>4. \A t \in Tsns(s) : t <= Len(s.assigned)
  BY <1>2, <1>3
<1> QED
  BY <1>1, <1>2, <1>3, <1>4, Zenon DEF Owned

\* A handler that sends keeps the invariant.
LEMMA HandlerInv ==
  ASSUME QueueInv, NEW s, NEW b, Handler(s, b), Sends(s),
         UNCHANGED <<Messages, rx>>, sacks' \subseteq sacks
  PROVE  QueueInv'
<1>1. AtRest /\ Remote
  BY DEF QueueInv
<1>2. q' = Finished(s) /\ net' = net \cup s.out
  BY SendsFinished, SMTT(20)
<1>3. /\ Rest(q') /\ Extends(q', q) /\ (Pending(q') => q'.t3_rtx)
      /\ q'.last_cumulative_tsn_ack = b.last_cumulative_tsn_ack
      /\ Len(q'.assigned) = s.highest_tsn
      /\ \A t \in Tsns(s) : q'.assigned[t] = Id(s, t)
      /\ \A t \in Tsns(s) : GivenUp(s, t) => Id(s, t) \in q'.given_up
  BY <1>1, <1>2, HandlerExtends, Zenon
<1>4. AtRest'
  BY <1>3, RestPrime, Zenon DEF AtRest
<1>5. Timed'
  BY <1>3, Zenon DEF Timed, Pending, GivenUp
<1>6. /\ Len(q.assigned) \in Nat /\ Len(q'.assigned) \in Nat
      /\ Len(q.assigned) <= Len(q'.assigned)
  BY <1>1, <1>3, RestType, Zenon DEF AtRest, Extends
<1>7. \A k \in 0..Len(q.assigned) : Arrived(k) => Arrived(k)' /\ k \in 0..Len(q'.assigned)
  <2> SUFFICES ASSUME NEW k \in 0..Len(q.assigned), Arrived(k)
               PROVE  Arrived(k)' /\ k \in 0..Len(q'.assigned)
    OBVIOUS
  <2>1. Reached(q, rx.data, k)
    BY SMTT(20) DEF Arrived, Reached
  <2>2. Reached(q', rx.data, k) /\ k \in 0..Len(q'.assigned)
    BY <1>3, <1>6, <2>1, ReachedExtends, Zenon
  <2> QED
    BY <2>2 DEF Arrived, Reached
<1>8. 1..Len(q.assigned) \subseteq 1..Len(q'.assigned)
      /\ 0..Len(q.assigned) \subseteq 0..Len(q'.assigned)
  BY <1>6, SMTT(20)
<1>9. /\ rx.data \subseteq 1..Len(q'.assigned)
      /\ rx.skipped \in 0..Len(q'.assigned) /\ Arrived(rx.skipped)'
  BY <1>1, <1>7, <1>8, Zenon DEF Remote
<1>10. ASSUME NEW p \in net'
       PROVE  /\ p.tsns \subseteq 1..Len(q'.assigned)
              /\ p.forward_tsn \in 0..Len(q'.assigned) /\ Arrived(p.forward_tsn)'
  <2>1. CASE p \in net
    BY <1>1, <1>7, <1>8, <2>1, Zenon DEF Remote
  <2>2. CASE p \in s.out
    <3>1. /\ p.tsns \subseteq 1..s.highest_tsn /\ p.forward_tsn \in 0..s.highest_tsn
          /\ \A t \in 1..p.forward_tsn :
               t <= s.last_cumulative_tsn_ack \/ (t \in Tsns(s) /\ GivenUp(s, t))
          /\ s.last_cumulative_tsn_ack = b.last_cumulative_tsn_ack
      BY <2>2, Zenon DEF Handler, Ready, Handled, Good, Packed, Kept
    <3>2. ASSUME NEW t \in 1..p.forward_tsn
          PROVE  t \in rx.data \/ q'.assigned[t] \in q'.given_up
      <4>1. CASE t <= s.last_cumulative_tsn_ack
        <5>1. t \in 1..b.last_cumulative_tsn_ack
          BY <3>1, <4>1, SMTT(20)
        <5>2. t \in rx.data \/ t \in 1..rx.skipped
          BY <5>1, Zenon DEF Handler, Received
        <5> QED
          BY <1>9, <5>2, Zenon DEF Arrived
      <4>2. CASE t \in Tsns(s) /\ GivenUp(s, t)
        BY <1>3, <4>2, Zenon
      <4> QED
        BY <3>1, <4>1, <4>2, Zenon
    <3> QED
      BY <1>3, <3>1, <3>2, Zenon DEF Arrived
  <2> QED
    BY <1>2, <2>1, <2>2, Zenon
<1>11. Remote'
  <2>1. \A k \in sacks' : /\ k.cumulative_tsn_ack \in 0..Len(q'.assigned)
                          /\ 1..k.cumulative_tsn_ack \subseteq Received(rx)
                          /\ k.gap_acked \subseteq rx.data
                          /\ k.a_rwnd \in Nat
    BY <1>1, <1>8, Zenon DEF Remote
  <2>2. 1..q'.last_cumulative_tsn_ack \subseteq Received(rx)
    BY <1>3, Zenon DEF Handler
  <2>3. Received(rx)' = Received(rx) /\ rx' = rx
    BY DEF Received
  <2> QED
    BY <1>9, <1>10, <2>1, <2>2, <2>3, Zenon DEF Remote
<1> QED
  BY <1>4, <1>5, <1>11, Zenon DEF QueueInv

\* Send(), a valid SACK and an expiry of T3-rtx are handlers in this sense.
LEMMA SendIsHandler ==
  ASSUME QueueInv, Send
  PROVE  \E s, b : Handler(s, b) /\ Sends(s)
<1> DEFINE b == Add([q EXCEPT !.accepted = @ + 1], q.accepted + 1)
           s == SendBufferedPackets(b)
<1>1. /\ Good(q, q.ended) /\ q.to_be_fast_retransmitted = {} /\ (Pending(q) => q.t3_rtx)
      /\ q.accepted < Len(Messages)
  BY DEF QueueInv, AtRest, Rest, Timed, Pending, GivenUp, Send
<1>2. /\ Ready(b, q.ended, b, b)
      /\ b.last_cumulative_tsn_ack = q.last_cumulative_tsn_ack
      /\ b.assigned = q.assigned /\ b.given_up = q.given_up
      /\ b.unacked_packet_bytes = q.unacked_packet_bytes
      /\ b.fast_recovery_exit_tsn = q.fast_recovery_exit_tsn
  BY <1>1, ReadyAdd, Zenon
<1>3. Sends(s)
  BY Zenon DEF Send
<1> HIDE DEF b
<1>4. Ready(s, q.ended, b, b)
  BY <1>2, ReadySendBufferedPackets, Zenon
<1> HIDE DEF s
<1>5. /\ b.last_cumulative_tsn_ack >= q.last_cumulative_tsn_ack
      /\ 1..b.last_cumulative_tsn_ack \subseteq Received(rx)
  BY <1>1, <1>2 DEF QueueInv, Remote, Good, Sane, Shape
<1>6. Bounded(s)
  <2>1. q.unacked_packet_bytes \in Int /\ Sane(q)
    BY <1>1, InFlight, Zenon DEF Good
  <2>2. b.unacked_packet_bytes <= q.unacked_packet_bytes + Beyond(b.fast_recovery_exit_tsn)
    BY <1>2, <2>1 DEF Beyond
  <2> QED
    BY <1>2, <1>4, <2>1, <2>2, BoundedBy, Zenon DEF Ready
<1>7. Handler(s, b)
  BY <1>2, <1>4, <1>5, <1>6, Zenon DEF Handler
<1> QED
  BY <1>3, <1>7, Zenon

LEMMA SackIsHandler ==
  ASSUME QueueInv, NEW sack \in sacks, ~q.aborted, IsSackValid(q, sack),
         Sends(SendBufferedPackets(MaybeSendFastRetransmit(HandleSack(q, sack))))
  PROVE  \E s, b : Handler(s, b) /\ Sends(s)
<1> DEFINE b == HandleSack(q, sack)
           f == MaybeSendFastRetransmit(b)
           s == SendBufferedPackets(f)
<1>1. /\ Good(q, q.ended) /\ q.to_be_fast_retransmitted = {} /\ Len(q.assigned) = q.highest_tsn
      /\ Len(q.assigned) \in Nat
  BY RestType, Zenon DEF QueueInv, AtRest, Rest
<1>2. /\ sack.gap_acked \subseteq 0..Len(q.assigned) /\ sack.a_rwnd \in Nat
      /\ 1..sack.cumulative_tsn_ack \subseteq Received(rx)
  BY SMTT(20) DEF QueueInv, Remote
<1>3. /\ Good(b, q.ended) /\ (Pending(b) => b.t3_rtx)
      /\ b.last_cumulative_tsn_ack = sack.cumulative_tsn_ack
      /\ b.assigned = q.assigned /\ b.given_up = q.given_up
      /\ b.unacked_packet_bytes <= q.unacked_packet_bytes
      /\ q.fast_recovery_exit_tsn \in Nat =>
           /\ b.fast_recovery_exit_tsn \in Nat
           /\ b.to_be_fast_retransmitted # {} =>
                b.fast_recovery_exit_tsn \notin {None, q.fast_recovery_exit_tsn}
  BY <1>1, <1>2, GoodHandleSack
<1>4. Sends(s)
  OBVIOUS
<1>5. sack.cumulative_tsn_ack >= q.last_cumulative_tsn_ack
  BY <1>1 DEF IsSackValid, Good, Sane, Shape, highest_outstanding_tsn
<1> HIDE DEF b
<1>6. Kept(b, b)
  BY Zenon DEF Kept
<1>7. /\ Ready(f, q.ended, b, f)
      /\ f.fast_recovery_exit_tsn = b.fast_recovery_exit_tsn
      /\ f.unacked_packet_bytes <=
           b.unacked_packet_bytes
             + (IF b.to_be_fast_retransmitted = {} THEN 0 ELSE Mtu - PacketHeader)
  BY <1>3, <1>6, ReadyMaybeSendFastRetransmit, Zenon
<1> HIDE DEF f
<1>8. Ready(s, q.ended, b, f)
  BY <1>7, ReadySendBufferedPackets, Zenon
<1> HIDE DEF s
<1>9. Bounded(s)
  <2>1. q.unacked_packet_bytes \in Int /\ b.unacked_packet_bytes \in Int /\ Sane(q)
    BY <1>1, <1>3, InFlight, Zenon DEF Good
  <2>2. f.unacked_packet_bytes \in Int
    BY <1>8, Zenon DEF Ready, Flown
  <2>3. ASSUME q.fast_recovery_exit_tsn \in Nat
        PROVE  f.unacked_packet_bytes <= q.unacked_packet_bytes + Beyond(f.fast_recovery_exit_tsn)
    <3>1. CASE b.to_be_fast_retransmitted = {}
      <4>1. Beyond(f.fast_recovery_exit_tsn) \in Nat
        BY BeyondIs, Zenon
      <4> QED
        BY <1>3, <1>7, <2>1, <2>2, <3>1, <4>1
    <3>2. CASE b.to_be_fast_retransmitted # {}
      <4>1. /\ Beyond(f.fast_recovery_exit_tsn) = Mtu - PacketHeader
            /\ Beyond(f.fast_recovery_exit_tsn) \in Nat
        BY <1>3, <1>7, <2>3, <3>2, BeyondIs, Zenon DEF Beyond
      <4> QED
        BY <1>3, <1>7, <2>1, <2>2, <3>2, <4>1
    <3> QED
      BY <3>1, <3>2
  <2> QED
    BY <1>3, <1>7, <1>8, <2>1, <2>3, BoundedBy, Zenon DEF Ready
<1>10. Handler(s, b)
  BY <1>2, <1>3, <1>5, <1>8, <1>9, Zenon DEF Handler
<1> QED
  BY <1>4, <1>10, Zenon

LEMMA ExpiryIsHandler ==
  ASSUME QueueInv, ~q.aborted,
         Sends(SendBufferedPackets(HandleT3RtxTimerExpiry([q EXCEPT !.tx_error_counter = @ + 1])))
  PROVE  \E s, b : Handler(s, b) /\ Sends(s)
<1> DEFINE n == q.tx_error_counter + 1
           b == [q EXCEPT !.tx_error_counter = n]
           h == HandleT3RtxTimerExpiry(b)
           s == SendBufferedPackets(h)
<1>1. /\ Rest(q) /\ Good(q, q.ended) /\ (Pending(q) => q.t3_rtx) /\ Typed(q) /\ Sane(q)
  BY DEF QueueInv, AtRest, Rest, Timed, Pending, GivenUp, Good
<1>2. Sends(s)
  OBVIOUS
<1> HIDE DEF n
<1>3. /\ Frame(b, q, ControlFields) /\ Typed(b) /\ b.t3_rtx = q.t3_rtx
      /\ b.unacked_packet_bytes = q.unacked_packet_bytes
      /\ b.fast_recovery_exit_tsn = q.fast_recovery_exit_tsn
  BY <1>1, Zenon DEF Typed, Frame, IsRecord, Sane, Shape, AllFields, QueueFields, ControlFields
<1> HIDE DEF b
<1>4. /\ Rest(b) /\ (Pending(b) <=> Pending(q)) /\ b.ended = q.ended
      /\ b.last_cumulative_tsn_ack = q.last_cumulative_tsn_ack
      /\ b.assigned = q.assigned /\ b.given_up = q.given_up
  BY <1>1, <1>3, RestControl
<1>5. Kept(b, b)
  BY Zenon DEF Kept
<1>6. Ready(b, q.ended, b, b)
  <2>1. Flown(b, b)
    BY <1>3, <1>4, FlownSelf, Zenon DEF Rest, Good
  <2> QED
    BY <1>1, <1>3, <1>4, <1>5, <2>1, Zenon DEF Ready, Handled, Rest
<1>7. /\ Ready(h, q.ended, b, h) /\ h.unacked_packet_bytes <= b.unacked_packet_bytes
      /\ h.fast_recovery_exit_tsn = b.fast_recovery_exit_tsn
  BY <1>6, ReadyHandleT3RtxTimerExpiry, Zenon
<1> HIDE DEF h
<1>8. Ready(s, q.ended, b, h)
  BY <1>7, ReadySendBufferedPackets, Zenon
<1> HIDE DEF s
<1>9. /\ b.last_cumulative_tsn_ack >= q.last_cumulative_tsn_ack
      /\ 1..b.last_cumulative_tsn_ack \subseteq Received(rx)
  BY <1>1, <1>4 DEF QueueInv, Remote, Good, Sane, Shape
<1>10. Bounded(s)
  <2>1. q.unacked_packet_bytes \in Int /\ h.unacked_packet_bytes \in Int
    BY <1>1, <1>8, InFlight, Zenon DEF Ready, Flown
  <2>2. h.unacked_packet_bytes <= q.unacked_packet_bytes + Beyond(h.fast_recovery_exit_tsn)
    BY <1>3, <1>7, <2>1 DEF Beyond
  <2> QED
    BY <1>1, <1>3, <1>7, <1>8, <2>2, BoundedBy, Zenon DEF Ready
<1>11. Handler(s, b)
  BY <1>4, <1>8, <1>9, <1>10, Zenon DEF Handler
<1> QED
  BY <1>2, <1>11, Zenon

\* Steps that only turn timers and flags.
LEMMA ControlInv ==
  ASSUME QueueInv, Frame(q', q, ControlFields), Typed(q'),
         Pending(q') /\ ~q'.aborted => q'.t3_rtx, UNCHANGED <<Messages, rx, net, sacks>>
  PROVE  QueueInv'
<1>1. /\ Rest(q') /\ q'.last_cumulative_tsn_ack = q.last_cumulative_tsn_ack
      /\ q'.assigned = q.assigned /\ q'.given_up = q.given_up
  BY RestControl, Zenon DEF QueueInv, AtRest
<1>2. AtRest'
  BY <1>1, RestPrime, Zenon DEF AtRest
<1>3. Timed'
  BY Zenon DEF Timed, Pending, GivenUp
<1>4. Remote'
  <2>1. \A k : Arrived(k)' <=> Arrived(k)
    BY <1>1, Zenon DEF Arrived
  <2> QED
    BY <1>1, <2>1, Zenon DEF QueueInv, Remote, Received
<1> QED
  BY <1>2, <1>3, <1>4, Zenon DEF QueueInv

\* Nothing happens at the sender, and nothing new is on its way.
LEMMA QuietInv ==
  ASSUME QueueInv, UNCHANGED <<Messages, q, rx>>, net' \subseteq net, sacks' \subseteq sacks
  PROVE  QueueInv'
<1>1. AtRest'
  BY RestPrime, Zenon DEF QueueInv, AtRest
<1>2. Timed'
  BY Zenon DEF QueueInv, Timed
<1>3. \A k : Arrived(k)' <=> Arrived(k)
  BY SMTT(20) DEF Arrived
<1>4. Remote'
  BY <1>3, Zenon DEF QueueInv, Remote, Received
<1> QED
  BY <1>1, <1>2, <1>4, Zenon DEF QueueInv

\* A packet arrives.
LEMMA ReceiveInv ==
  ASSUME QueueInv, NEW p \in net, Receive(p)
  PROVE  QueueInv'
<1>1. AtRest /\ Remote /\ Timed
  BY Zenon DEF QueueInv
<1>2. /\ Len(q.assigned) \in Nat
      /\ rx.data \subseteq 1..Len(q.assigned)
      /\ rx.skipped \in 0..Len(q.assigned) /\ Arrived(rx.skipped)
      /\ p.tsns \subseteq 1..Len(q.assigned)
      /\ p.forward_tsn \in 0..Len(q.assigned) /\ Arrived(p.forward_tsn)
  BY <1>1, RestType, Zenon DEF Remote, AtRest
<1>3. PICK skipped : /\ skipped = Max({rx.skipped, p.forward_tsn})
                     /\ UNCHANGED <<Messages, q, sacks>> /\ net' \subseteq net
                     /\ rx'.data = rx.data \cup (p.tsns \ 1..skipped)
                     /\ rx'.skipped = skipped
  BY Zenon DEF Receive
<1>4. skipped \in {rx.skipped, p.forward_tsn} /\ skipped >= rx.skipped /\ skipped \in Int
  <2> DEFINE x == rx.skipped
             y == p.forward_tsn
  <2>1. x \in Int /\ y \in Int
    BY <1>2, SMTT(20)
  <2>2. skipped = Max({x, y})
    BY <1>3, Zenon
  <2> HIDE DEF x, y
  <2>3. skipped \in {x, y} /\ skipped >= x /\ skipped \in Int
    BY <2>1, <2>2, MaxOfTwo, Zenon
  <2> QED
    BY <2>3 DEF x, y
<1>5. AtRest'
  BY <1>1, <1>3, RestPrime, Zenon DEF AtRest
<1>6. Timed'
  BY <1>1, <1>3, Zenon DEF Timed
<1>7. \A k : Arrived(k) => Arrived(k)'
  BY <1>3, Zenon DEF Arrived
<1>8. Received(rx) \subseteq Received(rx')
  BY <1>2, <1>3, <1>4 DEF Received
<1>9. Remote'
  <2>1. rx'.data \subseteq 1..Len(q.assigned)
    BY <1>2, <1>3, Zenon
  <2>2. skipped \in 0..Len(q.assigned) /\ Arrived(skipped)'
    BY <1>2, <1>4, <1>7, Zenon
  <2>3. \A k \in sacks : /\ k.cumulative_tsn_ack \in 0..Len(q.assigned)
                         /\ 1..k.cumulative_tsn_ack \subseteq Received(rx')
                         /\ k.gap_acked \subseteq rx'.data
                         /\ k.a_rwnd \in Nat
    BY <1>1, <1>3, <1>8, Zenon DEF Remote
  <2>4. 1..q.last_cumulative_tsn_ack \subseteq Received(rx')
    BY <1>1, <1>8, Zenon DEF Remote
  <2>5. \A k \in net' : /\ k.tsns \subseteq 1..Len(q.assigned)
                        /\ k.forward_tsn \in 0..Len(q.assigned) /\ Arrived(k.forward_tsn)'
    BY <1>1, <1>3, <1>7, Zenon DEF Remote
  <2>6. Received(rx)' = Received(rx')
    BY DEF Received
  <2> QED
    BY <1>3, <2>1, <2>2, <2>3, <2>4, <2>5, <2>6, Zenon DEF Remote
<1> QED
  BY <1>5, <1>6, <1>9, Zenon DEF QueueInv

\* The receiver has a cumulative TSN.
LEMMA CumulativeIs ==
  ASSUME AtRest, Remote
  PROVE  /\ Cumulative(rx) \in 0..Len(q.assigned)
         /\ 1..Cumulative(rx) \subseteq Received(rx)
<1> DEFINE T == {t \in Nat : t + 1 \notin Received(rx)}
<1>1. Len(q.assigned) \in Nat /\ Received(rx) \subseteq 1..Len(q.assigned)
  BY RestType DEF AtRest, Remote, Received
<1>2. Len(q.assigned) \in T
  BY <1>1
<1>3. PICK t \in T : \A k \in T : t <= k
  BY <1>2, LeastNatural, Zenon
<1>4. t \in Nat /\ t + 1 \notin Received(rx) /\ t <= Len(q.assigned)
  BY <1>2, <1>3, Zenon
<1>5. ASSUME NEW k \in 1..t PROVE k \in Received(rx)
  <2>1. k - 1 \in Nat /\ ~(t <= k - 1) /\ (k - 1) + 1 = k
    BY <1>4
  <2>2. k - 1 \notin T
    <3> HIDE DEF T
    <3> QED
      BY <1>3, <2>1, Zenon
  <2> QED
    BY <2>1, <2>2, Zenon
<1>6. \E j \in 0..Len(q.assigned) : 1..j \subseteq Received(rx) /\ j + 1 \notin Received(rx)
  BY <1>1, <1>4, <1>5
<1> QED
  BY <1>6, Zenon DEF Cumulative

LEMMA SendSackInv ==
  ASSUME QueueInv, NEW a_rwnd \in ARwnds(Messages), SendSack(a_rwnd)
  PROVE  QueueInv'
<1> DEFINE gap == {t \in rx.data : t > Cumulative(rx)}
           sack == [cumulative_tsn_ack |-> Cumulative(rx), gap_acked |-> gap, a_rwnd |-> a_rwnd]
<1>1. AtRest /\ Remote /\ Timed
  BY DEF QueueInv
<1>2. /\ UNCHANGED <<Messages, q, net>> /\ sacks' = sacks \cup {sack}
      /\ rx' = [rx EXCEPT !.owed = FALSE]
  BY DEF SendSack
<1>3. rx'.data = rx.data /\ rx'.skipped = rx.skipped
  BY <1>2
<1>4. AtRest'
  BY <1>1, <1>2, RestPrime, Zenon DEF AtRest
<1>5. Timed'
  BY <1>1, <1>2, Zenon DEF Timed
<1>6. /\ \A k : Arrived(k)' <=> Arrived(k)
      /\ Received(rx)' = Received(rx)
  BY <1>2, <1>3, Zenon DEF Arrived, Received
<1>7. a_rwnd \in Nat
  BY <1>1, QueueAssumption, Zenon DEF AtRest, Rest, Good, Typed
<1>8. gap \subseteq rx.data
  OBVIOUS
<1> HIDE DEF gap
<1>9. \A k \in sacks' : /\ k.cumulative_tsn_ack \in 0..Len(q.assigned)
                        /\ 1..k.cumulative_tsn_ack \subseteq Received(rx)
                        /\ k.gap_acked \subseteq rx.data
                        /\ k.a_rwnd \in Nat
  <2> TAKE k \in sacks'
  <2>1. CASE k \in sacks
    BY <1>1, <2>1, Zenon DEF Remote
  <2>2. CASE k = sack
    <3> DEFINE c == Cumulative(rx)
    <3>1. c \in 0..Len(q.assigned) /\ 1..c \subseteq Received(rx)
      BY <1>1, CumulativeIs, Zenon
    <3> HIDE DEF c
    <3>2. /\ k.cumulative_tsn_ack = c /\ k.gap_acked = gap /\ k.a_rwnd = a_rwnd
      BY <2>2, Zenon DEF c
    <3> QED
      BY <1>7, <1>8, <3>1, <3>2, Zenon
  <2> QED
    BY <1>2, <2>1, <2>2, Zenon
<1>10. Remote'
  BY <1>1, <1>2, <1>3, <1>6, <1>9, Zenon DEF Remote
<1> QED
  BY <1>4, <1>5, <1>10, Zenon DEF QueueInv

LEMMA InitInv ==
  ASSUME Init
  PROVE  QueueInv
<1>1. /\ Messages \in Scripts /\ net = {} /\ sacks = {}
      /\ rx.data = {} /\ rx.skipped = 0
      /\ DOMAIN q = AllFields /\ IsRecord(q)
      /\ q.last_cumulative_tsn_ack = 0 /\ q.highest_tsn = 0 /\ q.outstanding_data = <<>>
      /\ q.unacked_payload_bytes = 0 /\ q.unacked_packet_bytes = 0 /\ q.unacked_items = 0
      /\ q.to_be_fast_retransmitted = {} /\ q.to_be_retransmitted = {}
      /\ q.cwnd = cwnd_mtus_initial * Mtu /\ q.rwnd = InitialRwnd /\ q.ssthresh = InitialRwnd
      /\ q.partial_bytes_acked = 0 /\ q.t3_rtx = FALSE /\ q.limit_forward_tsn = FALSE
      /\ q.send_queue = <<>> /\ q.out = {} /\ q.ended = [m \in MessageIds |-> <<>>]
      /\ q.assigned = <<>> /\ q.given_up = {} /\ q.accepted = 0
  BY ZenonT(30) DEF Init, AllFields, QueueFields, IsRecord
<1>2. Tsns(q) = {} /\ IsRecord(q.outstanding_data) /\ Len(q.assigned) = 0
  BY <1>1, SMTT(20) DEF Tsns, IsRecord
<1>3. Shape(q)
  BY <1>1, <1>2, SMTT(20) DEF Shape, AllFields
<1>4. Counted(q) /\ Marked(q)
  <2>1. Unacked(q) = {} /\ {t \in Tsns(q) : should_be_retransmitted(q.outstanding_data[t])} = {}
    BY <1>2, Zenon DEF Unacked
  <2>2. PayloadBytes(q, {}) = 0 /\ PacketBytes(q, {}) = 0
    BY SumEmpty, Zenon DEF PayloadBytes, PacketBytes
  <2>3. Cardinality({}) = 0
    BY FS_EmptySet, Zenon
  <2> QED
    BY <1>1, <2>1, <2>2, <2>3, Zenon DEF Counted, Marked
<1>5. Typed(q)
  <2>1. cwnd_mtus_initial * Mtu \in Int /\ InitialRwnd \in Int
    BY QueueAssumption, SMTT(20)
  <2>2. Len(Messages) \in Nat
    BY <1>1, QueueAssumption
  <2>3. q.cwnd \in Int /\ q.rwnd \in Int /\ q.ssthresh \in Int
    BY <1>1, <2>1, Zenon
  <2>4. q.accepted \in 0..Len(Messages) /\ q.partial_bytes_acked \in Int
    BY <1>1, <2>2
  <2>5. q.t3_rtx \in BOOLEAN /\ q.limit_forward_tsn \in BOOLEAN
    BY <1>1, Zenon
  <2> QED
    BY <1>1, <2>3, <2>4, <2>5, Zenon DEF Typed
<1>6. Owned(q, q.ended) /\ Whole(q) /\ Packed(q)
  BY <1>1, <1>2 DEF Owned, Whole, Packed
<1>7. Waiting(q) /\ Fresh(q) /\ Over(q, q.ended)
  <2>1. \A m : ChunksOf(q, m) = {}
    BY <1>2, Zenon DEF ChunksOf
  <2>2. DOMAIN q.send_queue = {}
    BY <1>1, SMTT(20)
  <2>3. Waiting(q)
    BY <2>2, Zenon DEF Waiting
  <2>4. \A m \in MessageIds : q.ended[m] = <<>>
    BY <1>1, Zenon
  <2>5. Fresh(q)
    BY <1>1, <2>4, Zenon DEF Fresh
  <2>6. <<>> # <<"Expired">> /\ <<>> # <<"Delivered">>
    BY SMTT(20)
  <2>7. Over(q, q.ended)
    BY <1>1, <2>1, <2>4, <2>6, Zenon DEF Over
  <2> QED
    BY <2>3, <2>5, <2>7, Zenon
<1>8. AtRest
  <2>1. \A m \in MessageIds : q.ended[m] # <<"Expired">>
    BY <1>1
  <2>2. Good(q, q.ended)
    BY <1>3, <1>4, <1>5, <1>6, <1>7, Zenon DEF Good, Sane
  <2> QED
    BY <1>1, <1>2, <2>1, <2>2, Zenon DEF AtRest, Rest
<1>9. Timed
  BY <1>2, Zenon DEF Timed
<1>10. Remote
  BY <1>1, <1>2 DEF Remote, Arrived, Received
<1> QED
  BY <1>8, <1>9, <1>10, Zenon DEF QueueInv

LEMMA NextInv ==
  ASSUME QueueInv, [Next]_vars
  PROVE  QueueInv'
<1> USE DEF vars
<1>1. CASE Send
  <2>1. UNCHANGED <<Messages, rx>> /\ sacks' \subseteq sacks
    BY <1>1 DEF Send
  <2> QED
    BY <1>1, <2>1, SendIsHandler, HandlerInv, Zenon
<1>2. ASSUME NEW sack \in sacks, ReceiveSack(sack) PROVE QueueInv'
  <2>1. UNCHANGED <<Messages, rx>> /\ sacks' \subseteq sacks
    BY <1>2, Zenon DEF ReceiveSack
  <2>2. CASE ~q.aborted /\ IsSackValid(q, sack)
    <3>1. Sends(SendBufferedPackets(MaybeSendFastRetransmit(HandleSack(q, sack))))
      BY <1>2, <2>2, Zenon DEF ReceiveSack
    <3> QED
      BY <2>1, <2>2, <3>1, SackIsHandler, HandlerInv, Zenon
  <2>3. CASE ~(~q.aborted /\ IsSackValid(q, sack))
    <3>1. UNCHANGED <<q, net>>
      BY <1>2, <2>3, Zenon DEF ReceiveSack
    <3> QED
      BY <2>1, <3>1, QuietInv, Zenon
  <2> QED
    BY <2>2, <2>3, Zenon
<1>3. CASE OnRtxTimerExpiry
  <2>1. UNCHANGED <<Messages, rx, sacks>> /\ ~q.aborted
    BY <1>3, Zenon DEF OnRtxTimerExpiry
  <2>2. CASE q.tx_error_counter + 1 > max_retransmissions
    <3>1. q' = [q EXCEPT !.aborted = TRUE, !.t3_rtx = FALSE] /\ UNCHANGED net
      BY <1>3, <2>2, Zenon DEF OnRtxTimerExpiry
    <3>2. Typed(q) /\ Sane(q)
      BY Zenon DEF QueueInv, AtRest, Rest, Good
    <3>3. Frame(q', q, ControlFields) /\ Typed(q') /\ q'.aborted
      BY <3>1, <3>2, Zenon DEF Typed, Frame, IsRecord, Sane, Shape, AllFields, QueueFields,
                        ControlFields
    <3> QED
      BY <2>1, <3>1, <3>3, ControlInv, Zenon
  <2>3. CASE ~(q.tx_error_counter + 1 > max_retransmissions)
    <3>1. Sends(SendBufferedPackets(HandleT3RtxTimerExpiry(
                  [q EXCEPT !.tx_error_counter = @ + 1])))
      BY <1>3, <2>3, Zenon DEF OnRtxTimerExpiry
    <3> QED
      BY <2>1, <3>1, ExpiryIsHandler, HandlerInv, Zenon
  <2> QED
    BY <2>2, <2>3, Zenon
<1>4. ASSUME NEW m \in DOMAIN Messages, Lapse(m) PROVE QueueInv'
  BY <1>4, QuietInv, Zenon DEF Lapse
<1>5. CASE ForwardTsnAgain
  <2>1. q' = [q EXCEPT !.limit_forward_tsn = FALSE] /\ UNCHANGED <<Messages, rx, net, sacks>>
    BY <1>5, Zenon DEF ForwardTsnAgain
  <2>2. Typed(q) /\ Sane(q) /\ Rest(q)
    BY Zenon DEF QueueInv, AtRest, Rest, Good
  <2>3. /\ Frame(q', q, ControlFields) /\ Typed(q')
        /\ q'.aborted = q.aborted /\ q'.t3_rtx = q.t3_rtx
    BY <2>1, <2>2, Zenon
       DEF Typed, Frame, IsRecord, Sane, Shape, AllFields, QueueFields, ControlFields
  <2>4. Pending(q') <=> Pending(q)
    BY <2>2, <2>3, RestControl, Zenon
  <2>5. Pending(q') /\ ~q'.aborted => q'.t3_rtx
    BY <2>3, <2>4, Zenon DEF QueueInv, Timed, Pending, GivenUp
  <2> QED
    BY <2>1, <2>3, <2>5, ControlInv, Zenon
<1>6. ASSUME NEW p \in net, Receive(p) PROVE QueueInv'
  BY <1>6, ReceiveInv
<1>7. ASSUME NEW a_rwnd \in ARwnds(Messages), SendSack(a_rwnd) PROVE QueueInv'
  BY <1>7, SendSackInv, Zenon
<1>8. CASE Lose
  BY <1>8, QuietInv, Zenon DEF Lose
<1>9. CASE UNCHANGED vars
  BY <1>9, QuietInv, Zenon
<1> QED
  BY <1>1, <1>2, <1>3, <1>4, <1>5, <1>6, <1>7, <1>8, <1>9, Zenon DEF Next

\* QueueInv holds between any two handlers.
THEOREM QueueInvariant == Spec => []QueueInv
<1>1. Init => QueueInv
  BY InitInv, Zenon
<1>2. QueueInv /\ [Next]_vars => QueueInv'
  BY NextInv
<1> QED
  BY <1>1, <1>2, PTL DEF Spec

\* OutstandingData::IsConsistent() between handlers, for any traffic.
THEOREM QueueConsistent == Spec => []Consistent
<1>1. QueueInv => Consistent
  BY SaneIsConsistent, Zenon DEF QueueInv, AtRest, Rest, Good, Consistent
<1> QED
  BY <1>1, QueueInvariant, PTL

\* T3-rtx runs while a chunk that was not given up waits for its acknowledgement.
THEOREM T3RtxRuns == Spec => []Timed
<1>1. QueueInv => Timed
  BY DEF QueueInv
<1> QED
  BY <1>1, QueueInvariant, PTL

\* A message is reported as delivered only when the receiver has all of it.
THEOREM DeliveredHasArrived == Spec => []DeliveredIsReceived
<1>1. ASSUME QueueInv PROVE DeliveredIsReceived
  <2>1. AtRest /\ Remote
    BY <1>1, Zenon DEF QueueInv
  <2>2. SUFFICES ASSUME NEW t \in 1..Len(q.assigned),
                        q.ended[q.assigned[t]] = <<"Delivered">>
                 PROVE  t \in rx.data
    BY Zenon DEF DeliveredIsReceived, MT!DeliveredIsReceived
  <2> DEFINE m == q.assigned[t]
  <2>3. /\ Len(q.assigned) \in Nat /\ q.assigned \in Seq(MessageIds)
        /\ Len(q.assigned) = q.highest_tsn /\ Shape(q) /\ Over(q, q.ended) /\ Owned(q, q.ended)
    BY <2>1, RestType, Zenon DEF AtRest, Rest, Good, Sane, Owned
  <2>4. m \in MessageIds
    BY <2>3, SMTT(20)
  <2>5. ChunksOf(q, m) = {} /\ m \notin q.given_up
    BY <2>2, <2>3, <2>4, Zenon DEF Over
  <2>6. t \notin Tsns(q)
    BY <2>3, <2>5 DEF ChunksOf, Owned
  <2>7. t \in 1..q.last_cumulative_tsn_ack
    BY <2>3, <2>6 DEF Shape
  <2>8. t \in Received(rx)
    BY <2>1, <2>7, Zenon DEF Remote
  <2>9. CASE t \in 1..rx.skipped
    BY <2>1, <2>5, <2>9, Zenon DEF Remote, Arrived
  <2> QED
    BY <2>8, <2>9, Zenon DEF Received
<1> QED
  BY <1>1, QueueInvariant, PTL

\* What a handler adds to the flight is within the window.
LEMMA HandlerInCwnd ==
  ASSUME QueueInv, q.fast_recovery_exit_tsn \in Nat, NEW s, NEW b, Handler(s, b), Sends(s)
  PROVE  q'.fast_recovery_exit_tsn \in Nat /\ GrowsInCwnd
<1>1. AtRest /\ q' = Finished(s)
  BY SendsFinished, Zenon DEF QueueInv
<1>2. Bounded(q')
  BY <1>1, HandlerExtends, Zenon
<1> QED
  BY <1>2, Zenon DEF Bounded, Beyond, GrowsInCwnd

\* What does not send leaves the flight alone.
LEMMA SameInCwnd ==
  ASSUME QueueInv, q.fast_recovery_exit_tsn \in Nat,
         q'.unacked_packet_bytes = q.unacked_packet_bytes, q'.cwnd = q.cwnd,
         q'.fast_recovery_exit_tsn = q.fast_recovery_exit_tsn
  PROVE  q'.fast_recovery_exit_tsn \in Nat /\ GrowsInCwnd
<1> DEFINE x == q.unacked_packet_bytes
           y == q.cwnd
<1>1. x \in Int /\ y \in Int
  BY InFlight, Zenon DEF QueueInv, AtRest, Rest, Good, Typed
<1> HIDE DEF x, y
<1>2. Max({x, y}) >= x /\ Max({x, y}) \in Int
  BY <1>1, MaxOfTwo, Zenon
<1>3. x <= Max({x, y}) + 0
  BY <1>1, <1>2
<1> QED
  BY <1>3, Zenon DEF GrowsInCwnd, x, y

\* What is in flight grows only as far as the congestion window, but for the one
\* packet sent on entering fast recovery, whatever is lost and acknowledged.
THEOREM FlightInCwnd == Spec => InCwnd
<1> DEFINE Exits == q.fast_recovery_exit_tsn \in Nat
<1>1. Init => Exits
  BY DEF Init, None
<1>2. ASSUME QueueInv, Exits, [Next]_vars PROVE Exits' /\ [GrowsInCwnd]_q
  <2> USE <1>2
  <2>1. CASE UNCHANGED q
    BY <2>1, Zenon
  <2>2. CASE Send
    BY <2>2, SendIsHandler, HandlerInCwnd, Zenon
  <2>3. ASSUME NEW sack \in sacks, ReceiveSack(sack) PROVE Exits' /\ [GrowsInCwnd]_q
    <3>1. CASE ~q.aborted /\ IsSackValid(q, sack)
      <4>1. Sends(SendBufferedPackets(MaybeSendFastRetransmit(HandleSack(q, sack))))
        BY <2>3, <3>1, Zenon DEF ReceiveSack
      <4> QED
        BY <3>1, <4>1, SackIsHandler, HandlerInCwnd, Zenon
    <3>2. CASE ~(~q.aborted /\ IsSackValid(q, sack))
      BY <2>1, <2>3, <3>2, Zenon DEF ReceiveSack
    <3> QED
      BY <3>1, <3>2, Zenon
  <2>4. DOMAIN q = AllFields
    BY Zenon DEF QueueInv, AtRest, Rest, Good, Typed
  <2>5. CASE OnRtxTimerExpiry
    <3>1. CASE q.tx_error_counter + 1 > max_retransmissions
      <4>1. q' = [q EXCEPT !.aborted = TRUE, !.t3_rtx = FALSE]
        BY <2>5, <3>1, Zenon DEF OnRtxTimerExpiry
      <4>2. /\ q'.unacked_packet_bytes = q.unacked_packet_bytes /\ q'.cwnd = q.cwnd
            /\ q'.fast_recovery_exit_tsn = q.fast_recovery_exit_tsn
        BY <2>4, <4>1, Zenon DEF AllFields, QueueFields
      <4> QED
        BY <4>2, SameInCwnd, Zenon
    <3>2. CASE ~(q.tx_error_counter + 1 > max_retransmissions)
      <4>1. /\ ~q.aborted
            /\ Sends(SendBufferedPackets(HandleT3RtxTimerExpiry(
                       [q EXCEPT !.tx_error_counter = @ + 1])))
        BY <2>5, <3>2, Zenon DEF OnRtxTimerExpiry
      <4> QED
        BY <4>1, ExpiryIsHandler, HandlerInCwnd, Zenon
    <3> QED
      BY <3>1, <3>2, Zenon
  <2>6. CASE ForwardTsnAgain
    <3>1. q' = [q EXCEPT !.limit_forward_tsn = FALSE]
      BY <2>6, Zenon DEF ForwardTsnAgain
    <3>2. /\ q'.unacked_packet_bytes = q.unacked_packet_bytes /\ q'.cwnd = q.cwnd
          /\ q'.fast_recovery_exit_tsn = q.fast_recovery_exit_tsn
      BY <2>4, <3>1, Zenon DEF AllFields, QueueFields
    <3> QED
      BY <3>2, SameInCwnd, Zenon
  <2>7. ASSUME NEW m \in DOMAIN Messages, Lapse(m) PROVE UNCHANGED q
    BY <2>7, Zenon DEF Lapse
  <2>8. ASSUME NEW p \in net, Receive(p) PROVE UNCHANGED q
    BY <2>8, Zenon DEF Receive
  <2>9. ASSUME NEW a_rwnd \in ARwnds(Messages), SendSack(a_rwnd) PROVE UNCHANGED q
    BY <2>9, Zenon DEF SendSack
  <2>10. CASE Lose
    BY <2>1, <2>10, Zenon DEF Lose
  <2>11. CASE UNCHANGED vars
    BY <2>1, <2>11, Zenon DEF vars
  <2> QED
    BY <2>1, <2>2, <2>3, <2>5, <2>6, <2>7, <2>8, <2>9, <2>10, <2>11, Zenon DEF Next
<1> HIDE DEF Exits
<1>3. QueueInv /\ Exits /\ [Next]_vars => Exits' /\ [GrowsInCwnd]_q
  BY <1>2, Zenon
<1> QED
  BY <1>1, <1>3, QueueInvariant, PTL DEF Spec, InCwnd

------------------------------------------------------------------------------
(* The queue implements the contract of MessageTransfer.  Every message    *)
(* counts as limited here: after 65535 retransmissions the code gives up   *)
(* a message without limits too.                                           *)

Contract == INSTANCE MessageTransfer WITH
              limited <- MessageIds,
              owner <- q.assigned,
              abandoned <- q.given_up,
              cum <- q.last_cumulative_tsn_ack,
              ended <- q.ended,
              data <- rx.data,
              skipped <- rx.skipped

\* A handler is a step of the contract's sender.
LEMMA HandlerIsSender ==
  ASSUME QueueInv, NEW s, NEW b, Handler(s, b), Sends(s), UNCHANGED rx
  PROVE  Contract!Sender
<1>1. AtRest /\ Rest(q) /\ q' = Finished(s)
  BY SendsFinished, Zenon DEF QueueInv, AtRest
<1>2. /\ Rest(q') /\ Extends(q', q)
      /\ q'.last_cumulative_tsn_ack = b.last_cumulative_tsn_ack
      /\ Len(q'.assigned) = s.highest_tsn
      /\ \A t \in Tsns(s) : q'.assigned[t] = Id(s, t)
  BY <1>1, HandlerExtends, Zenon
<1>3. /\ Good(s, q.ended) /\ s.assigned = q.assigned /\ s.given_up = q.given_up
      /\ Owned(s, q.ended) /\ Over(s, q.ended) /\ Shape(s)
  BY Zenon DEF Handler, Ready, Handled, Kept, Good, Sane
<1>4. /\ Frame(q', s, {"out", "assigned", "given_up"})
      /\ \A m : m \in q'.given_up <=>
           \/ m \in s.given_up
           \/ m \in MessageIds /\ s.ended[m] = <<"Expired">>
           \/ \E t \in Tsns(s) : GivenUp(s, t) /\ Id(s, t) = m
  BY <1>1, <1>3, FinishedIs, Zenon
<1>5. q'.ended = s.ended
  BY <1>3, <1>4, Zenon DEF Good, Frame, Typed, AllFields, QueueFields
<1>6. /\ Len(q.assigned) \in Nat /\ Len(q'.assigned) \in Nat
      /\ q'.assigned \in Seq(MessageIds) /\ q'.given_up \subseteq MessageIds
      /\ q.last_cumulative_tsn_ack \in Nat
      /\ q'.last_cumulative_tsn_ack \in 0..Len(q'.assigned)
      /\ Tsns(q') = (q'.last_cumulative_tsn_ack + 1)..Len(q'.assigned)
      /\ \A t \in Tsns(q') : q'.assigned[t] = Id(q', t)
      /\ Over(q', q'.ended) /\ Over(q, q.ended)
      /\ \A m \in MessageIds : q'.ended[m] = <<"Expired">> => m \in q'.given_up
      /\ \A m \in MessageIds : q.ended[m] = <<"Expired">> => m \in q.given_up
  <2> DEFINE r == q'
  <2>1. /\ Len(q.assigned) \in Nat /\ q.last_cumulative_tsn_ack \in Nat /\ Over(q, q.ended)
        /\ \A m \in MessageIds : q.ended[m] = <<"Expired">> => m \in q.given_up
    BY <1>1, RestType DEF Rest, Good
  <2>2. Rest(r)
    BY <1>2, Zenon
  <2> HIDE DEF r
  <2>3. /\ Len(r.assigned) \in Nat /\ r.assigned \in Seq(MessageIds)
        /\ r.last_cumulative_tsn_ack \in 0..Len(r.assigned)
        /\ Tsns(r) = (r.last_cumulative_tsn_ack + 1)..Len(r.assigned)
        /\ \A t \in Tsns(r) : r.assigned[t] = Id(r, t)
    BY <2>2, RestType, Zenon
  <2>4. /\ Over(r, r.ended) /\ r.given_up \subseteq MessageIds
        /\ \A m \in MessageIds : r.ended[m] = <<"Expired">> => m \in r.given_up
    BY <2>2, Zenon DEF Rest, Good
  <2> QED
    BY <2>1, <2>3, <2>4, Zenon DEF r
<1>7. Contract!AssignTsns
  <2>1. ASSUME NEW t \in (Len(q.assigned) + 1)..Len(q'.assigned)
        PROVE  q.ended[q'.assigned[t]] = <<>>
    <3>1. /\ s.last_cumulative_tsn_ack <= Len(s.assigned)
          /\ s.last_cumulative_tsn_ack \in Nat
          /\ Tsns(s) = (s.last_cumulative_tsn_ack + 1)..s.highest_tsn
      BY <1>3, Zenon DEF Owned, Shape
    <3>2. t \in Tsns(s) /\ t > Len(s.assigned)
      BY <1>2, <1>3, <1>6, <3>1
    <3>3. q.ended[Id(s, t)] = <<>>
      BY <1>3, <3>2, Zenon DEF Owned
    <3> QED
      BY <1>2, <3>2, <3>3, Zenon
  <2> QED
    BY <1>2, <1>6, <2>1, Zenon DEF Contract!AssignTsns, Extends
<1>8. Contract!Abandon
  <2>1. ASSUME NEW m \in q'.given_up, m \notin q.given_up PROVE q.ended[m] = <<>>
    <3>1. /\ m \in MessageIds /\ q.ended[m] # <<"Expired">>
          /\ q.ended[m] \in {<<>>, <<"Expired">>, <<"Delivered">>}
          /\ s.ended[m] = q.ended[m] \/ q.ended[m] = <<>>
          /\ s.ended[m] = <<"Delivered">> => ChunksOf(s, m) = {}
      BY <1>3, <1>6, <2>1, Zenon DEF Over
    <3>2. CASE s.ended[m] = <<"Expired">>
      BY <3>1, <3>2, Zenon
    <3>3. CASE \E t \in Tsns(s) : GivenUp(s, t) /\ Id(s, t) = m
      <4>1. ChunksOf(s, m) # {}
        BY <3>3, Zenon DEF ChunksOf
      <4> QED
        BY <3>1, <4>1, Zenon
    <3> QED
      BY <1>3, <1>4, <2>1, <3>2, <3>3, Zenon
  <2> QED
    BY <1>2, <1>6, <2>1, Zenon DEF Contract!Abandon, Extends
<1>9. Contract!Acknowledge
  <2>1. /\ q'.last_cumulative_tsn_ack >= q.last_cumulative_tsn_ack
        /\ 1..q'.last_cumulative_tsn_ack \subseteq Received(rx)
    BY <1>2, Zenon DEF Handler
  <2>2. rx.skipped \in Nat
    BY <1>6 DEF QueueInv, Remote
  <2>3. \A t \in 1..q'.last_cumulative_tsn_ack : Contract!Has(t)
    <3> TAKE t \in 1..q'.last_cumulative_tsn_ack
    <3>1. t \in rx.data \/ t \in 1..rx.skipped
      BY <2>1, Zenon DEF Received
    <3>2. t \in 1..rx.skipped => t <= rx.skipped
      BY <2>2, SMTT(20)
    <3> QED
      BY <3>1, <3>2, Zenon DEF Contract!Has
  <2>4. q'.last_cumulative_tsn_ack \in q.last_cumulative_tsn_ack..Len(q'.assigned)
    BY <1>6, <2>1
  <2> QED
    BY <2>3, <2>4, Zenon DEF Contract!Acknowledge
<1>10. ASSUME NEW m \in MessageIds PROVE Contract!End(m)
  <2>1. /\ q'.ended[m] \in {<<>>, <<"Expired">>, <<"Delivered">>}
        /\ q'.ended[m] = q.ended[m] \/ q.ended[m] = <<>>
    BY <1>3, <1>5, Zenon DEF Over
  <2>2. q'.ended[m] = <<"Expired">> => m \in q'.given_up
    BY <1>6, Zenon
  <2>3. ASSUME q'.ended[m] = <<"Delivered">>
        PROVE  /\ m \notin q'.given_up
               /\ \A t \in 1..Len(q'.assigned) :
                    q'.assigned[t] = m => t <= q'.last_cumulative_tsn_ack
    <3>1. ChunksOf(q', m) = {} /\ m \notin q'.given_up
      BY <1>6, <2>3, Zenon DEF Over
    <3>2. \A t \in Tsns(q') : q'.assigned[t] # m
      BY <1>6, <3>1, Zenon DEF ChunksOf
    <3> QED
      BY <1>6, <3>1, <3>2
  <2> QED
    BY <2>1, <2>2, <2>3, Zenon DEF Contract!End
<1>11. DOMAIN q'.ended = MessageIds
  BY <1>6, Zenon DEF Over
<1> QED
  BY <1>7, <1>8, <1>9, <1>10, <1>11, Zenon DEF Contract!Sender

\* A packet that arrives is a step of the contract's receiver.
LEMMA ReceiveIsReceiver ==
  ASSUME QueueInv, NEW p \in net, Receive(p)
  PROVE  Contract!Receiver
<1>1. /\ Remote /\ Len(q.assigned) \in Nat
  BY RestType, Zenon DEF QueueInv, AtRest
<1>2. /\ rx.data \subseteq 1..Len(q.assigned) /\ p.tsns \subseteq 1..Len(q.assigned)
      /\ rx.skipped \in 0..Len(q.assigned) /\ p.forward_tsn \in 0..Len(q.assigned)
      /\ Arrived(rx.skipped) /\ Arrived(p.forward_tsn)
  BY <1>1, Zenon DEF Remote
<1>3. PICK skipped : /\ skipped = Max({rx.skipped, p.forward_tsn}) /\ UNCHANGED q
                     /\ rx'.data = rx.data \cup (p.tsns \ 1..skipped)
                     /\ rx'.skipped = skipped
  BY Zenon DEF Receive
<1>4. skipped \in {rx.skipped, p.forward_tsn} /\ skipped >= rx.skipped /\ skipped \in Int
  <2> DEFINE x == rx.skipped
             y == p.forward_tsn
  <2>1. x \in Int /\ y \in Int
    BY <1>2, SMTT(20)
  <2>2. skipped = Max({x, y})
    BY <1>3, Zenon
  <2> HIDE DEF x, y
  <2>3. skipped \in {x, y} /\ skipped >= x /\ skipped \in Int
    BY <2>1, <2>2, MaxOfTwo
  <2> QED
    BY <2>3 DEF x, y
<1>5. \A t \in 1..skipped : t \in rx.data \/ q.assigned[t] \in q.given_up
  BY <1>2, <1>4 DEF Arrived
<1> QED
  BY <1>2, <1>3, <1>4, <1>5, Zenon DEF Contract!Receiver, Contract!Has

\* Windows, timers, losses and FORWARD-TSNs keep the contract of the lifecycle
\* callbacks: a message ends at most once, as delivered only when each of its
\* fragments has arrived.
THEOREM QueueImplementsContract == Spec => Contract!Spec
<1>1. Init => Contract!Init
  BY DEF Init, Contract!Init
<1>2. ASSUME QueueInv, [Next]_vars PROVE [Contract!Next]_(Contract!vars)
  <2> USE <1>2
  <2>1. SUFFICES Contract!Sender \/ Contract!Receiver \/ UNCHANGED Contract!vars
    BY DEF Contract!Next
  <2>2. CASE Send
    <3>1. UNCHANGED rx
      BY <2>2 DEF Send
    <3> QED
      BY <2>2, <3>1, SendIsHandler, HandlerIsSender, Zenon
  <2>3. ASSUME NEW sack \in sacks, ReceiveSack(sack), ~q.aborted, IsSackValid(q, sack)
        PROVE  Contract!Sender
    <3>1. /\ UNCHANGED rx
          /\ Sends(SendBufferedPackets(MaybeSendFastRetransmit(HandleSack(q, sack))))
      BY <2>3 DEF ReceiveSack
    <3> QED
      BY <2>3, <3>1, SackIsHandler, HandlerIsSender, Zenon
  <2>4. ASSUME OnRtxTimerExpiry, ~(q.tx_error_counter + 1 > max_retransmissions)
        PROVE  Contract!Sender
    <3>1. /\ UNCHANGED rx /\ ~q.aborted
          /\ Sends(SendBufferedPackets(HandleT3RtxTimerExpiry(
                     [q EXCEPT !.tx_error_counter = @ + 1])))
      BY <2>4 DEF OnRtxTimerExpiry
    <3> QED
      BY <3>1, ExpiryIsHandler, HandlerIsSender, Zenon
  <2>5. ASSUME NEW p \in net, Receive(p) PROVE Contract!Receiver
    BY <2>5, ReceiveIsReceiver, Zenon
  <2>6. ASSUME Frame(q', q, ControlFields), UNCHANGED rx PROVE UNCHANGED Contract!vars
    <3>1. DOMAIN q = AllFields
      BY Zenon DEF QueueInv, AtRest, Rest, Good, Typed
    <3> QED
      BY <2>6, <3>1, SMTT(20) DEF Frame, AllFields, QueueFields, ControlFields, Contract!vars
  <2>7. ASSUME UNCHANGED <<q, rx>> PROVE UNCHANGED Contract!vars
    BY <2>7, Zenon DEF Contract!vars
  <2>8. ASSUME NEW sack \in sacks, ReceiveSack(sack), ~(~q.aborted /\ IsSackValid(q, sack))
        PROVE  UNCHANGED Contract!vars
    BY <2>7, <2>8 DEF ReceiveSack
  <2>9. IsRecord(q) /\ DOMAIN q = AllFields
    BY Zenon DEF QueueInv, AtRest, Rest, Good, Typed, Sane, Shape
  <2>10. ASSUME OnRtxTimerExpiry, q.tx_error_counter + 1 > max_retransmissions
         PROVE  UNCHANGED Contract!vars
    <3>1. q' = [q EXCEPT !.aborted = TRUE, !.t3_rtx = FALSE] /\ UNCHANGED rx
      BY <2>10 DEF OnRtxTimerExpiry
    <3>2. Frame(q', q, ControlFields)
      BY <2>9, <3>1, Zenon DEF Frame, IsRecord, AllFields, QueueFields, ControlFields
    <3> QED
      BY <2>6, <3>1, <3>2, Zenon
  <2>11. CASE ForwardTsnAgain
    <3>1. q' = [q EXCEPT !.limit_forward_tsn = FALSE] /\ UNCHANGED rx
      BY <2>11, Zenon DEF ForwardTsnAgain
    <3>2. Frame(q', q, ControlFields)
      BY <2>9, <3>1, Zenon DEF Frame, IsRecord, AllFields, QueueFields, ControlFields
    <3> QED
      BY <2>6, <3>1, <3>2, Zenon
  <2>12. ASSUME NEW a_rwnd \in ARwnds(Messages), SendSack(a_rwnd) PROVE UNCHANGED Contract!vars
    BY <2>12 DEF SendSack, Contract!vars
  <2>13. CASE Lose
    BY <2>7, <2>13, SMTT(20) DEF Lose
  <2>14. ASSUME NEW m \in DOMAIN Messages, Lapse(m) PROVE UNCHANGED Contract!vars
    BY <2>7, <2>14, SMTT(20) DEF Lapse
  <2>15. CASE UNCHANGED vars
    BY <2>7, <2>15 DEF vars
  <2> QED
    BY <2>2, <2>3, <2>4, <2>5, <2>8, <2>10, <2>11, <2>12, <2>13, <2>14, <2>15, Zenon DEF Next
<1> QED
  BY <1>1, <1>2, QueueInvariant, PTL DEF Spec, Contract!Spec
==============================================================================
