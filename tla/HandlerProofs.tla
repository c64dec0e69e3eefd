---------------------------- MODULE HandlerProofs ----------------------------
(***************************************************************************)
(* What the methods of the sender of data keep true that its handlers are  *)
(* made of: sending packets, taking a message, handling a SACK or the      *)
(* expiry of T3-rtx, and what is left when the handler is over.            *)
(***************************************************************************)
EXTENDS SendingProofs

------------------------------------------------------------------------------
(* Packets.                                                                *)

Ready(s, e, b, o) == Handled(s, e, b) /\ (Pending(s) => s.t3_rtx) /\ Flown(s, o)

\* A FORWARD-TSN up to f skips only what is acknowledged or given up.
CanSkip(s, f) ==
  /\ f \in 0..s.highest_tsn
  /\ \A t \in 1..f : t <= s.last_cumulative_tsn_ack \/ (t \in Tsns(s) /\ GivenUp(s, t))

LEMMA CanSkipKept ==
  ASSUME NEW s, Sane(s), NEW f, CanSkip(s, f), NEW r, Sane(r), Kept(r, s)
  PROVE  CanSkip(r, f)
<1>1. /\ s.last_cumulative_tsn_ack \in Nat /\ r.highest_tsn \in Nat
      /\ r.last_cumulative_tsn_ack = s.last_cumulative_tsn_ack
      /\ r.last_cumulative_tsn_ack <= r.highest_tsn
      /\ Tsns(r) = (r.last_cumulative_tsn_ack + 1)..r.highest_tsn
      /\ f \in Nat
  BY DEF Sane, Shape, Kept, CanSkip
<1>2. \A t \in 1..f : t <= r.last_cumulative_tsn_ack \/ (t \in Tsns(r) /\ GivenUp(r, t))
  BY <1>1 DEF CanSkip, Kept
<1>3. f <= r.highest_tsn
  <2>1. CASE f = 0
    BY <1>1, <2>1
  <2>2. CASE f # 0
    <3>1. f \in 1..f
      BY <1>1, <2>2
    <3>2. f <= r.last_cumulative_tsn_ack \/ f \in Tsns(r)
      BY <1>2, <3>1
    <3> QED
      BY <1>1, <3>2
  <2> QED
    BY <2>1, <2>2
<1> QED
  BY <1>1, <1>2, <1>3, SMTT(20) DEF CanSkip

LEMMA ForwardTsnIs ==
  ASSUME NEW s, Sane(s)
  PROVE  CanSkip(s, ForwardTsn(s))
<1> DEFINE S == {s.last_cumulative_tsn_ack} \cup Skipped(s)
<1>1. /\ s.last_cumulative_tsn_ack \in Nat /\ s.highest_tsn \in Nat
      /\ s.last_cumulative_tsn_ack <= s.highest_tsn
      /\ Tsns(s) = (s.last_cumulative_tsn_ack + 1)..s.highest_tsn
  BY DEF Sane, Shape
<1>2. Skipped(s) \subseteq Tsns(s)
  BY DEF Skipped
<1>3. S \subseteq 0..s.highest_tsn /\ S # {}
  BY <1>1, <1>2
<1>4. S \subseteq Nat /\ \A x \in S : x <= s.highest_tsn
  BY <1>1, <1>3
<1> DEFINE f == Max(S)
<1>5. f \in S
  <2> HIDE DEF S
  <2> QED
    BY <1>1, <1>3, <1>4, MaxOf, Zenon
<1>6. CASE ForwardTsn(s) = None
  BY <1>1, <1>6 DEF CanSkip, None
<1>7. CASE ForwardTsn(s) # None
  <2>1. ForwardTsn(s) = f
    BY <1>7, Zenon DEF ForwardTsn
  <2> HIDE DEF f
  <2>2. ASSUME NEW t \in 1..f
        PROVE  t <= s.last_cumulative_tsn_ack \/ (t \in Tsns(s) /\ GivenUp(s, t))
    <3>1. CASE f = s.last_cumulative_tsn_ack
      BY <1>1, <3>1
    <3>2. CASE f \in Skipped(s) /\ t > s.last_cumulative_tsn_ack
      <4>1. f \in Tsns(s)
        BY <1>2, <3>2
      <4>2. t \in Tsns(s) /\ t <= f
        BY <1>1, <3>2, <4>1
      <4> QED
        BY <3>2, <4>2 DEF Skipped, GivenUp
    <3> QED
      BY <1>1, <1>5, <3>1, <3>2
  <2>3. f \in 0..s.highest_tsn
    BY <1>3, <1>5, SMTT(20)
  <2> QED
    BY <2>1, <2>2, <2>3 DEF CanSkip
<1> QED
  BY <1>6, <1>7

\* One more packet is sent.
LEMMA GoodOut ==
  ASSUME NEW s, NEW e, Good(s, e), NEW tsns, tsns \subseteq 1..s.highest_tsn,
         NEW f, CanSkip(s, f), NEW r,
         Frame(r, s, {"t3_rtx", "out"}), r.t3_rtx \in BOOLEAN,
         r.out = s.out \cup {[tsns |-> tsns, forward_tsn |-> f]}
  PROVE  /\ Good(r, e) /\ (Pending(r) <=> Pending(s))
         /\ r.to_be_fast_retransmitted = s.to_be_fast_retransmitted
         /\ \A b : Kept(s, b) => Kept(r, b)
<1>1. /\ Sane(s) /\ Owned(s, e) /\ Whole(s) /\ Waiting(s) /\ Over(s, e) /\ Fresh(s)
      /\ Packed(s) /\ Typed(s)
  BY Zenon DEF Good
<1>2. {"t3_rtx", "out"} \cap CoreFields = {}
  BY Zenon DEF CoreFields
<1>3. /\ Sane(r) /\ r.outstanding_data = s.outstanding_data /\ r.highest_tsn = s.highest_tsn
      /\ r.last_cumulative_tsn_ack = s.last_cumulative_tsn_ack
      /\ r.to_be_fast_retransmitted = s.to_be_fast_retransmitted
  BY <1>1, <1>2, SaneFrame, Zenon
<1>4. /\ r.assigned = s.assigned /\ r.given_up = s.given_up /\ r.accepted = s.accepted
      /\ r.send_queue = s.send_queue /\ r.ended = s.ended /\ Typed(r)
  BY <1>1, Zenon DEF Frame, Typed, AllFields, QueueFields
<1>5. /\ Tsns(r) = Tsns(s) /\ \A m : ChunksOf(r, m) = ChunksOf(s, m)
      /\ \A t : Id(r, t) = Id(s, t) /\ GivenUp(r, t) = GivenUp(s, t) /\ IsLast(r, t) = IsLast(s, t)
  BY <1>3, Zenon DEF Tsns, ChunksOf, Id, GivenUp, IsLast
<1>6. Owned(r, e)
  BY <1>1, <1>3, <1>4, <1>5, Zenon DEF Owned
<1>7. Whole(r)
  BY <1>1, <1>5, Zenon DEF Whole
<1>8. Waiting(r)
  BY <1>1, <1>4, <1>5, Zenon DEF Waiting
<1>9. Over(r, e)
  BY <1>1, <1>4, <1>5, Zenon DEF Over
<1>10. Packed(r)
  <2> SUFFICES ASSUME NEW p \in r.out
               PROVE  p.tsns \subseteq 1..s.highest_tsn /\ CanSkip(s, p.forward_tsn)
    BY <1>3, <1>5, Zenon DEF Packed, CanSkip
  <2>1. CASE p \in s.out
    BY <1>1, <2>1, Zenon DEF Packed, CanSkip
  <2>2. CASE p = [tsns |-> tsns, forward_tsn |-> f]
    BY <2>2, SMTT(20)
  <2> QED
    BY <2>1, <2>2, SMTT(20)
<1>11. Pending(r) <=> Pending(s)
  BY <1>5, Zenon DEF Pending
<1>12. \A b : Kept(s, b) => Kept(r, b)
  <2>1. Frame(r, s, ControlFields \cup {"send_queue", "ended", "out"})
    BY SMTT(20) DEF Frame, ControlFields
  <2> QED
    BY <1>1, <2>1, KeptFrame, Zenon
<1>13. Fresh(r)
  BY <1>1, <1>4, Zenon DEF Fresh
<1> QED
  BY <1>3, <1>4, <1>6, <1>7, <1>8, <1>9, <1>10, <1>11, <1>12, <1>13, Zenon DEF Good

LEMMA ReadySendWith ==
  ASSUME NEW s, NEW e, NEW b, NEW o, Ready(s, e, b, o), NEW f, CanSkip(s, f)
  PROVE  Ready(SendWith(s, f).q, e, b, o)
<1> DEFINE waits == s.limit_forward_tsn \/ f # None
           u == [s EXCEPT !.limit_forward_tsn = @ \/ f # None]
           room == Mtu - PacketHeader - (IF f = None THEN 0 ELSE ForwardTsnSize)
           c == GetChunksToSend(u, room)
<1>1. /\ Good(s, e) /\ Sane(s) /\ Typed(s) /\ Kept(s, b) /\ s.to_be_fast_retransmitted = {}
      /\ Pending(s) => s.t3_rtx
      /\ Flown(s, o)
  BY Zenon DEF Ready, Handled, Good
<1>2. room \in Int
  BY Constants
<1>3. SendWith(s, f) = EndPacket(c, f)
  BY Zenon DEF SendWith
<1>4. waits \in BOOLEAN /\ u = [s EXCEPT !.limit_forward_tsn = waits]
  OBVIOUS
<1> HIDE DEF waits, u, room
<1>5. /\ Frame(u, s, ControlFields) /\ Typed(u) /\ u.t3_rtx = s.t3_rtx
      /\ u.unacked_packet_bytes = s.unacked_packet_bytes /\ u.cwnd = s.cwnd
      /\ u.fast_recovery_exit_tsn = s.fast_recovery_exit_tsn
  BY <1>1, <1>4, Zenon
     DEF Typed, Frame, IsRecord, Sane, Shape, AllFields, QueueFields, ControlFields
<1>6. /\ Good(u, e) /\ (Pending(u) <=> Pending(s)) /\ u.to_be_fast_retransmitted = {}
  BY <1>1, <1>5, GoodControl, Zenon
<1>7. Kept(u, b) /\ Kept(u, s) /\ Kept(u, u)
  <2>1. Frame(u, s, ControlFields \cup {"send_queue", "ended", "out"})
    BY <1>5 DEF Frame
  <2>2. Kept(s, s) /\ Kept(u, u)
    BY SMTT(20) DEF Kept
  <2> QED
    BY <1>1, <2>1, <2>2, KeptFrame
<1>8. /\ Sane(u) /\ Handled(u, e, b) /\ Handled(u, e, u) /\ (Pending(u) => u.t3_rtx)
  BY <1>1, <1>5, <1>6, <1>7, Zenon DEF Handled, Good
<1>9. CanSkip(u, f)
  BY <1>1, <1>7, <1>8, CanSkipKept, Zenon
<1>10. /\ Handled(c.q, e, b) /\ Handled(c.q, e, u) /\ (Pending(c.q) => c.q.t3_rtx)
       /\ c.sent \subseteq 1..c.q.highest_tsn /\ Flown(c.q, u)
  BY <1>2, <1>8, GoodGetChunksToSend, Zenon
<1> HIDE DEF c
<1>11. Flown(c.q, o)
  <2>1. Flown(u, o)
    BY <1>1, <1>5, FlownSame, Zenon
  <2> QED
    BY <1>10, <2>1, FlownThen, Zenon
<1>12. /\ Good(c.q, e) /\ Sane(c.q) /\ Typed(c.q) /\ Kept(c.q, u)
       /\ c.q.to_be_fast_retransmitted = {}
  BY <1>10, Zenon DEF Handled, Good
<1>13. CanSkip(c.q, f)
  BY <1>8, <1>9, <1>12, CanSkipKept, Zenon
<1>14. CASE f = None /\ c.sent = {}
  <2>1. SendWith(s, f).q = c.q
    BY <1>3, <1>14, SMTT(20) DEF EndPacket
  <2> QED
    BY <1>10, <1>11, <2>1, Zenon DEF Ready
<1>15. CASE ~(f = None /\ c.sent = {})
  <2> DEFINE out == c.q.out \cup {[tsns |-> c.sent, forward_tsn |-> f]}
             r == [c.q EXCEPT !.out = out]
  <2>1. SendWith(s, f).q = r
    <3>1. EndPacket(c, f) = [q |-> [c.q EXCEPT !.out = @ \cup {[tsns |-> c.sent, forward_tsn |-> f]}],
                             done |-> FALSE]
      BY <1>15, ZenonT(30) DEF EndPacket
    <3> QED
      BY <1>3, <3>1
  <2>2. out = c.q.out \cup {[tsns |-> c.sent, forward_tsn |-> f]}
    BY Zenon
  <2> HIDE DEF out
  <2>3. Frame(r, c.q, {"t3_rtx", "out"}) /\ r.out = out /\ r.t3_rtx \in BOOLEAN
        /\ r.t3_rtx = c.q.t3_rtx
        /\ r.unacked_packet_bytes = c.q.unacked_packet_bytes /\ r.cwnd = c.q.cwnd
        /\ r.fast_recovery_exit_tsn = c.q.fast_recovery_exit_tsn
    BY <1>12, Zenon DEF Typed, Frame, IsRecord, Sane, Shape, AllFields, QueueFields
  <2> HIDE DEF r
  <2>4. /\ Good(r, e) /\ (Pending(r) <=> Pending(c.q)) /\ r.to_be_fast_retransmitted = {}
        /\ Kept(r, b)
    <3>1. Kept(c.q, b)
      BY <1>10, SMTT(20) DEF Handled
    <3>2. r.out = c.q.out \cup {[tsns |-> c.sent, forward_tsn |-> f]}
      BY <2>2, <2>3, SMTT(20)
    <3> DEFINE sent == c.sent
               k == c.q
    <3>3. Good(k, e) /\ sent \subseteq 1..k.highest_tsn /\ CanSkip(k, f)
          /\ Frame(r, k, {"t3_rtx", "out"}) /\ r.t3_rtx \in BOOLEAN
          /\ r.out = k.out \cup {[tsns |-> sent, forward_tsn |-> f]}
      BY <1>10, <1>12, <1>13, <2>3, <3>2, Zenon
    <3> HIDE DEF sent, k
    <3>4. /\ Good(r, e) /\ (Pending(r) <=> Pending(k))
          /\ r.to_be_fast_retransmitted = k.to_be_fast_retransmitted
          /\ \A j : Kept(k, j) => Kept(r, j)
      BY <3>3, GoodOut, Zenon
    <3> QED
      BY <1>12, <3>1, <3>4, SMTT(20) DEF k
  <2>5. Flown(r, o)
    BY <1>11, <2>3, FlownSame, Zenon
  <2> QED
    BY <1>10, <2>1, <2>3, <2>4, <2>5, Zenon DEF Ready, Handled
<1> QED
  BY <1>14, <1>15, SMTT(20)

\* ShouldSendForwardTsn() expires chunks first.
LEMMA ReadyMaybeExpire ==
  ASSUME NEW s, NEW e, NEW b, NEW o, Ready(s, e, b, o)
  PROVE  Ready(MaybeExpire(s), e, b, o)
<1> DEFINE r == ExpireOutstandingChunks(s, lapsed)
<1>1. /\ Good(s, e) /\ Sane(s) /\ Typed(s) /\ Kept(s, b) /\ s.to_be_fast_retransmitted = {}
      /\ Pending(s) => s.t3_rtx
      /\ Flown(s, o)
  BY Zenon DEF Ready, Handled, Good
<1>2. CASE s.limit_forward_tsn
  BY <1>2, SMTT(20) DEF MaybeExpire
<1>3. CASE ~s.limit_forward_tsn
  <2>1. MaybeExpire(s) = r
    BY <1>3, SMTT(20) DEF MaybeExpire
  <2>2. /\ Sane(r) /\ Frame(r, s, AbandonFields) /\ \E ms : Abandons(r, s, ms)
        /\ r.to_be_fast_retransmitted \subseteq s.to_be_fast_retransmitted
    BY <1>1, ExpireOutstandingChunksIs, Zenon
  <2>3. r.unacked_packet_bytes = s.unacked_packet_bytes
    BY <1>1, ExpireFlight, Zenon
  <2> HIDE DEF r
  <2>4. PICK ms : Abandons(r, s, ms)
    BY <2>2, SMTT(20)
  <2>5. Frame(r, s, NackFields)
    BY <2>2, SMTT(20) DEF Frame, NackFields
  <2>6. Good(r, e) /\ (Pending(r) => Pending(s))
    BY <1>1, <2>2, <2>4, <2>5, GoodAbandons, Zenon
  <2>7. Kept(r, b) /\ r.t3_rtx = s.t3_rtx
    BY <1>1, <2>2, <2>4, <2>5, KeptAbandons, QueueFrame, Zenon
  <2>8. r.cwnd = s.cwnd /\ r.fast_recovery_exit_tsn = s.fast_recovery_exit_tsn
    BY <1>1, <2>5, QueueFrame, Zenon
  <2>9. Flown(r, o)
    BY <1>1, <2>3, <2>8, FlownSame, Zenon
  <2>10. r.to_be_fast_retransmitted = {}
    BY <1>1, <2>2, Zenon
  <2> QED
    BY <1>1, <2>1, <2>6, <2>7, <2>10, <2>9 DEF Ready, Handled
<1> QED
  BY <1>2, <1>3, SMTT(20)

LEMMA ReadySendPacket ==
  ASSUME NEW acc, NEW e, NEW b, NEW o, Ready(acc.q, e, b, o), NEW packet_idx \in Nat, packet_idx > 0
  PROVE  Ready(SendPacket(acc, packet_idx).q, e, b, o)
<1>1. CASE acc.done
  BY <1>1 DEF SendPacket
<1>2. CASE ~acc.done /\ packet_idx = 1
  <2> DEFINE s == MaybeExpire(acc.q)
  <2>1. SendPacket(acc, packet_idx) = SendWith(s, ForwardTsn(s))
    BY <1>2 DEF SendPacket, SendFirst
  <2>2. Ready(s, e, b, o)
    BY ReadyMaybeExpire, SMTT(20)
  <2> HIDE DEF s
  <2>3. CanSkip(s, ForwardTsn(s))
    BY <2>2, ForwardTsnIs, Zenon DEF Ready, Handled, Good
  <2> DEFINE f == ForwardTsn(s)
  <2> HIDE DEF f
  <2>4. Ready(SendWith(s, f).q, e, b, o)
    BY <2>2, <2>3, ReadySendWith DEF f
  <2> QED
    BY <2>1, <2>4 DEF f
<1>3. CASE ~acc.done /\ packet_idx > 1
  <2>1. SendPacket(acc, packet_idx) = SendWith(acc.q, None)
    BY <1>3, SMTT(20) DEF SendPacket
  <2>2. CanSkip(acc.q, None)
    BY DEF CanSkip, None, Ready, Handled, Good, Sane, Shape
  <2> QED
    BY <2>1, <2>2, ReadySendWith
<1> QED
  BY <1>1, <1>2, <1>3

\* f is what SendBufferedPackets() computes, for n packets.
IsBurst(f, n, s) ==
  f = [i \in 0..n |-> IF i > 0 THEN SendPacket(f[i - 1], i) ELSE [q |-> s, done |-> FALSE]]

LEMMA BurstExists ==
  ASSUME NEW n \in Nat, NEW s
  PROVE  \E f : IsBurst(f, n, s)
<1> DEFINE T == {k \in Nat : ~\E f : IsBurst(f, k, s)}
           base == [q |-> s, done |-> FALSE]
<1>1. ASSUME T # {} PROVE FALSE
  <2>1. PICK k \in T : \A j \in T : k <= j
    BY <1>1, LeastNatural, Zenon
  <2>2. k \in Nat /\ ~\E f : IsBurst(f, k, s)
    OBVIOUS
  <2>3. CASE k = 0
    <3> DEFINE f == [i \in 0..0 |-> base]
    <3>1. IsBurst(f, 0, s)
      BY DEF IsBurst
    <3> QED
      BY <2>2, <2>3, <3>1, SMTT(20)
  <2>4. CASE k # 0
    <3>1. k - 1 \in Nat /\ k - 1 \notin T
      <4> HIDE DEF T
      <4> QED
        BY <2>1, <2>2, <2>4
    <3>2. PICK f : IsBurst(f, k - 1, s)
      BY <3>1
    <3> DEFINE g == [i \in 0..k |-> IF i = k THEN SendPacket(f[k - 1], k) ELSE f[i]]
    <3>3. \A i \in 0..k : g[i] = IF i > 0 THEN SendPacket(g[i - 1], i) ELSE base
      <4> TAKE i \in 0..k
      <4>1. CASE i = k
        <5>1. g[k] = SendPacket(f[k - 1], k) /\ g[k - 1] = f[k - 1] /\ k > 0
          BY <2>2, <2>4, SMTT(20)
        <5> QED
          BY <4>1, <5>1
      <4>2. CASE i # k
        <5>1. i \in 0..(k - 1) /\ g[i] = f[i]
          BY <2>2, <4>2
        <5>2. f[i] = IF i > 0 THEN SendPacket(f[i - 1], i) ELSE base
          BY <3>2, <5>1, Zenon DEF IsBurst
        <5>3. i > 0 => g[i - 1] = f[i - 1]
          BY <2>2, <5>1
        <5> QED
          BY <5>1, <5>2, <5>3
      <4> QED
        BY <4>1, <4>2, SMTT(20)
    <3>4. g = [i \in 0..k |-> IF i > 0 THEN SendPacket(g[i - 1], i) ELSE base]
      <4>1. g = [i \in 0..k |-> g[i]]
        OBVIOUS
      <4> HIDE DEF g
      <4> QED
        BY <3>3, <4>1, Zenon
    <3>5. IsBurst(g, k, s)
      BY <3>4, Zenon DEF IsBurst
    <3> QED
      BY <2>2, <3>5
  <2> QED
    BY <2>3, <2>4
<1> HIDE DEF T
<1>2. n \notin T
  BY <1>1
<1> QED
  BY <1>2 DEF T

LEMMA ReadyBurst ==
  ASSUME NEW n \in Nat, NEW s, NEW e, NEW b, NEW o, Ready(s, e, b, o), NEW f, IsBurst(f, n, s)
  PROVE  Ready(f[n].q, e, b, o)
<1> DEFINE T == {k \in 0..n : ~Ready(f[k].q, e, b, o)}
<1>1. ASSUME T # {} PROVE FALSE
  <2>1. PICK k \in T : \A j \in T : k <= j
    <3>1. T \subseteq Nat
      OBVIOUS
    <3> QED
      BY <1>1, <3>1, LeastNatural, Zenon
  <2>2. k \in 0..n /\ ~Ready(f[k].q, e, b, o)
    OBVIOUS
  <2>3. f[k] = IF k > 0 THEN SendPacket(f[k - 1], k) ELSE [q |-> s, done |-> FALSE]
    BY <2>2, Zenon DEF IsBurst
  <2>4. k > 0
    BY <2>2, <2>3
  <2>5. k - 1 \in 0..n /\ k - 1 \notin T /\ k \in Nat
    <3> HIDE DEF T
    <3> QED
      BY <2>1, <2>2, <2>4
  <2>6. Ready(f[k - 1].q, e, b, o)
    BY <2>5
  <2> QED
    BY <2>2, <2>3, <2>4, <2>5, <2>6, ReadySendPacket, Zenon
<1> HIDE DEF T
<1>2. n \notin T
  BY <1>1
<1> QED
  BY <1>2, SMTT(20) DEF T

\* Every handler ends with SendBufferedPackets().
LEMMA ReadySendBufferedPackets ==
  ASSUME NEW s, NEW e, NEW b, NEW o, Ready(s, e, b, o)
  PROVE  Ready(SendBufferedPackets(s), e, b, o)
<1> DEFINE f == CHOOSE f : IsBurst(f, max_burst, s)
<1>1. max_burst \in Nat
  BY Constants
<1>2. SendBufferedPackets(s) = f[max_burst].q
  BY Zenon DEF SendBufferedPackets, IsBurst
<1>3. IsBurst(f, max_burst, s)
  BY <1>1, BurstExists, SMTT(20)
<1> HIDE DEF f
<1> QED
  BY <1>1, <1>2, <1>3, ReadyBurst

\* The packet of MaybeSendFastRetransmit() is sent whatever the window is.
LEMMA ReadyMaybeSendFastRetransmit ==
  ASSUME NEW s, NEW e, Good(s, e), Pending(s) => s.t3_rtx, NEW b, Kept(s, b)
  PROVE  LET r == MaybeSendFastRetransmit(s)
         IN  /\ Ready(r, e, b, r)
             /\ r.fast_recovery_exit_tsn = s.fast_recovery_exit_tsn
             /\ r.unacked_packet_bytes <= s.unacked_packet_bytes +
                  (IF s.to_be_fast_retransmitted = {} THEN 0 ELSE Mtu - PacketHeader)
<1> DEFINE g == GetChunksToBeFastRetransmitted(s, Mtu - PacketHeader)
           out == g.q.out \cup {[tsns |-> g.sent, forward_tsn |-> None]}
           r == SendFastRetransmit(g)
<1>1. Sane(s) /\ Typed(s)
  BY SMTT(20) DEF Good
<1>2. CASE s.to_be_fast_retransmitted = {}
  <2>1. MaybeSendFastRetransmit(s) = s
    BY <1>2, Zenon DEF MaybeSendFastRetransmit
  <2>2. Ready(s, e, b, s)
    BY <1>1, <1>2, FlownSelf, Zenon DEF Ready, Handled
  <2>3. s.unacked_packet_bytes <= s.unacked_packet_bytes + 0
    BY <1>1, InFlight
  <2> QED
    BY <1>2, <2>1, <2>2, <2>3, Zenon
<1>3. CASE s.to_be_fast_retransmitted # {}
  <2>1. MaybeSendFastRetransmit(s) = r
    BY <1>3, ZenonT(30) DEF MaybeSendFastRetransmit
  <2>2. /\ Sane(g.q) /\ Touched(g.q, s) /\ Abandons(g.q, s, {})
        /\ g.q.to_be_fast_retransmitted = {} /\ g.sent \subseteq Tsns(s)
    BY <1>1, GetChunksToBeFastRetransmittedIs, Zenon
  <2>3. g.q.unacked_packet_bytes <= s.unacked_packet_bytes + (Mtu - PacketHeader)
    <3>1. Mtu - PacketHeader \in Nat
      BY QueueAssumption, HeaderAssumption
    <3> QED
      BY <1>1, <3>1, FastRetransmittedFlight, Zenon
  <2>4. r = [g.q EXCEPT !.t3_rtx = TRUE, !.out = out]
    BY SMTT(20) DEF SendFastRetransmit
  <2> HIDE DEF g
  <2>5. Frame(g.q, s, NackFields)
    BY <2>2, Zenon DEF Touched, Frame, NackFields
  <2> DEFINE k == g.q
             sent == g.sent
  <2>6. Good(k, e) /\ Kept(k, b)
    BY <1>1, <2>2, <2>5, GoodAbandons, KeptAbandons, Zenon
  <2>7. k.fast_recovery_exit_tsn = s.fast_recovery_exit_tsn
        /\ k.unacked_packet_bytes <= s.unacked_packet_bytes + (Mtu - PacketHeader)
    <3>1. Frame(k, s, NackFields) /\ k.unacked_packet_bytes <= s.unacked_packet_bytes + (Mtu - PacketHeader)
      BY <2>5, <2>3
    <3> HIDE DEF k
    <3> QED
      BY <1>1, <3>1, QueueFrame, Zenon
  <2>8. sent \subseteq 1..k.highest_tsn
    BY <2>2 DEF Touched, Sane, Shape
  <2>9. CanSkip(k, None) /\ Typed(k) /\ Sane(k)
    BY <2>6 DEF CanSkip, None, Good, Sane, Shape
  <2>10. out = k.out \cup {[tsns |-> sent, forward_tsn |-> None]}
    OBVIOUS
  <2>11. k.to_be_fast_retransmitted = {} /\ r = [k EXCEPT !.t3_rtx = TRUE, !.out = out]
    BY <2>2, <2>4
  <2> HIDE DEF out, k, sent, r
  <2>12. Frame(r, k, {"t3_rtx", "out"}) /\ r.out = out /\ r.t3_rtx = TRUE
         /\ r.unacked_packet_bytes = k.unacked_packet_bytes
         /\ r.fast_recovery_exit_tsn = k.fast_recovery_exit_tsn
    BY <2>9, <2>11, Zenon DEF Typed, Frame, IsRecord, Sane, Shape, AllFields, QueueFields
  <2>13. r.out = k.out \cup {[tsns |-> sent, forward_tsn |-> None]} /\ r.t3_rtx \in BOOLEAN
    BY <2>10, <2>12, Zenon
  <2> DEFINE f == None
  <2>14. CanSkip(k, f) /\ r.out = k.out \cup {[tsns |-> sent, forward_tsn |-> f]}
    BY <2>9, <2>13
  <2> HIDE DEF f
  <2>15. /\ Good(r, e)
         /\ r.to_be_fast_retransmitted = k.to_be_fast_retransmitted
         /\ \A j : Kept(k, j) => Kept(r, j)
    BY <2>6, <2>8, <2>12, <2>13, <2>14, GoodOut, ZenonT(30)
  <2>16. Flown(r, r)
    BY <2>15, FlownSelf, Zenon DEF Good
  <2>17. Ready(r, e, b, r)
    BY <2>6, <2>11, <2>12, <2>15, <2>16, Zenon DEF Ready, Handled
  <2> QED
    BY <1>3, <2>1, <2>12, <2>7, <2>17, Zenon
<1> QED
  BY <1>2, <1>3, Zenon

------------------------------------------------------------------------------
(* Messages, SACKs and the timer.                                          *)

\* Only windows and timers differ.
Controls(r, s) == Frame(r, s, ControlFields) /\ Typed(r) /\ Sane(r)

\* And fast recovery is as it was.
Steers(r, s) == Controls(r, s) /\ r.fast_recovery_exit_tsn = s.fast_recovery_exit_tsn

LEMMA ControlsThen ==
  ASSUME NEW s, NEW r, Controls(r, s), NEW u, Controls(u, r)
  PROVE  Controls(u, s)
  BY DEF Controls, Frame

LEMMA ControlsSane ==
  ASSUME NEW s, Sane(s), NEW r, Frame(r, s, ControlFields), Typed(r)
  PROVE  Controls(r, s)
<1>1. ControlFields \cap CoreFields = {}
  BY SMTT(20) DEF ControlFields, CoreFields
<1> QED
  BY <1>1, SaneFrame DEF Controls

LEMMA ControlsSelf ==
  ASSUME NEW s, Sane(s), Typed(s)
  PROVE  Controls(s, s)
  BY DEF Controls, Frame, Sane, Shape

LEMMA MaxOfTwo ==
  ASSUME NEW x \in Int, NEW y \in Int
  PROVE  Max({x, y}) \in {x, y} /\ Max({x, y}) \in Int /\ Max({x, y}) >= x
<1>1. \E m \in {x, y} : \A k \in {x, y} : m >= k
  <2>1. CASE x >= y
    BY <2>1
  <2>2. CASE y >= x
    BY <2>2
  <2> QED
    BY <2>1, <2>2
<1>2. Max({x, y}) \in {x, y} /\ \A k \in {x, y} : Max({x, y}) >= k
  BY <1>1, Zenon DEF Max
<1> QED
  BY <1>2

LEMMA ControlsUpdateReceiverWindow ==
  ASSUME NEW s, Sane(s), Typed(s), NEW a_rwnd \in Nat
  PROVE  Steers(UpdateReceiverWindow(s, a_rwnd), s)
<1> DEFINE w == IF s.unacked_payload_bytes >= a_rwnd THEN 0 ELSE a_rwnd - s.unacked_payload_bytes
           r == [s EXCEPT !.rwnd = w]
<1>1. w \in Int
  BY FlightType
<1>2. UpdateReceiverWindow(s, a_rwnd) = r
  BY DEF UpdateReceiverWindow
<1> HIDE DEF w
<1>3. Frame(r, s, ControlFields) /\ Typed(r) /\ r.fast_recovery_exit_tsn = s.fast_recovery_exit_tsn
  BY <1>1, Zenon DEF Typed, Frame, IsRecord, Sane, Shape, AllFields, QueueFields, ControlFields
<1> QED
  BY <1>2, <1>3, ControlsSane DEF Steers

LEMMA ControlsMaybeExitFastRecovery ==
  ASSUME NEW s, Sane(s), Typed(s), NEW cum
  PROVE  LET r == MaybeExitFastRecovery(s, cum)
         IN  /\ Controls(r, s)
             /\ \/ r.fast_recovery_exit_tsn = s.fast_recovery_exit_tsn
                \/ r.fast_recovery_exit_tsn = None /\ cum >= s.fast_recovery_exit_tsn
<1> DEFINE r == [s EXCEPT !.fast_recovery_exit_tsn = None]
<1>1. Frame(r, s, ControlFields) /\ Typed(r) /\ r.fast_recovery_exit_tsn = None
  BY Zenon DEF Typed, Frame, IsRecord, Sane, Shape, AllFields, QueueFields, ControlFields
<1>2. \/ MaybeExitFastRecovery(s, cum) = s
      \/ MaybeExitFastRecovery(s, cum) = r /\ cum >= s.fast_recovery_exit_tsn
  BY Zenon DEF MaybeExitFastRecovery
<1> HIDE DEF r
<1> QED
  BY <1>1, <1>2, ControlsSane, ControlsSelf, Zenon

LEMMA ControlsMaybeReduced ==
  ASSUME NEW s, Sane(s), Typed(s), NEW has_packet_loss
  PROVE  LET r == MaybeReduced(s, has_packet_loss)
         IN  /\ Controls(r, s)
             /\ \/ r.fast_recovery_exit_tsn = s.highest_tsn
                \/ /\ r.fast_recovery_exit_tsn = s.fast_recovery_exit_tsn
                   /\ has_packet_loss => s.fast_recovery_exit_tsn # None
<1> DEFINE reduced == Max({s.cwnd \div 2, cwnd_mtus_min * Mtu})
           exit_tsn == highest_outstanding_tsn(s)
           r == [s EXCEPT !.ssthresh = reduced, !.cwnd = reduced, !.partial_bytes_acked = 0,
                          !.fast_recovery_exit_tsn = exit_tsn]
<1>1. reduced \in Int
  <2>1. s.cwnd \div 2 \in Int
    <3>1. s.cwnd \in Int /\ 2 \in Nat \ {0}
      BY DEF Typed
    <3> QED
      BY <3>1, Division
  <2>2. cwnd_mtus_min * Mtu \in Int
    BY Constants
  <2> QED
    BY <2>1, <2>2, MaxOfTwo, Zenon
<1>2. \/ MaybeReduced(s, has_packet_loss) = r
      \/ /\ MaybeReduced(s, has_packet_loss) = s
         /\ has_packet_loss => s.fast_recovery_exit_tsn # None
  BY Zenon DEF MaybeReduced, HandlePacketLoss, is_in_fast_recovery
<1>3. exit_tsn = s.highest_tsn
  BY Zenon DEF highest_outstanding_tsn
<1> HIDE DEF reduced, exit_tsn
<1>4. Frame(r, s, ControlFields) /\ r.fast_recovery_exit_tsn = exit_tsn
  BY Zenon DEF Typed, Frame, IsRecord, Sane, Shape, AllFields, QueueFields, ControlFields
<1>5. Typed(r)
  BY <1>1 DEF Typed, AllFields, QueueFields
<1> HIDE DEF r
<1> QED
  BY <1>2, <1>4, <1>5, <1>3, ControlsSane, ControlsSelf, Zenon

LEMMA ControlsMaybeClear ==
  ASSUME NEW s, Sane(s), Typed(s), NEW bytes_acked
  PROVE  Steers(MaybeClear(s, bytes_acked), s)
<1> DEFINE r == [s EXCEPT !.tx_error_counter = 0]
<1>1. Frame(r, s, ControlFields) /\ Typed(r) /\ r.fast_recovery_exit_tsn = s.fast_recovery_exit_tsn
  BY Zenon DEF Typed, Frame, IsRecord, Sane, Shape, AllFields, QueueFields, ControlFields
<1>2. MaybeClear(s, bytes_acked) \in {r, s}
  BY Zenon DEF MaybeClear
<1> HIDE DEF r
<1> QED
  BY <1>1, <1>2, ControlsSane, ControlsSelf, Zenon DEF Steers

LEMMA ControlsIncreased ==
  ASSUME NEW s, Sane(s), Typed(s), NEW flight, NEW acked \in Int
  PROVE  Steers(HandleIncreasedCumulativeTsnAck(s, flight, acked), s)
<1> DEFINE add == Min({acked, Mtu})
           pba == s.partial_bytes_acked + acked
           full == flight + Mtu >= s.cwnd
           big == s.cwnd + add
           bigger == s.cwnd + Mtu
           rest == pba - s.cwnd
           r1 == [s EXCEPT !.cwnd = big]
           r2 == [s EXCEPT !.partial_bytes_acked = rest, !.cwnd = bigger]
           r3 == [s EXCEPT !.partial_bytes_acked = pba]
           r == HandleIncreasedCumulativeTsnAck(s, flight, acked)
<1>1. add \in Int /\ pba \in Int /\ big \in Int /\ bigger \in Int /\ rest \in Int
  <2>1. add \in Int
    <3>1. Mtu \in Int
      BY Constants
    <3> QED
      BY <3>1, MinOfTwo
  <2> HIDE DEF add
  <2> QED
    BY <2>1, Constants, SMTT(20) DEF Typed
<1>2. r \in {r1, r2, r3, s}
  <2> DEFINE slow == s.cwnd <= s.ssthresh /\ full /\ ~is_in_fast_recovery(s)
             avoids == s.cwnd > s.ssthresh /\ pba >= s.cwnd /\ full
             counts == s.cwnd > s.ssthresh /\ ~(pba >= s.cwnd /\ full)
  <2>1. r = CASE slow -> r1 [] avoids -> r2 [] counts -> r3 [] OTHER -> s
    BY Zenon DEF HandleIncreasedCumulativeTsnAck
  <2>2. ~(slow /\ avoids) /\ ~(slow /\ counts) /\ ~(avoids /\ counts)
    BY DEF Typed
  <2> HIDE DEF slow, avoids, counts, r1, r2, r3
  <2> QED
    BY <2>1, <2>2
<1> HIDE DEF add, pba, big, bigger, rest
<1>3. Frame(r1, s, ControlFields) /\ Typed(r1)
      /\ r1.fast_recovery_exit_tsn = s.fast_recovery_exit_tsn
  BY <1>1, Zenon DEF Typed, Frame, IsRecord, Sane, Shape, AllFields, QueueFields, ControlFields
<1>4. Frame(r2, s, ControlFields) /\ Typed(r2)
      /\ r2.fast_recovery_exit_tsn = s.fast_recovery_exit_tsn
  BY <1>1, Zenon DEF Typed, Frame, IsRecord, Sane, Shape, AllFields, QueueFields, ControlFields
<1>5. Frame(r3, s, ControlFields) /\ Typed(r3)
      /\ r3.fast_recovery_exit_tsn = s.fast_recovery_exit_tsn
  BY <1>1, Zenon DEF Typed, Frame, IsRecord, Sane, Shape, AllFields, QueueFields, ControlFields
<1> HIDE DEF r, r1, r2, r3
<1>6. Steers(r, s)
  BY <1>2, <1>3, <1>4, <1>5, ControlsSane, ControlsSelf, Zenon DEF Steers
<1> QED
  BY <1>6 DEF r

LEMMA ControlsMaybeIncreased ==
  ASSUME NEW s, Sane(s), Typed(s), NEW before, NEW cum, NEW acked \in Int
  PROVE  Steers(MaybeIncreased(s, before, cum, acked), s)
<1> DEFINE r == [s EXCEPT !.t3_rtx = FALSE]
           flight == before.unacked_packet_bytes
           h == HandleIncreasedCumulativeTsnAck(r, flight, acked)
<1>1. Frame(r, s, ControlFields) /\ Typed(r) /\ r.fast_recovery_exit_tsn = s.fast_recovery_exit_tsn
  BY Zenon DEF Typed, Frame, IsRecord, Sane, Shape, AllFields, QueueFields, ControlFields
<1>2. MaybeIncreased(s, before, cum, acked) \in {h, s}
  BY Zenon DEF MaybeIncreased
<1> HIDE DEF r, flight
<1>3. Steers(r, s) /\ Sane(r)
  BY <1>1, ControlsSane DEF Steers, Controls
<1>4. Steers(h, r)
  BY <1>1, <1>3, ControlsIncreased
<1> HIDE DEF h
<1>5. Steers(h, s)
  BY <1>3, <1>4, ControlsThen, Zenon DEF Steers
<1> QED
  BY <1>2, <1>5, ControlsSelf, Zenon DEF Steers

\* T3-rtx runs while anything is outstanding.
LEMMA GoodStartT3RtxTimerIfOutstandingData ==
  ASSUME NEW s, Sane(s), Typed(s)
  PROVE  LET r == StartT3RtxTimerIfOutstandingData(s)
         IN  Steers(r, s) /\ (Tsns(s) # {} => r.t3_rtx)
<1> DEFINE runs == s.t3_rtx \/ Tsns(s) # {}
           r == [s EXCEPT !.t3_rtx = runs]
<1>1. StartT3RtxTimerIfOutstandingData(s) = r
  BY DEF StartT3RtxTimerIfOutstandingData
<1>2. runs \in BOOLEAN /\ (Tsns(s) # {} => runs)
  OBVIOUS
<1> HIDE DEF runs
<1>3. Frame(r, s, ControlFields) /\ Typed(r) /\ r.t3_rtx = runs
      /\ r.fast_recovery_exit_tsn = s.fast_recovery_exit_tsn
  BY <1>2, Zenon DEF Typed, Frame, IsRecord, Sane, Shape, AllFields, QueueFields, ControlFields
<1> HIDE DEF r
<1>4. Steers(r, s)
  BY <1>3, ControlsSane, Zenon DEF Steers
<1> QED
  BY <1>1, <1>2, <1>3, <1>4

\* What follows the bookkeeping of a SACK.
LEMMA ControlsAfterAcks ==
  ASSUME NEW ack_info, Sane(ack_info.q), Typed(ack_info.q), ack_info.bytes_acked \in Int,
         NEW before, NEW sack, sack.a_rwnd \in Nat
  PROVE  LET r == AfterAcks(ack_info, before, sack)
         IN  /\ Controls(r, ack_info.q) /\ (Tsns(r) # {} => r.t3_rtx)
             /\ \/ r.fast_recovery_exit_tsn = ack_info.q.highest_tsn
                \/ /\ r.fast_recovery_exit_tsn = ack_info.q.fast_recovery_exit_tsn
                   /\ ack_info.has_packet_loss => ack_info.q.fast_recovery_exit_tsn # None
<1> DEFINE acked == ack_info.bytes_acked
           lost == ack_info.has_packet_loss
           a_rwnd == sack.a_rwnd
           cum == sack.cumulative_tsn_ack
           s == ack_info.q
           u == UpdateReceiverWindow(s, a_rwnd)
           v == MaybeIncreased(u, before, cum, acked)
           w == MaybeReduced(v, lost)
           x == MaybeClear(w, acked)
           r == StartT3RtxTimerIfOutstandingData(x)
<1>1. AfterAcks(ack_info, before, sack) = r
  BY Zenon DEF AfterAcks
<1>2. Sane(s) /\ Typed(s) /\ acked \in Int /\ a_rwnd \in Nat
  OBVIOUS
<1> HIDE DEF acked, lost, a_rwnd, cum, s
<1>3. Steers(u, s) /\ Sane(u) /\ Typed(u)
  BY <1>2, ControlsUpdateReceiverWindow DEF Steers, Controls
<1> HIDE DEF u
<1>4. Steers(v, u) /\ Sane(v) /\ Typed(v)
  BY <1>2, <1>3, ControlsMaybeIncreased DEF Steers, Controls
<1> HIDE DEF v
<1>5. /\ Controls(w, v) /\ Sane(w) /\ Typed(w)
      /\ \/ w.fast_recovery_exit_tsn = v.highest_tsn
         \/ /\ w.fast_recovery_exit_tsn = v.fast_recovery_exit_tsn
            /\ lost => v.fast_recovery_exit_tsn # None
  BY <1>4, ControlsMaybeReduced, Zenon DEF Controls
<1> HIDE DEF w
<1>6. Steers(x, w) /\ Sane(x) /\ Typed(x)
  BY <1>5, ControlsMaybeClear DEF Steers, Controls
<1> HIDE DEF x
<1>7. Steers(r, x) /\ (Tsns(x) # {} => r.t3_rtx)
  BY <1>6, GoodStartT3RtxTimerIfOutstandingData, Zenon
<1>8. Tsns(r) = Tsns(x)
  BY <1>6, <1>7, Zenon DEF Steers, Controls, Frame, ControlFields, Tsns, Typed, AllFields, QueueFields
<1> HIDE DEF r
<1>9. Controls(r, s)
  <2>1. Controls(v, s)
    BY <1>3, <1>4, ControlsThen, Zenon DEF Steers
  <2>2. Controls(w, s)
    BY <1>5, <2>1, ControlsThen
  <2>3. Controls(x, s)
    BY <1>6, <2>2, ControlsThen, Zenon DEF Steers
  <2> QED
    BY <1>7, <2>3, ControlsThen, Zenon DEF Steers
<1>10. v.highest_tsn = s.highest_tsn
  <2>1. v.highest_tsn = u.highest_tsn /\ u.highest_tsn = s.highest_tsn
    BY <1>2, <1>3, <1>4, Zenon
       DEF Steers, Controls, Frame, ControlFields, Typed, AllFields, QueueFields
  <2> QED
    BY <2>1, Zenon
<1>11. /\ r.fast_recovery_exit_tsn = w.fast_recovery_exit_tsn
       /\ v.fast_recovery_exit_tsn = s.fast_recovery_exit_tsn
  BY <1>3, <1>4, <1>6, <1>7, Zenon DEF Steers
<1>12. \/ r.fast_recovery_exit_tsn = s.highest_tsn
       \/ /\ r.fast_recovery_exit_tsn = s.fast_recovery_exit_tsn
          /\ lost => s.fast_recovery_exit_tsn # None
  BY <1>5, <1>10, <1>11, Zenon
<1> QED
  BY <1>1, <1>7, <1>8, <1>9, <1>12, Zenon DEF s, lost

LEMMA GoodHandleSack ==
  ASSUME NEW s, NEW e, Good(s, e), s.to_be_fast_retransmitted = {},
         Len(s.assigned) = s.highest_tsn, NEW sack, IsSackValid(s, sack),
         NEW k \in Nat, sack.gap_acked \subseteq 0..k, sack.a_rwnd \in Nat
  PROVE  LET r == HandleSack(s, sack)
         IN  /\ Good(r, e) /\ (Pending(r) => r.t3_rtx)
             /\ r.last_cumulative_tsn_ack = sack.cumulative_tsn_ack
             /\ r.assigned = s.assigned /\ r.given_up = s.given_up
             /\ r.accepted = s.accepted
             /\ r.unacked_packet_bytes <= s.unacked_packet_bytes
             /\ s.fast_recovery_exit_tsn \in Nat =>
                  /\ r.fast_recovery_exit_tsn \in Nat
                  /\ r.to_be_fast_retransmitted # {} =>
                       r.fast_recovery_exit_tsn \notin {None, s.fast_recovery_exit_tsn}
<1> DEFINE cum == sack.cumulative_tsn_ack
           gap == sack.gap_acked
           x == MaybeExitFastRecovery(s, cum)
           recovering == is_in_fast_recovery(x)
           h == HandleSackChunk(x, cum, gap, recovering)
           n == h.q
           r == AfterAcks(h, x, sack)
<1>1. Sane(s) /\ Typed(s) /\ cum \in s.last_cumulative_tsn_ack..s.highest_tsn
  BY DEF Good, IsSackValid, highest_outstanding_tsn
<1>2. HandleSack(s, sack) = r
  BY Zenon DEF HandleSack, HandleSackFrom
<1>3. recovering \in BOOLEAN /\ gap \subseteq 0..k
  BY SMTT(20) DEF is_in_fast_recovery
<1>4. recovering <=> x.fast_recovery_exit_tsn # None
  BY Zenon DEF is_in_fast_recovery
<1>5. /\ Controls(x, s)
      /\ \/ x.fast_recovery_exit_tsn = s.fast_recovery_exit_tsn
         \/ x.fast_recovery_exit_tsn = None /\ cum >= s.fast_recovery_exit_tsn
  BY <1>1, ControlsMaybeExitFastRecovery, Zenon
<1> HIDE DEF x, recovering, cum, gap
<1>6. /\ Good(x, e) /\ Sane(x) /\ Typed(x) /\ x.to_be_fast_retransmitted = {}
      /\ x.last_cumulative_tsn_ack = s.last_cumulative_tsn_ack /\ x.highest_tsn = s.highest_tsn
  BY <1>5, GoodControl, Zenon DEF Controls
<1>7. /\ x.assigned = s.assigned /\ x.given_up = s.given_up
      /\ x.accepted = s.accepted /\ x.unacked_packet_bytes = s.unacked_packet_bytes
  BY <1>1, <1>5, Zenon DEF Controls, Frame, ControlFields, Typed, AllFields, QueueFields
<1>8. cum \in x.last_cumulative_tsn_ack..x.highest_tsn
  BY <1>1, <1>6
<1>9. Sacked(n, x, cum) /\ h.bytes_acked \in Int /\ Lighter(h, x, recovering)
  BY <1>3, <1>6, <1>8, HandleSackChunkIs, Zenon
<1> HIDE DEF h
<1>10. PICK a, m, ms :
         /\ Sane(a) /\ Touched(a, x) /\ Abandons(a, x, {})
         /\ Sane(m) /\ Frame(m, a, RemoveFields) /\ Removes(m, a, cum)
         /\ m.last_cumulative_tsn_ack = cum
         /\ Remains(m, a, cum)
         /\ Sane(n) /\ Frame(n, m, NackFields) /\ Abandons(n, m, ms)
  BY <1>9, ZenonT(30) DEF Sacked
<1>11. Frame(a, x, NackFields)
  BY <1>10, Zenon DEF Touched, Frame, NackFields
<1>12. Good(a, e)
  BY <1>6, <1>10, <1>11, GoodAbandons, Zenon
<1>13. /\ a.assigned = x.assigned /\ a.given_up = x.given_up
       /\ a.accepted = x.accepted
       /\ a.last_cumulative_tsn_ack = x.last_cumulative_tsn_ack
       /\ a.fast_recovery_exit_tsn = x.fast_recovery_exit_tsn
  BY <1>6, <1>11, QueueFrame, Zenon
<1>14. Good(m, e)
  <2>1. cum \in a.last_cumulative_tsn_ack..Len(a.assigned)
    BY <1>1, <1>6, <1>7, <1>13, Zenon
  <2> QED
    BY <1>10, <1>12, <2>1, GoodRemoves, Zenon
<1>15. /\ m.assigned = a.assigned /\ m.given_up = a.given_up
       /\ m.accepted = a.accepted /\ m.fast_recovery_exit_tsn = a.fast_recovery_exit_tsn
  BY <1>10, <1>12, Zenon DEF Good, Frame, RemoveFields, Typed, AllFields, QueueFields
<1>16. Good(n, e)
  BY <1>10, <1>14, GoodAbandons, Zenon
<1>17. /\ n.assigned = m.assigned /\ n.given_up = m.given_up
       /\ n.accepted = m.accepted
       /\ n.last_cumulative_tsn_ack = m.last_cumulative_tsn_ack
       /\ n.fast_recovery_exit_tsn = m.fast_recovery_exit_tsn
  BY <1>10, <1>14, QueueFrame DEF Good
<1>18. /\ Controls(r, n) /\ (Tsns(r) # {} => r.t3_rtx)
       /\ \/ r.fast_recovery_exit_tsn = n.highest_tsn
          \/ /\ r.fast_recovery_exit_tsn = n.fast_recovery_exit_tsn
             /\ h.has_packet_loss => n.fast_recovery_exit_tsn # None
  BY <1>9, <1>16, ControlsAfterAcks, Zenon DEF Good
<1>19. /\ n.unacked_packet_bytes <= x.unacked_packet_bytes
       /\ n.to_be_fast_retransmitted # {} => h.has_packet_loss /\ ~recovering
  BY <1>9, Zenon DEF Lighter
<1> HIDE DEF r, n
<1>20. /\ Good(r, e) /\ r.last_cumulative_tsn_ack = n.last_cumulative_tsn_ack
       /\ r.to_be_fast_retransmitted = n.to_be_fast_retransmitted
  BY <1>16, <1>18, GoodControl, Zenon DEF Controls
<1>21. /\ r.assigned = n.assigned /\ r.given_up = n.given_up
       /\ r.accepted = n.accepted /\ r.unacked_packet_bytes = n.unacked_packet_bytes
  BY <1>16, <1>18, Zenon DEF Good, Controls, Frame, ControlFields, Typed, AllFields, QueueFields
<1>22. Pending(r) => r.t3_rtx
  BY <1>18, SMTT(20) DEF Pending
<1>23. r.unacked_packet_bytes <= s.unacked_packet_bytes
  BY <1>7, <1>21, <1>19, Zenon
<1>24. ASSUME s.fast_recovery_exit_tsn \in Nat
       PROVE  /\ r.fast_recovery_exit_tsn \in Nat
              /\ r.to_be_fast_retransmitted # {} =>
                   r.fast_recovery_exit_tsn \notin {None, s.fast_recovery_exit_tsn}
  <2>1. /\ n.highest_tsn \in Nat /\ cum \in Nat /\ n.last_cumulative_tsn_ack = cum
        /\ n.to_be_fast_retransmitted \subseteq (cum + 1)..n.highest_tsn
    BY <1>10, <1>17, Zenon DEF Sane, Shape, Marked
  <2>2. n.fast_recovery_exit_tsn = x.fast_recovery_exit_tsn
    BY <1>13, <1>15, <1>17, Zenon
  <2>3. x.fast_recovery_exit_tsn \in Nat
    BY <1>5, <1>24 DEF None
  <2>4. r.fast_recovery_exit_tsn \in Nat
    BY <1>18, <2>1, <2>2, <2>3, Zenon
  <2>5. ASSUME r.to_be_fast_retransmitted # {}
        PROVE  r.fast_recovery_exit_tsn \notin {None, s.fast_recovery_exit_tsn}
    <3>1. n.to_be_fast_retransmitted # {} /\ h.has_packet_loss /\ x.fast_recovery_exit_tsn = None
      BY <1>20, <1>4, <1>19, <2>5, Zenon
    <3>2. r.fast_recovery_exit_tsn = n.highest_tsn
      BY <1>18, <2>2, <3>1, Zenon
    <3>3. PICK t : t \in (cum + 1)..n.highest_tsn
      BY <2>1, <3>1
    <3>4. n.highest_tsn > cum
      BY <2>1, <3>3
    <3>5. s.fast_recovery_exit_tsn = None \/ cum >= s.fast_recovery_exit_tsn
      BY <1>5, <3>1, Zenon
    <3> QED
      BY <1>24, <2>1, <3>2, <3>4, <3>5 DEF None
  <2> QED
    BY <2>4, <2>5
<1> QED
  BY <1>2, <1>7, <1>10, <1>13, <1>15, <1>17, <1>20, <1>21, <1>22, <1>23, <1>24, Zenon DEF cum

\* T3-rtx has expired: all that is in flight is nacked.
LEMMA ReadyHandleT3RtxTimerExpiry ==
  ASSUME NEW s, NEW e, NEW b, NEW o, Ready(s, e, b, o)
  PROVE  LET r == HandleT3RtxTimerExpiry(s)
         IN  /\ Ready(r, e, b, r) /\ r.unacked_packet_bytes <= s.unacked_packet_bytes
             /\ r.fast_recovery_exit_tsn = s.fast_recovery_exit_tsn
<1> DEFINE thresh == Max({s.cwnd \div 2, 4 * Mtu})
           u == [s EXCEPT !.ssthresh = thresh, !.cwnd = Mtu, !.partial_bytes_acked = 0]
           r == NackAll(u)
<1>1. /\ Good(s, e) /\ Sane(s) /\ Typed(s) /\ Kept(s, b) /\ s.to_be_fast_retransmitted = {}
      /\ Pending(s) => s.t3_rtx
  BY Zenon DEF Ready, Handled, Good
<1>2. HandleT3RtxTimerExpiry(s) = r
  BY Zenon DEF HandleT3RtxTimerExpiry
<1>3. thresh \in Int /\ Mtu \in Int
  <2>1. s.cwnd \in Int /\ 2 \in Nat \ {0} /\ 4 * Mtu \in Int /\ Mtu \in Int
    BY <1>1, Constants DEF Typed
  <2>2. s.cwnd \div 2 \in Int
    BY <2>1, Division
  <2> QED
    BY <2>1, <2>2, MaxOfTwo, Zenon
<1> HIDE DEF thresh
<1>4. Frame(u, s, ControlFields) /\ u.t3_rtx = s.t3_rtx
      /\ u.unacked_packet_bytes = s.unacked_packet_bytes
      /\ u.fast_recovery_exit_tsn = s.fast_recovery_exit_tsn
  BY <1>1, Zenon DEF Typed, Frame, IsRecord, Sane, Shape, AllFields, QueueFields, ControlFields
<1>5. Typed(u)
  BY <1>1, <1>3 DEF Typed, AllFields, QueueFields
<1> HIDE DEF u
<1>6. /\ Good(u, e) /\ Sane(u) /\ (Pending(u) => u.t3_rtx) /\ u.to_be_fast_retransmitted = {}
  BY <1>1, <1>4, <1>5, GoodControl, Zenon DEF Good
<1>7. Kept(u, b)
  <2>1. Frame(u, s, ControlFields \cup {"send_queue", "ended", "out"})
    BY <1>4, SMTT(20) DEF Frame
  <2> QED
    BY <1>1, <2>1, KeptFrame, Zenon
<1>8. /\ Sane(r) /\ Frame(r, u, NackFields) /\ \E ms : Abandons(r, u, ms)
      /\ r.to_be_fast_retransmitted \subseteq u.to_be_fast_retransmitted
  BY <1>6, NackAllIs, Zenon
<1>9. r.unacked_packet_bytes <= u.unacked_packet_bytes
  BY <1>6, NackAllFlight, Zenon
<1> HIDE DEF r
<1>10. PICK ms : Abandons(r, u, ms)
  BY <1>8, SMTT(20)
<1>11. Good(r, e) /\ (Pending(r) => Pending(u))
  BY <1>6, <1>8, <1>10, GoodAbandons, Zenon
<1>12. Kept(r, b) /\ r.t3_rtx = u.t3_rtx /\ r.fast_recovery_exit_tsn = u.fast_recovery_exit_tsn
  BY <1>5, <1>6, <1>7, <1>8, <1>10, KeptAbandons, QueueFrame, Zenon
<1>13. r.to_be_fast_retransmitted = {}
  BY <1>6, <1>8, Zenon
<1>14. Flown(r, r)
  BY <1>11, FlownSelf, Zenon DEF Good
<1>15. Ready(r, e, b, r)
  BY <1>6, <1>11, <1>12, <1>13, <1>14, Zenon DEF Ready, Handled
<1> QED
  BY <1>2, <1>4, <1>12, <1>9, <1>15, Zenon

\* A message is taken into the send queue.
LEMMA ReadyAdd ==
  ASSUME NEW s, NEW e, Good(s, e), s.to_be_fast_retransmitted = {}, Pending(s) => s.t3_rtx,
         s.accepted < Len(Messages)
  PROVE  LET r == Add([s EXCEPT !.accepted = @ + 1], s.accepted + 1)
         IN  /\ Ready(r, e, r, r) /\ r.unacked_packet_bytes = s.unacked_packet_bytes
             /\ r.fast_recovery_exit_tsn = s.fast_recovery_exit_tsn
             /\ r.last_cumulative_tsn_ack = s.last_cumulative_tsn_ack
             /\ r.assigned = s.assigned /\ r.given_up = s.given_up
<1> DEFINE m == s.accepted + 1
           sq == [k \in DOMAIN s.send_queue \cup {m} |-> IF k = m THEN 0 ELSE s.send_queue[k]]
           r == Add([s EXCEPT !.accepted = @ + 1], s.accepted + 1)
<1>1. /\ Sane(s) /\ Owned(s, e) /\ Whole(s) /\ Waiting(s) /\ Over(s, e) /\ Fresh(s)
      /\ Packed(s) /\ Typed(s)
  BY Zenon DEF Good
<1>2. r = [s EXCEPT !.accepted = m, !.send_queue = sq]
  BY <1>1, Zenon DEF Add, Typed, AllFields, QueueFields, Sane, Shape, IsRecord
<1>3. /\ m \in 1..Len(Messages) /\ m \notin 1..s.accepted /\ 1..m = 1..s.accepted \cup {m}
      /\ s.accepted \in Nat
  <2>1. Len(Messages) \in Nat
    BY <1>1, QueueAssumption, LenIs, Zenon DEF Typed
  <2> QED
    BY <1>1, <2>1 DEF Typed
<1>4. /\ DOMAIN sq = DOMAIN s.send_queue \cup {m}
      /\ \A k \in DOMAIN sq : sq[k] = IF k = m THEN 0 ELSE s.send_queue[k]
  OBVIOUS
<1> HIDE DEF m, sq, r
<1>5. /\ Frame(r, s, {"accepted", "send_queue"}) /\ r.accepted = m /\ r.send_queue = sq
  BY <1>1, <1>2, Zenon DEF Typed, Frame, IsRecord, Sane, Shape, AllFields, QueueFields
<1>6. Typed(r)
  BY <1>1, <1>3, <1>5 DEF Typed, Frame, AllFields, QueueFields
<1>7. /\ r.assigned = s.assigned /\ r.given_up = s.given_up
      /\ r.out = s.out /\ r.ended = s.ended /\ r.t3_rtx = s.t3_rtx
      /\ r.unacked_packet_bytes = s.unacked_packet_bytes
      /\ r.fast_recovery_exit_tsn = s.fast_recovery_exit_tsn
  BY <1>1, <1>5, Zenon DEF Frame, Typed, AllFields, QueueFields
<1>8. /\ Sane(r) /\ r.outstanding_data = s.outstanding_data /\ r.highest_tsn = s.highest_tsn
      /\ r.last_cumulative_tsn_ack = s.last_cumulative_tsn_ack
      /\ r.to_be_fast_retransmitted = s.to_be_fast_retransmitted
  <2>1. {"accepted", "send_queue"} \cap CoreFields = {}
    BY SMTT(20) DEF CoreFields
  <2> QED
    BY <1>1, <1>5, <2>1, SaneFrame, Zenon
<1>9. /\ Tsns(r) = Tsns(s) /\ \A k : ChunksOf(r, k) = ChunksOf(s, k)
      /\ \A t : Id(r, t) = Id(s, t) /\ GivenUp(r, t) = GivenUp(s, t) /\ IsLast(r, t) = IsLast(s, t)
  BY <1>8, Zenon DEF Tsns, ChunksOf, Id, GivenUp, IsLast
<1>10. m \in MessageIds /\ Messages[m].size \in Nat \ {0}
  BY <1>3, <1>5, <1>6, AcceptedIds, Zenon
<1>11. Owned(r, e)
  BY <1>1, <1>3, <1>5, <1>7, <1>8, <1>9 DEF Owned
<1>12. Whole(r)
  BY <1>1, <1>9, Zenon DEF Whole
<1>13. Waiting(r)
  <2> SUFFICES ASSUME NEW k \in DOMAIN sq
               PROVE  /\ k \in 1..m /\ sq[k] \in 0..(Messages[k].size - 1)
                      /\ s.ended[k] = <<>> /\ k \notin s.given_up
                      /\ \A t \in ChunksOf(s, k) : /\ sq[k] > 0
                                                   /\ ~IsLast(s, t) /\ ~GivenUp(s, t)
    BY <1>5, <1>7, <1>9, Zenon DEF Waiting
  <2>1. CASE k = m
    <3>1. sq[m] = 0 /\ 0 \in 0..(Messages[m].size - 1)
      BY <1>4, <1>10, <2>1, SMTT(20)
    <3>2. ChunksOf(s, m) = {}
      BY <1>1, <1>3, Zenon DEF Owned, ChunksOf
    <3>3. s.ended[m] = <<>> /\ m \notin s.given_up
      BY <1>1, <1>3, <1>10, Zenon DEF Fresh
    <3> QED
      BY <1>3, <2>1, <3>1, <3>2, <3>3, Zenon
  <2>2. CASE k # m
    <3>1. k \in DOMAIN s.send_queue /\ sq[k] = s.send_queue[k]
      BY <1>4, <2>2, SMTT(20)
    <3> QED
      BY <1>1, <1>3, <3>1, Zenon DEF Waiting
  <2> QED
    BY <2>1, <2>2, Zenon
<1>14. Over(r, e)
  BY <1>1, <1>7, <1>9, Zenon DEF Over
<1>15. Fresh(r)
  BY <1>1, <1>3, <1>5, <1>7, Zenon DEF Fresh
<1>16. Packed(r)
  BY <1>1, <1>7, <1>8, <1>9, Zenon DEF Packed
<1>17. Pending(r) => r.t3_rtx
  BY <1>7, <1>9, Zenon DEF Pending
<1>18. Kept(r, r) /\ Flown(r, r)
  BY <1>6, <1>8, FlownSelf DEF Kept
<1> QED
  BY <1>6, <1>7, <1>8, <1>11, <1>12, <1>13, <1>14, <1>15, <1>16, <1>17, <1>18, Zenon
  DEF Ready, Handled, Good, r

------------------------------------------------------------------------------
(* The end of a handler.                                                   *)

\* What is kept of s when the handler is over.
Finished(s) ==
  [s EXCEPT !.out = {}, !.assigned = @ \o
     [i \in 1..(s.highest_tsn - Len(@)) |->
        LET item == s.outstanding_data[Len(s.assigned) + i]
        IN  item.message_id],
     !.given_up = @ \cup
       {m \in MessageIds : s.ended[m] = <<"Expired">>} \cup
       {s.outstanding_data[t].message_id :
          t \in {u \in Tsns(s) : is_abandoned(s.outstanding_data[u])}}]

LEMMA SendsFinished ==
  ASSUME NEW s, Sends(s)
  PROVE  q' = Finished(s) /\ net' = net \cup s.out
  BY ZenonT(30) DEF Sends, Finished

\* The fields of the record: the new TSNs get their messages.
LEMMA FinishedIs ==
  ASSUME NEW s, NEW e, Good(s, e)
  PROVE  LET r == Finished(s)
         IN  /\ Frame(r, s, {"out", "assigned", "given_up"}) /\ r.out = {}
             /\ r.assigned \in Seq(MessageIds) /\ Len(r.assigned) = s.highest_tsn
             /\ \A t \in 1..Len(s.assigned) : r.assigned[t] = s.assigned[t]
             /\ \A t \in Tsns(s) : r.assigned[t] = Id(s, t)
             /\ \A m : m \in r.given_up <=>
                  \/ m \in s.given_up
                  \/ m \in MessageIds /\ s.ended[m] = <<"Expired">>
                  \/ \E t \in Tsns(s) : GivenUp(s, t) /\ Id(s, t) = m
<1> DEFINE n == s.highest_tsn - Len(s.assigned)
           new == [i \in 1..n |-> LET item == s.outstanding_data[Len(s.assigned) + i]
                                  IN  item.message_id]
           as == s.assigned \o new
           gu == s.given_up \cup
                   {m \in MessageIds : s.ended[m] = <<"Expired">>} \cup
                   {s.outstanding_data[t].message_id :
                      t \in {u \in Tsns(s) : is_abandoned(s.outstanding_data[u])}}
           r == Finished(s)
<1>1. Sane(s) /\ Typed(s) /\ Owned(s, e)
  BY DEF Good
<1>2. r = [s EXCEPT !.out = {}, !.assigned = as, !.given_up = gu]
  BY DEF Finished
<1>3. \A m : m \in gu <=>
        \/ m \in s.given_up
        \/ m \in MessageIds /\ s.ended[m] = <<"Expired">>
        \/ \E t \in Tsns(s) : GivenUp(s, t) /\ Id(s, t) = m
  BY DEF GivenUp, Id
<1>4. /\ s.assigned \in Seq(MessageIds) /\ Len(s.assigned) \in Nat /\ s.highest_tsn \in Nat
      /\ Len(s.assigned) <= s.highest_tsn /\ s.last_cumulative_tsn_ack \in Nat
      /\ s.last_cumulative_tsn_ack <= Len(s.assigned)
      /\ Tsns(s) = (s.last_cumulative_tsn_ack + 1)..s.highest_tsn
  BY <1>1, LenIs DEF Owned, Sane, Shape
<1>5. n \in Nat
  BY <1>4, SMTT(20)
<1>6. \A i \in 1..n : /\ Len(s.assigned) + i \in Tsns(s)
                      /\ new[i] = Id(s, Len(s.assigned) + i) /\ new[i] \in MessageIds
  <2> TAKE i \in 1..n
  <2>1. Len(s.assigned) + i \in Tsns(s)
    BY <1>4
  <2>2. new[i] = Id(s, Len(s.assigned) + i)
    BY DEF Id
  <2>3. Id(s, Len(s.assigned) + i) \in 1..s.accepted
    BY <1>1, <2>1, SMTT(20) DEF Owned
  <2>4. 1..s.accepted \subseteq MessageIds
    BY <1>1, AcceptedIds
  <2> QED
    BY <2>1, <2>2, <2>3, <2>4, Zenon
<1>7. new \in Seq(MessageIds) /\ Len(new) = n
  <2>1. new = [i \in 1..n |-> new[i]]
    OBVIOUS
  <2> HIDE DEF new, n
  <2>2. new \in [1..n -> MessageIds]
    BY <1>6, <2>1, SMTT(20)
  <2> QED
    BY <1>5, <2>2
<1> HIDE DEF new, n, gu
<1>8. /\ as \in Seq(MessageIds) /\ Len(as) = Len(s.assigned) + n
      /\ \A i \in 1..(Len(s.assigned) + n) :
           as[i] = IF i <= Len(s.assigned) THEN s.assigned[i] ELSE new[i - Len(s.assigned)]
  BY <1>4, <1>7, ConcatIs, Zenon
<1> HIDE DEF as
<1>9. Len(as) = s.highest_tsn
  BY <1>4, <1>8 DEF n
<1> DEFINE len == Len(s.assigned)
<1>10. /\ len \in Nat /\ s.highest_tsn = len + n
       /\ Tsns(s) \subseteq 1..(len + n)
       /\ \A i \in 1..(len + n) : as[i] = IF i <= len THEN s.assigned[i] ELSE new[i - len]
       /\ \A i \in 1..n : new[i] = Id(s, len + i)
       /\ \A t \in Tsns(s) : t <= len => s.assigned[t] = Id(s, t)
  <2>1. s.highest_tsn = len + n /\ Tsns(s) \subseteq 1..(len + n) /\ len \in Nat
    BY <1>4, SMTT(20) DEF n
  <2> QED
    BY <1>1, <1>6, <1>8, <2>1, Zenon DEF Owned
<1> HIDE DEF len
<1>11. \A t \in 1..len : as[t] = s.assigned[t]
  <2> TAKE t \in 1..len
  <2>1. t \in 1..(len + n) /\ t <= len
    BY <1>5, <1>10
  <2> QED
    BY <1>10, <2>1, Zenon
<1>12. \A t \in Tsns(s) : as[t] = Id(s, t)
  <2> TAKE t \in Tsns(s)
  <2>1. t \in 1..(len + n)
    BY <1>10
  <2>2. CASE t <= len
    BY <1>10, <2>1, <2>2, Zenon
  <2>3. CASE ~(t <= len)
    <3> DEFINE i == t - len
    <3>1. i \in 1..n /\ len + i = t
      BY <1>5, <1>10, <2>1, <2>3
    <3>2. as[t] = new[i]
      BY <1>10, <2>1, <2>3, Zenon
    <3> HIDE DEF i
    <3> QED
      BY <1>10, <3>1, <3>2
  <2> QED
    BY <2>2, <2>3, Zenon
<1>13. /\ Frame(r, s, {"out", "assigned", "given_up"}) /\ r.out = {} /\ r.assigned = as
       /\ r.given_up = gu
  BY <1>1, <1>2, ZenonT(30) DEF Typed, Frame, IsRecord, Sane, Shape, AllFields, QueueFields
<1> HIDE DEF r
<1> QED
  BY <1>3, <1>8, <1>9, <1>11, <1>12, <1>13, Zenon DEF r, len

LEMMA RestFinished ==
  ASSUME NEW s, NEW e, Good(s, e), s.to_be_fast_retransmitted = {},
         s.given_up \subseteq MessageIds
  PROVE  Rest(Finished(s))
<1> DEFINE r == Finished(s)
<1>1. /\ Sane(s) /\ Owned(s, e) /\ Whole(s) /\ Waiting(s) /\ Over(s, e) /\ Fresh(s)
      /\ Packed(s) /\ Typed(s)
  BY SMTT(20) DEF Good
<1>2. /\ Frame(r, s, {"out", "assigned", "given_up"}) /\ r.out = {}
      /\ r.assigned \in Seq(MessageIds) /\ Len(r.assigned) = s.highest_tsn
      /\ \A t \in 1..Len(s.assigned) : r.assigned[t] = s.assigned[t]
      /\ \A t \in Tsns(s) : r.assigned[t] = Id(s, t)
      /\ \A m : m \in r.given_up <=>
           \/ m \in s.given_up
           \/ m \in MessageIds /\ s.ended[m] = <<"Expired">>
           \/ \E t \in Tsns(s) : GivenUp(s, t) /\ Id(s, t) = m
  BY FinishedIs, Zenon
<1> HIDE DEF r
<1>3. /\ Sane(r) /\ r.outstanding_data = s.outstanding_data /\ r.highest_tsn = s.highest_tsn
      /\ r.last_cumulative_tsn_ack = s.last_cumulative_tsn_ack
      /\ r.to_be_fast_retransmitted = s.to_be_fast_retransmitted
  <2>1. {"out", "assigned", "given_up"} \cap CoreFields = {}
    BY SMTT(20) DEF CoreFields
  <2> QED
    BY <1>1, <1>2, <2>1, SaneFrame, Zenon
<1>4. /\ r.send_queue = s.send_queue /\ r.ended = s.ended /\ r.accepted = s.accepted /\ Typed(r)
  BY <1>1, <1>2, Zenon DEF Frame, Typed, AllFields, QueueFields
<1>5. /\ Tsns(r) = Tsns(s) /\ \A k : ChunksOf(r, k) = ChunksOf(s, k)
      /\ \A t : Id(r, t) = Id(s, t) /\ GivenUp(r, t) = GivenUp(s, t) /\ IsLast(r, t) = IsLast(s, t)
  BY <1>3, Zenon DEF Tsns, ChunksOf, Id, GivenUp, IsLast
<1>6. /\ s.highest_tsn \in Nat /\ s.last_cumulative_tsn_ack <= s.highest_tsn
      /\ Tsns(s) = (s.last_cumulative_tsn_ack + 1)..s.highest_tsn
      /\ s.last_cumulative_tsn_ack \in Nat /\ 1..s.accepted \subseteq MessageIds
  BY <1>1, AcceptedIds, Zenon DEF Sane, Shape
<1>7. Owned(r, r.ended)
  <2>1. \A t \in Tsns(s) : ~(t > Len(r.assigned))
    BY <1>2, <1>6
  <2>2. r.last_cumulative_tsn_ack <= Len(r.assigned) /\ Len(r.assigned) <= r.highest_tsn
    BY <1>2, <1>3, <1>6
  <2> QED
    BY <1>1, <1>2, <1>4, <1>5, <2>1, <2>2, Zenon DEF Owned
<1>8. Whole(r)
  BY <1>1, <1>5, Zenon DEF Whole
<1>9. \A m : (\E t \in Tsns(s) : GivenUp(s, t) /\ Id(s, t) = m) =>
               m \in MessageIds /\ m \in 1..s.accepted /\ ChunksOf(s, m) # {}
               /\ \A t \in ChunksOf(s, m) : GivenUp(s, t)
  BY <1>1, <1>6, Zenon DEF Whole, Owned, ChunksOf
<1>10. Waiting(r)
  <2> SUFFICES ASSUME NEW m \in DOMAIN s.send_queue PROVE m \notin r.given_up
    BY <1>1, <1>4, <1>5, Zenon DEF Waiting
  <2>1. m \notin s.given_up /\ s.ended[m] = <<>> /\ \A t \in ChunksOf(s, m) : ~GivenUp(s, t)
    BY <1>1, Zenon DEF Waiting
  <2>2. s.ended[m] # <<"Expired">>
    BY <2>1
  <2> QED
    BY <1>2, <2>1, <2>2, Zenon DEF ChunksOf
<1>11. Over(r, r.ended)
  <2> SUFFICES ASSUME NEW m \in MessageIds
               PROVE  /\ s.ended[m] = <<"Delivered">> => m \notin r.given_up
                      /\ m \in r.given_up => \A t \in ChunksOf(s, m) : GivenUp(s, t)
    BY <1>1, <1>4, <1>5, Zenon DEF Over
  <2>1. /\ s.ended[m] = <<"Delivered">> => ChunksOf(s, m) = {} /\ m \notin s.given_up
        /\ s.ended[m] = <<"Expired">> \/ m \in s.given_up =>
             \A t \in ChunksOf(s, m) : GivenUp(s, t)
    BY <1>1, Zenon DEF Over
  <2>2. ASSUME s.ended[m] = <<"Delivered">> PROVE m \notin r.given_up
    <3>1. s.ended[m] # <<"Expired">>
      BY <2>2, SMTT(20)
    <3> QED
      BY <1>2, <1>9, <2>1, <2>2, <3>1, Zenon
  <2>3. ASSUME m \in r.given_up PROVE \A t \in ChunksOf(s, m) : GivenUp(s, t)
    BY <1>2, <1>9, <2>1, <2>3, Zenon
  <2> QED
    BY <2>2, <2>3, Zenon
<1>12. Fresh(r)
  <2> SUFFICES ASSUME NEW m \in MessageIds, m \notin 1..s.accepted
               PROVE  s.ended[m] = <<>> /\ m \notin r.given_up
    BY <1>4, Zenon DEF Fresh
  <2>1. s.ended[m] = <<>> /\ m \notin s.given_up
    BY <1>1 DEF Fresh
  <2>2. s.ended[m] # <<"Expired">>
    BY <2>1, SMTT(20)
  <2> QED
    BY <1>2, <1>9, <2>1, <2>2, Zenon
<1>13. Packed(r)
  BY <1>2, Zenon DEF Packed
<1>14. r.given_up \subseteq MessageIds
  BY <1>2, <1>9, Zenon
<1>15. \A t \in Tsns(r) : GivenUp(r, t) => Id(r, t) \in r.given_up
  BY <1>2, <1>5, Zenon
<1> QED
  BY <1>2, <1>3, <1>4, <1>7, <1>8, <1>10, <1>11, <1>12, <1>13, <1>14, <1>15, Zenon DEF Rest, Good, r

\* The definitions that look at Messages, in the next state.
LEMMA RestPrime ==
  ASSUME Messages' = Messages, Rest(q')
  PROVE  Rest(q)'
<1>1. Typed(q)'
  BY Zenon DEF Rest, Good, Typed
<1>2. Waiting(q)'
  BY Zenon DEF Rest, Good, Waiting
<1>3. Good(q, q.ended)'
  BY <1>1, <1>2, Zenon DEF Rest, Good
<1> QED
  BY <1>3, SMTT(20) DEF Rest

\* Windows, timers and the abort leave everything else at rest.
LEMMA RestControl ==
  ASSUME NEW s, Rest(s), NEW r, Frame(r, s, ControlFields), Typed(r)
  PROVE  /\ Rest(r) /\ (Pending(r) <=> Pending(s))
         /\ r.last_cumulative_tsn_ack = s.last_cumulative_tsn_ack
         /\ r.assigned = s.assigned /\ r.given_up = s.given_up /\ r.ended = s.ended
<1>1. /\ r.assigned = s.assigned /\ r.given_up = s.given_up /\ r.ended = s.ended
      /\ r.out = s.out /\ r.outstanding_data = s.outstanding_data
  BY Zenon DEF Rest, Good, Frame, Typed, AllFields, QueueFields, ControlFields
<1>2. /\ Good(r, s.ended) /\ (Pending(r) <=> Pending(s)) /\ Tsns(r) = Tsns(s)
      /\ r.to_be_fast_retransmitted = s.to_be_fast_retransmitted
      /\ r.last_cumulative_tsn_ack = s.last_cumulative_tsn_ack
      /\ r.highest_tsn = s.highest_tsn
  BY GoodControl, Zenon DEF Rest
<1>3. \A t : Id(r, t) = Id(s, t) /\ GivenUp(r, t) = GivenUp(s, t)
  BY <1>1, SMTT(20) DEF Id, GivenUp
<1> QED
  BY <1>1, <1>2, <1>3, Zenon DEF Rest
==============================================================================
