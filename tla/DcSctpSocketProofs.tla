------------------------- MODULE DcSctpSocketProofs -------------------------
(***************************************************************************)
(* Proofs about DcSctpSocket: type correctness and WaitingIsArmed for all  *)
(* values of the constants, Agreement for all that allow no restart and no *)
(* Shutdown() in CookieEchoed.                                             *)
(***************************************************************************)
EXTENDS DcSctpSocket, FiniteSetTheorems, TLAPS

(* A packet whose state cookie, if the chunk has one, names a tag.          *)
GoodPacket == {k \in Packet :
  k.type \in {"INIT_ACK", "COOKIE_ECHO"} => k.cookie.my_tag # 0}

(* What every handler relies on and keeps, at any point inside a handler.   *)
Sane(s) == /\ s \in Socket
           /\ s.out \subseteq GoodPacket
           /\ HasCookieEchoChunk(s) => s.tcb.cookie_echo.my_tag # 0

(* What holds in addition between handlers.                                 *)
Good(s) ==
  /\ Sane(s)
  /\ Armed(s)
  /\ s.state \in {"CookieWait", "CookieEchoed"} => s.connect_tag # 0

(* t differs from s in nothing that Good looks at beyond Sane.              *)
Same(s, t) ==
  /\ t.state = s.state /\ t.connect_tag = s.connect_tag
  /\ t.t1_init = s.t1_init /\ t.t1_cookie = s.t1_cookie
  /\ t.t2_shutdown = s.t2_shutdown
  /\ t.tcb.my_tag = s.tcb.my_tag /\ t.tcb.cookie_echo = s.tcb.cookie_echo
  /\ t.tcb.peer_tag = s.tcb.peer_tag /\ t.lapsed = s.lapsed

(* The handshake is over for s.                                             *)
Opened(s) == s.state \notin {"Closed", "CookieWait", "CookieEchoed"}

(* A packet that s may send at any time: no INIT ACK, an INIT with the tag   *)
(* of its own Connect(), the COOKIE ECHO of its TCB, a COOKIE ACK once it is *)
(* established.                                                             *)
Ordinary(s, k) ==
  /\ k.type # "INIT_ACK"
  /\ k.type = "INIT" => k.itag = s.connect_tag /\ s.connect_tag # 0
  /\ k.type = "COOKIE_ECHO" => /\ HasCookieEchoChunk(s)
                              /\ k.tag = s.tcb.peer_tag
                              /\ k.cookie = s.tcb.cookie_echo
  /\ k.type = "COOKIE_ACK" => Opened(s)

(* s became t without a step of the handshake, or t is closed.              *)
Calm(s, t) ==
  \/ t.lapsed
  \/ /\ ~s.lapsed
     /\ t.connect_tag = s.connect_tag
     /\ t.tcb.my_tag = s.tcb.my_tag /\ t.tcb.peer_tag = s.tcb.peer_tag
     /\ t.tcb.cookie_echo = s.tcb.cookie_echo
     /\ t.state = s.state \/ (Opened(s) /\ Opened(t))
     /\ \A k \in t.out : k \in s.out \/ Ordinary(t, k)

IInv == /\ TypeOK
        /\ \A p \in Peers : Good(sock[p])
        /\ \A p \in Peers : net[p] \subseteq GoodPacket

-----------------------------------------------------------------------------
LEMMA CardMessages ==
  ASSUME NEW S \in SUBSET Message
  PROVE  Cardinality(S) \in Nat
<1>1. IsFiniteSet(1..3)
  BY FS_Interval, 1 \in Int, 3 \in Int, Zenon
<1>2. IsFiniteSet(S)
  BY <1>1, FS_Subset, Zenon DEF Message
<1>3. QED
  BY <1>2, FS_CardinalityType

LEMMA NoThings ==
  /\ NoCookie \in Cookie /\ NoSack \in Sack
  /\ NoTcb \in Tcb
  /\ 0 \in Tag0
BY DEF NoCookie, Cookie, NoSack, Sack, NoTcb, Tcb, Tag0

LEMMA SinglePacket ==
  ASSUME NEW tag \in Tag0, NEW type \in ChunkType
  PROVE  Single(tag, type) \in Packet
BY NoThings DEF Single, Packet

LEMMA SameGood ==
  ASSUME NEW s, NEW t, Good(s), Sane(t), Same(s, t)
  PROVE  Good(t)
BY DEF Good, Same, Armed, HasTcb, HasCookieEchoChunk

LEMMA SendKeeps ==
  ASSUME NEW s, Sane(s), NEW k \in GoodPacket
  PROVE  Sane(Send(s, k)) /\ Same(s, Send(s, k))
BY DEF Sane, Same, Send, Socket, GoodPacket, HasCookieEchoChunk

LEMMA CalmSelf ==
  ASSUME NEW s
  PROVE  Calm(s, s)
BY DEF Calm

LEMMA CalmTrans ==
  ASSUME NEW s, NEW t, NEW u, Calm(s, t), Calm(t, u)
  PROVE  Calm(s, u)
<1>1. CASE u.lapsed
  BY <1>1 DEF Calm
<1>2. CASE ~u.lapsed
  <2>1. \A k : Ordinary(t, k) => Ordinary(u, k)
    BY <1>2 DEF Calm, Ordinary, HasCookieEchoChunk, Opened
  <2>2. ~t.lapsed /\ ~s.lapsed
    BY <1>2 DEF Calm
  <2>3. \A k \in u.out : k \in s.out \/ Ordinary(u, k)
    BY <1>2, <2>1, <2>2 DEF Calm
  <2>4. QED
    BY <1>2, <2>2, <2>3 DEF Calm, Opened
<1>3. QED
  BY <1>1, <1>2

LEMMA SameCalm ==
  ASSUME NEW s, NEW t, Same(s, t),
         \A k \in t.out : k \in s.out \/ Ordinary(s, k)
  PROVE  Calm(s, t)
<1>1. \A k : Ordinary(s, k) => Ordinary(t, k)
  BY DEF Same, Ordinary, HasCookieEchoChunk, Opened
<1>2. QED
  BY <1>1 DEF Same, Calm

LEMMA SendCalm ==
  ASSUME NEW s, Sane(s), NEW k, Ordinary(s, k)
  PROVE  Calm(s, Send(s, k))
<1>1. Same(s, Send(s, k)) /\ Send(s, k).out = s.out \cup {k}
  BY DEF Sane, Same, Send, Socket
<1>2. QED
  BY <1>1, SameCalm

LEMMA ToPeerCalm ==
  ASSUME NEW s, Sane(s),
         NEW type \in ChunkType \ {"INIT", "INIT_ACK", "COOKIE_ECHO", "COOKIE_ACK"}
  PROVE  Ordinary(s, ToPeer(s, type)) /\ Calm(s, Send(s, ToPeer(s, type)))
<1>1. Ordinary(s, ToPeer(s, type))
  BY DEF Ordinary, ToPeer, Single
<1>2. QED
  BY <1>1, SendCalm

LEMMA ToPeerPacket ==
  ASSUME NEW s, Sane(s), NEW type \in ChunkType \ {"INIT_ACK", "COOKIE_ECHO"}
  PROVE  ToPeer(s, type) \in GoodPacket
<1>1. s.tcb.peer_tag \in Tag0
  BY DEF Sane, Socket, Tcb
<1>2. QED
  BY <1>1, SinglePacket DEF ToPeer, GoodPacket, Single

(* s with other packets sent, another send queue and another TCB.           *)
With(s, o, q, c) == [s EXCEPT !.out = o, !.send_queue = q, !.tcb = c]

LEMMA TcbUpdate ==
  ASSUME NEW s, Sane(s), NEW c \in Tcb, NEW o \in SUBSET GoodPacket,
         NEW q \in SUBSET Message,
         c.my_tag = s.tcb.my_tag, c.cookie_echo = s.tcb.cookie_echo,
         c.peer_tag = s.tcb.peer_tag
  PROVE  /\ Sane(With(s, o, q, c)) /\ Same(s, With(s, o, q, c))
         /\ With(s, o, q, c).out = o
<1> DEFINE t == With(s, o, q, c)
<1>1. /\ t \in Socket /\ t.out = o /\ t.tcb = c /\ t.state = s.state
      /\ t.t1_init = s.t1_init /\ t.t1_cookie = s.t1_cookie
      /\ t.t2_shutdown = s.t2_shutdown /\ t.connect_tag = s.connect_tag
      /\ t.lapsed = s.lapsed
  <2>1. s \in Socket /\ o \subseteq Packet
    BY DEF Sane, GoodPacket
  <2>2. QED
    BY <2>1, Zenon DEF With, Socket
<1> HIDE DEF t
<1>2. QED
  BY <1>1 DEF Sane, Same, HasCookieEchoChunk, t

LEMMA SendSackKeeps ==
  ASSUME NEW s, Sane(s)
  PROVE  /\ Sane(SendSack(s)) /\ Same(s, SendSack(s))
         /\ Calm(s, SendSack(s))
<1> DEFINE k == [ToPeer(s, "None") EXCEPT !.sack = SelectiveAck(s.tcb)]
           c == [s.tcb EXCEPT !.ack_due = FALSE]
<1>1. k \in GoodPacket /\ k.type = "None"
  <2>1. ToPeer(s, "None") \in GoodPacket /\ ToPeer(s, "None").type = "None"
    BY ToPeerPacket DEF ChunkType, ToPeer, Single
  <2>2. SelectiveAck(s.tcb) \in Sack
    BY DEF SelectiveAck, Sack, Sane, Socket, Tcb
  <2>3. QED
    BY <2>1, <2>2 DEF GoodPacket, Packet
<1>2. s.tcb \in Tcb /\ s.out \subseteq GoodPacket /\ s.send_queue \in SUBSET Message
  BY DEF Sane, Socket
<1>3. /\ c \in Tcb /\ c.my_tag = s.tcb.my_tag
      /\ c.cookie_echo = s.tcb.cookie_echo /\ c.peer_tag = s.tcb.peer_tag
  BY <1>2, Zenon DEF Tcb
<1>4. SendSack(s) = With(s, s.out \cup {k}, s.send_queue, c)
  BY Zenon DEF SendSack, Sane, Socket, With
<1>5. s.out \cup {k} \in SUBSET GoodPacket
  BY <1>1, <1>2
<1> HIDE DEF k, c
<1>6. /\ Sane(SendSack(s)) /\ Same(s, SendSack(s))
      /\ SendSack(s).out = s.out \cup {k}
  BY <1>2, <1>3, <1>4, <1>5, TcbUpdate
<1>7. Ordinary(s, k)
  BY <1>1 DEF Ordinary
<1>8. QED
  BY <1>6, <1>7, SameCalm

LEMMA SendBufferedPacketsKeeps ==
  ASSUME NEW s, Sane(s), NEW ctl \in {"None", "COOKIE_ACK"}
  PROVE  /\ Sane(SendBufferedPackets(s, ctl))
         /\ Same(s, SendBufferedPackets(s, ctl))
         /\ ctl = "None" \/ Opened(s) => Calm(s, SendBufferedPackets(s, ctl))
<1> DEFINE tcb == s.tcb
           echo == HasCookieEchoChunk(s)
           first == IF echo
                 THEN [ToPeer(s, "COOKIE_ECHO") EXCEPT !.cookie = tcb.cookie_echo]
                 ELSE ToPeer(s, ctl)
           ready == tcb.to_be_retransmitted \cup s.send_queue
           window == tcb.cwnd - Cardinality(tcb.inflight)
           room == IF echo /\ window > 1 THEN 1 ELSE window
           burst == {m \in ready : Cardinality({k \in ready : k < m}) < room}
           lead == {m \in burst : \A k \in burst : m <= k}
           sack == IF tcb.ack_due THEN SelectiveAck(tcb) ELSE NoSack
           chunk(m) == [stream |-> tcb.my_tag, tsn |-> m - tcb.base, msg |-> m]
           heads == IF burst = {} THEN {[first EXCEPT !.sack = sack]}
             ELSE {[first EXCEPT !.sack = sack, !.data = chunk(m)] : m \in lead}
           tail == {[ToPeer(s, "None") EXCEPT !.data = chunk(m)] :
                      m \in burst \ lead}
           empty == first.type = "None" /\ ~tcb.ack_due /\ burst = {}
           c == [tcb EXCEPT !.inflight = @ \cup burst,
                            !.to_be_retransmitted = @ \ burst,
                            !.t3_rtx = @ \/ burst # {},
                            !.ack_due = FALSE]
           t == With(s, s.out \cup heads \cup tail, s.send_queue \ burst, c)
<1>1. /\ tcb \in Tcb /\ s.out \subseteq GoodPacket
      /\ s.send_queue \in SUBSET Message
  BY DEF Sane, Socket
<1>2. first \in GoodPacket
  <2>1. CASE echo
    <3>1. ToPeer(s, "COOKIE_ECHO") \in Packet
      BY <1>1, SinglePacket DEF ToPeer, ChunkType, Tcb
    <3>2. tcb.cookie_echo \in Cookie /\ tcb.cookie_echo.my_tag # 0
      BY <1>1, <2>1 DEF Tcb, Sane
    <3>3. QED
      BY <3>1, <3>2, <2>1 DEF GoodPacket, Packet
  <2>2. CASE ~echo
    BY <2>2, ToPeerPacket DEF ChunkType
  <2>3. QED
    BY <2>1, <2>2
<1>3. burst \subseteq Message /\ lead \subseteq Message
  BY <1>1 DEF Tcb
<1>4. sack \in Sack
  BY <1>1, NoThings DEF SelectiveAck, Sack, Tcb
<1>5. \A m \in Message : chunk(m) \in Data
  BY <1>1, SMTT(20) DEF Tcb, Data, Message
<1>6. /\ c \in Tcb /\ c.my_tag = tcb.my_tag /\ c.cookie_echo = tcb.cookie_echo
      /\ c.peer_tag = tcb.peer_tag
  <2> HIDE DEF burst
  <2>1. QED
    BY <1>1, <1>3, Zenon DEF Tcb
<1>7. heads \subseteq GoodPacket
  <2> HIDE DEF first, sack, chunk, burst, lead
  <2>1. \A m \in Message : [first EXCEPT !.sack = sack, !.data = chunk(m)] \in GoodPacket
    BY <1>2, <1>4, <1>5, Zenon DEF GoodPacket, Packet
  <2>2. [first EXCEPT !.sack = sack] \in GoodPacket
    BY <1>2, <1>4 DEF GoodPacket, Packet
  <2>3. QED
    BY <2>1, <2>2, <1>3, Zenon
<1>8. tail \subseteq GoodPacket
  <2> HIDE DEF chunk, burst, lead
  <2>1. ToPeer(s, "None") \in GoodPacket
    BY ToPeerPacket DEF ChunkType
  <2>2. \A m \in Message : [ToPeer(s, "None") EXCEPT !.data = chunk(m)] \in GoodPacket
    BY <2>1, <1>5 DEF GoodPacket, Packet
  <2>3. QED
    BY <2>2, <1>3
<1>9. SendBufferedPackets(s, ctl) = IF empty THEN s ELSE t
  BY Zenon DEF SendBufferedPackets, With
<1>10. s.out \cup heads \cup tail \in SUBSET GoodPacket
  <2> HIDE DEF heads, tail
  <2>1. QED
    BY <1>1, <1>7, <1>8
<1>11. s.send_queue \ burst \in SUBSET Message
  BY <1>1
<1>12. Sane(t) /\ Same(s, t) /\ t.out = s.out \cup heads \cup tail
  <2> HIDE DEF heads, tail, burst, c
  <2>1. QED
    BY <1>6, <1>10, <1>11, TcbUpdate
<1>13. Same(s, s)
  BY DEF Same
<1>14. ASSUME ctl = "None" \/ Opened(s) PROVE Calm(s, t)
  <2>1. first.type \in {"None", "COOKIE_ACK", "COOKIE_ECHO"}
        /\ (first.type = "COOKIE_ACK" => Opened(s))
        /\ (first.type = "COOKIE_ECHO" =>
              echo /\ first.tag = tcb.peer_tag /\ first.cookie = tcb.cookie_echo)
    BY <1>14 DEF ToPeer, Single
  <2>2. ToPeer(s, "None") \in Packet /\ ToPeer(s, "None").type = "None"
    BY ToPeerPacket, SMTT(20) DEF ChunkType, ToPeer, Single, GoodPacket
  <2>3. \A k \in heads : /\ k.type = first.type /\ k.tag = first.tag
                        /\ k.cookie = first.cookie
    <3> HIDE DEF first, sack, chunk, burst, lead
    <3>1. first \in Packet
      BY <1>2 DEF GoodPacket
    <3>2. QED
      BY <3>1, Zenon DEF Packet
  <2>4. \A k \in tail : k.type = "None"
    <3> HIDE DEF chunk, burst, lead
    <3>1. QED
      BY <2>2 DEF Packet
  <2> HIDE DEF heads, tail, first, t
  <2>5. \A k \in heads \cup tail : Ordinary(s, k)
    BY <2>1, <2>3, <2>4 DEF Ordinary
  <2>6. QED
    BY <1>12, <2>5, SameCalm
<1>15. Calm(s, s)
  BY CalmSelf
<1> HIDE DEF t, empty
<1>16. QED
  BY <1>9, <1>12, <1>13, <1>14, <1>15, Zenon

(* t is s with a new TCB whose tags are my and peer.                        *)
Created(s, t, my, peer) ==
  /\ Sane(t)
  /\ t.tcb.my_tag = my /\ t.tcb.peer_tag = peer /\ t.tcb.cookie_echo = NoCookie
  /\ t.out = s.out /\ t.lapsed = s.lapsed
  /\ t.state = s.state /\ t.connect_tag = s.connect_tag
  /\ t.t1_init = s.t1_init /\ t.t1_cookie = s.t1_cookie
  /\ t.t2_shutdown = s.t2_shutdown

LEMMA CreateTcbKeeps ==
  ASSUME NEW s, Sane(s), NEW my \in Tag0, NEW peer \in Tag0, NEW tie \in Tag0
  PROVE  Created(s, CreateTransmissionControlBlock(s, my, peer, tie), my, peer)
<1> DEFINE c == [NoTcb EXCEPT !.my_tag = my, !.peer_tag = peer, !.tie_tag = tie,
                   !.base = s.accepted - Cardinality(s.send_queue),
                   !.cwnd = CwndInitial]
<1>1. s.send_queue \in SUBSET Message /\ s.accepted \in 0..3
  BY DEF Sane, Socket
<1>2. s.accepted - Cardinality(s.send_queue) \in Int
  BY <1>1, CardMessages
<1>3. c \in Tcb /\ c.my_tag = my /\ c.peer_tag = peer /\ c.cookie_echo = NoCookie
  BY <1>2, NoThings, LimitsAssumption, Zenon DEF NoTcb, Tcb
<1>4. CreateTransmissionControlBlock(s, my, peer, tie) = [s EXCEPT !.tcb = c]
  BY DEF CreateTransmissionControlBlock
<1> HIDE DEF c
<1>5. QED
  BY <1>3, <1>4 DEF Created, Sane, Socket, HasCookieEchoChunk

LEMMA InternalCloseKeeps ==
  ASSUME NEW s, Sane(s), s.state = "Closed" => Good(s),
         NEW cb \in {"OnClosed", "OnAborted"}
  PROVE  Good(InternalClose(s, cb)) /\ Calm(s, InternalClose(s, cb))
<1>1. CASE s.state = "Closed"
  BY <1>1, CalmSelf DEF InternalClose
<1>2. CASE s.state # "Closed"
  <2> DEFINE t == InternalClose(s, cb)
  <2>1. t = [s EXCEPT !.t1_init = Off, !.t1_cookie = Off, !.t2_shutdown = Off,
                      !.tcb = NoTcb, !.app = cb, !.state = "Closed",
                      !.lapsed = TRUE]
    BY <1>2 DEF InternalClose
  <2>2. Off \in Timer /\ "Closed" \in State /\ s \in Socket
    BY DEF State, Timer, Sane
  <2> HIDE DEF t
  <2>3. t \in Socket
    BY <2>1, <2>2, NoThings, Zenon DEF Socket
  <2>4. /\ t.out = s.out /\ t.tcb = NoTcb /\ t.state = "Closed"
        /\ t.t1_init = Off /\ t.t1_cookie = Off /\ t.t2_shutdown = Off
        /\ t.lapsed
    BY <2>1, <2>2, Zenon DEF Socket
  <2>5. NoTcb.my_tag = 0 /\ NoTcb.cookie_echo = NoCookie
    BY DEF NoTcb
  <2>6. Good(t)
    BY <2>3, <2>4, <2>5 DEF Good, Sane, Armed, HasTcb, HasCookieEchoChunk
  <2>7. Calm(s, t)
    BY <2>4 DEF Calm
  <2>8. QED
    BY <2>6, <2>7 DEF t
<1>3. QED
  BY <1>1, <1>2

(* Sending a chunk of the shutdown and starting T2-shutdown.                *)
LEMMA ShutdownStep ==
  ASSUME NEW s, Good(s), HasTcb(s), s.state # "CookieEchoed",
         NEW type \in {"SHUTDOWN", "SHUTDOWN_ACK"},
         NEW st \in {s.state, "ShutdownSent", "ShutdownAckSent"}
  PROVE  LET t == [Send(s, ToPeer(s, type)) EXCEPT !.t2_shutdown = 0, !.state = st]
         IN  Good(t) /\ Calm(s, t)
<1> DEFINE u == Send(s, ToPeer(s, type))
           t == [u EXCEPT !.t2_shutdown = 0, !.state = st]
<1>1. Sane(u) /\ Same(s, u)
  BY SendKeeps, ToPeerPacket DEF Good, ChunkType
<1>2. Good(u) /\ Calm(s, u)
  BY <1>1, SameGood, ToPeerCalm DEF Good, ChunkType
<1> HIDE DEF u
<1>3. 0 \in Timer /\ 0 # Off /\ st \in State
  BY DEF Timer, Off, State, Good, Sane, Socket
<1>4. /\ t \in Socket /\ t.out = u.out /\ t.tcb = u.tcb /\ t.t2_shutdown = 0
      /\ t.state = st /\ t.t1_init = u.t1_init /\ t.t1_cookie = u.t1_cookie
      /\ t.connect_tag = u.connect_tag /\ t.lapsed = u.lapsed
  BY <1>1, <1>3, Zenon DEF Sane, Socket
<1> HIDE DEF t
<1>5. Good(t)
  BY <1>1, <1>2, <1>3, <1>4
     DEF Good, Sane, Same, Armed, HasTcb, HasCookieEchoChunk
<1>6. Opened(u) /\ Opened(t)
  BY <1>1, <1>4 DEF Good, Same, Armed, Opened
<1>7. Calm(u, t)
  BY <1>4, <1>6 DEF Calm
<1>8. Calm(s, t)
  BY <1>2, <1>7, CalmTrans
<1>9. QED
  BY <1>5, <1>8 DEF t, u

(* Moving between the states that have a TCB and no T1 timer.               *)
LEMMA StateChange ==
  ASSUME NEW s, Good(s), HasTcb(s),
         NEW st \in {"Established", "ShutdownPending", "ShutdownReceived"}
  PROVE  LET t == [s EXCEPT !.state = st, !.t1_init = Off, !.t1_cookie = Off]
         IN  /\ Good(t) /\ HasTcb(t) /\ t.state = st
             /\ s.state # "CookieEchoed" => Calm(s, t)
<1> DEFINE t == [s EXCEPT !.state = st, !.t1_init = Off, !.t1_cookie = Off]
<1>1. Off \in Timer /\ st \in State
  BY DEF Timer, State
<1>2. /\ t \in Socket /\ t.out = s.out /\ t.tcb = s.tcb /\ t.state = st
      /\ t.t1_init = Off /\ t.t1_cookie = Off /\ t.t2_shutdown = s.t2_shutdown
      /\ t.connect_tag = s.connect_tag /\ t.lapsed = s.lapsed
  BY <1>1, Zenon DEF Good, Sane, Socket
<1> HIDE DEF t
<1>3. Good(t) /\ HasTcb(t) /\ t.state = st
  BY <1>2 DEF Good, Sane, Armed, HasTcb, HasCookieEchoChunk
<1>4. s.state # "CookieEchoed" => Opened(s) /\ Opened(t)
  BY <1>2 DEF Good, Armed, Opened
<1>5. s.state # "CookieEchoed" => Calm(s, t)
  BY <1>2, <1>4 DEF Calm
<1>6. QED
  BY <1>3, <1>5 DEF t

LEMMA MaybeSendShutdownOrAckKeeps ==
  ASSUME NEW s, Good(s)
  PROVE  Good(MaybeSendShutdownOrAck(s)) /\ Calm(s, MaybeSendShutdownOrAck(s))
<1>1. CASE s.state = "ShutdownPending"
  <2>1. HasTcb(s)
    BY <1>1, SMTT(20) DEF Good, Armed
  <2> DEFINE t == [Send(s, ToPeer(s, "SHUTDOWN")) EXCEPT !.t2_shutdown = 0,
                                                   !.state = "ShutdownSent"]
  <2>2. Good(t) /\ Calm(s, t)
    BY <1>1, <2>1, ShutdownStep, Zenon
  <2>3. MaybeSendShutdownOrAck(s) \in {s, t}
    BY <1>1 DEF MaybeSendShutdownOrAck, SendShutdown
  <2> HIDE DEF t
  <2>4. QED
    BY <2>2, <2>3, CalmSelf
<1>2. CASE s.state = "ShutdownReceived"
  <2>1. HasTcb(s)
    BY <1>2, SMTT(20) DEF Good, Armed
  <2> DEFINE t == [Send(s, ToPeer(s, "SHUTDOWN_ACK")) EXCEPT !.t2_shutdown = 0,
                                                   !.state = "ShutdownAckSent"]
  <2>2. Good(t) /\ Calm(s, t)
    BY <1>2, <2>1, ShutdownStep, Zenon
  <2>3. MaybeSendShutdownOrAck(s) \in {s, t}
    BY <1>2 DEF MaybeSendShutdownOrAck, SendShutdownAck
  <2> HIDE DEF t
  <2>4. QED
    BY <2>2, <2>3, CalmSelf
<1>3. QED
  BY <1>1, <1>2, CalmSelf DEF MaybeSendShutdownOrAck

LEMMA SendGood ==
  ASSUME NEW s, Good(s), NEW k \in GoodPacket
  PROVE  Good(Send(s, k))
BY SendKeeps, SameGood DEF Good

(* k is the INIT ACK with which s answers the INIT pkt.                     *)
Answers(s, pkt, k) ==
  /\ k.type = "INIT_ACK"
  /\ k.cookie.peer_tag = pkt.itag /\ k.cookie.my_tag = k.itag
  /\ ~Opened(s) => k.cookie.tie_tag = 0
  /\ s.state \in {"CookieWait", "CookieEchoed"} => k.itag = s.connect_tag

LEMMA HandleInitKeeps ==
  ASSUME NEW s, Good(s), NEW pkt \in GoodPacket, NEW fresh \in Tags
  PROVE  /\ Good(HandleInit(s, pkt, fresh))
         /\ \/ Calm(s, HandleInit(s, pkt, fresh))
            \/ \E k \in GoodPacket : /\ HandleInit(s, pkt, fresh) = Send(s, k)
                                    /\ Answers(s, pkt, k)
<1> DEFINE collision == s.state \in {"CookieWait", "CookieEchoed"}
           my_tag == IF collision THEN s.connect_tag ELSE fresh
           tie_tag == IF collision \/ s.state = "Closed" THEN 0 ELSE s.tcb.tie_tag
           cookie == [peer_tag |-> pkt.itag, my_tag |-> my_tag,
                      tie_tag |-> tie_tag]
           k == [Single(pkt.itag, "INIT_ACK") EXCEPT !.itag = my_tag,
                                                     !.cookie = cookie]
<1>1. CASE s.state = "ShutdownAckSent"
  <2>1. HasTcb(s) /\ s.t2_shutdown # Off
    BY <1>1, SMTT(20) DEF Good, Armed
  <2> DEFINE t == [Send(s, ToPeer(s, "SHUTDOWN_ACK")) EXCEPT
                     !.t2_shutdown = 0, !.state = "ShutdownAckSent"]
  <2>2. Good(t) /\ Calm(s, t)
    BY <1>1, <2>1, ShutdownStep, Zenon
  <2>3. t = SendShutdownAck(s)
    BY <1>1, Zenon DEF SendShutdownAck, Send, Good, Sane, Socket
  <2> HIDE DEF t
  <2>4. QED
    BY <1>1, <2>2, <2>3 DEF HandleInit
<1>2. CASE s.state # "ShutdownAckSent"
  <2>1. my_tag \in Tag0 /\ my_tag # 0
    BY TagsAssumption DEF Good, Sane, Socket, Tag0
  <2>2. s.tcb.tie_tag \in Tag0
    BY DEF Good, Sane, Socket, Tcb
  <2>3. cookie \in Cookie /\ cookie.my_tag # 0
    <3>1. pkt.itag \in Tag0 /\ tie_tag \in Tag0
      BY <2>2 DEF Tag0, GoodPacket, Packet
    <3> HIDE DEF my_tag, tie_tag
    <3>2. QED
      BY <2>1, <3>1 DEF Cookie
  <2>4. k \in GoodPacket /\ k.type = "INIT_ACK" /\ k.itag = my_tag /\ k.cookie = cookie
    <3> HIDE DEF my_tag, cookie
    <3>1. /\ Single(pkt.itag, "INIT_ACK") \in Packet
          /\ Single(pkt.itag, "INIT_ACK").type = "INIT_ACK"
      BY SinglePacket DEF GoodPacket, Packet, ChunkType, Single
    <3>2. QED
      BY <3>1, <2>1, <2>3, Zenon DEF GoodPacket, Packet
  <2>5. HandleInit(s, pkt, fresh) = Send(s, k)
    BY <1>2 DEF HandleInit
  <2> HIDE DEF k
  <2>6. Answers(s, pkt, k)
    BY <2>4 DEF Answers, Opened
  <2> HIDE DEF my_tag, cookie
  <2>7. QED
    BY <2>4, <2>5, <2>6, SendGood
<1>3. QED
  BY <1>1, <1>2

(* s, on the INIT ACK pkt, with the TCB and the COOKIE ECHO it makes of it.  *)
Echoes(s, pkt, e) ==
  /\ s.state = "CookieWait" /\ e.state = "CookieEchoed"
  /\ e.connect_tag = s.connect_tag /\ e.lapsed = s.lapsed /\ e.out = s.out
  /\ e.tcb.my_tag = s.connect_tag /\ e.tcb.peer_tag = pkt.itag
  /\ e.tcb.cookie_echo = pkt.cookie

LEMMA HandleInitAckKeeps ==
  ASSUME NEW s, Good(s), NEW pkt \in GoodPacket, NEW fresh \in Tags,
         pkt.type = "INIT_ACK"
  PROVE  /\ Good(HandleInitAck(s, pkt, fresh))
         /\ \/ Calm(s, HandleInitAck(s, pkt, fresh))
            \/ \E e : Echoes(s, pkt, e) /\ Calm(e, HandleInitAck(s, pkt, fresh))
<1> DEFINE c == CreateTransmissionControlBlock(s, s.connect_tag, pkt.itag, fresh)
           e == [c EXCEPT !.t1_init = Off, !.state = "CookieEchoed",
                          !.tcb.cookie_echo = pkt.cookie]
           b == SendBufferedPackets(e, "None")
           r == [b EXCEPT !.t1_cookie = 0]
<1>1. CASE s.state # "CookieWait"
  BY <1>1, CalmSelf DEF HandleInitAck
<1>2. CASE s.state = "CookieWait"
  <2>1. /\ s.connect_tag \in Tag0 /\ s.connect_tag # 0
        /\ pkt.itag \in Tag0 /\ fresh \in Tag0
        /\ pkt.cookie \in Cookie /\ pkt.cookie.my_tag # 0
    BY <1>2 DEF Good, Sane, Socket, GoodPacket, Packet, Tag0
  <2>2. /\ Sane(c) /\ c.tcb.my_tag = s.connect_tag /\ c.tcb.peer_tag = pkt.itag
        /\ c.connect_tag = s.connect_tag /\ c.t2_shutdown = s.t2_shutdown
        /\ c.out = s.out /\ c.lapsed = s.lapsed
    <3>1. Sane(s)
      BY DEF Good
    <3>2. Created(s, c, s.connect_tag, pkt.itag)
      BY <2>1, <3>1, CreateTcbKeeps
    <3> HIDE DEF c
    <3>3. QED
      BY <3>2 DEF Created
  <2>3. s.t2_shutdown = Off
    BY <1>2 DEF Good, Armed
  <2> HIDE DEF c
  <2>4. c.tcb \in Tcb
    BY <2>2 DEF Sane, Socket
  <2>5. /\ [c.tcb EXCEPT !.cookie_echo = pkt.cookie] \in Tcb
        /\ [c.tcb EXCEPT !.cookie_echo = pkt.cookie].my_tag = c.tcb.my_tag
        /\ [c.tcb EXCEPT !.cookie_echo = pkt.cookie].peer_tag = c.tcb.peer_tag
        /\ [c.tcb EXCEPT !.cookie_echo = pkt.cookie].cookie_echo = pkt.cookie
    BY <2>1, <2>4 DEF Tcb
  <2>6. /\ e \in Socket /\ e.out = c.out /\ e.t1_init = Off
        /\ e.state = "CookieEchoed" /\ e.t1_cookie = c.t1_cookie
        /\ e.t2_shutdown = c.t2_shutdown /\ e.connect_tag = c.connect_tag
        /\ e.tcb = [c.tcb EXCEPT !.cookie_echo = pkt.cookie]
        /\ e.lapsed = c.lapsed
    BY <2>2, <2>5, Zenon DEF Sane, Socket, Timer, State
  <2> HIDE DEF e
  <2>7. Sane(e) /\ e.tcb.my_tag # 0 /\ HasCookieEchoChunk(e)
    BY <2>1, <2>2, <2>5, <2>6 DEF Sane, HasCookieEchoChunk, NoCookie
  <2>8. Sane(b) /\ Same(e, b) /\ Calm(e, b)
    BY <2>7, SendBufferedPacketsKeeps
  <2> HIDE DEF b
  <2>9. /\ r \in Socket /\ r.out = b.out /\ r.tcb = b.tcb /\ r.state = b.state
        /\ r.t1_init = b.t1_init /\ r.t2_shutdown = b.t2_shutdown
        /\ r.connect_tag = b.connect_tag /\ r.t1_cookie = 0
        /\ r.lapsed = b.lapsed
    BY <2>8 DEF Sane, Socket, Timer
  <2> HIDE DEF r
  <2>10. 0 # Off
    BY DEF Off
  <2>11. Good(r)
    BY <2>1, <2>2, <2>3, <2>6, <2>7, <2>8, <2>9, <2>10
       DEF Good, Sane, Same, Armed, HasTcb, HasCookieEchoChunk
  <2>12. HandleInitAck(s, pkt, fresh) = r
    BY <1>2 DEF HandleInitAck, r, b, e, c
  <2>13. Echoes(s, pkt, e)
    BY <1>2, <2>2, <2>5, <2>6 DEF Echoes
  <2>14. Calm(b, r)
    BY <2>9 DEF Calm
  <2>15. Calm(e, r)
    BY <2>8, <2>14, CalmTrans
  <2>16. QED
    BY <2>11, <2>12, <2>13, <2>15
<1>3. QED
  BY <1>1, <1>2
(* s, on the COOKIE ECHO pkt, goes on with the TCB it has.                   *)
Continues(s, pkt, c) ==
  /\ HasTcb(s)
  /\ ~PeerRestarted(s.tcb, pkt) /\ ~SimultaneousConnect(s.tcb, pkt)
  /\ c.tcb.my_tag = s.tcb.my_tag /\ c.tcb.peer_tag = s.tcb.peer_tag
  /\ \/ c.tcb.cookie_echo = NoCookie
     \/ s.state = "Established" /\ c.tcb.cookie_echo = s.tcb.cookie_echo

(* s, on the COOKIE ECHO pkt, makes a new TCB of the state cookie.           *)
Renews(s, pkt, c) ==
  /\ ~HasTcb(s) \/ PeerRestarted(s.tcb, pkt) \/ SimultaneousConnect(s.tcb, pkt)
  /\ c.tcb.my_tag = pkt.cookie.my_tag /\ c.tcb.peer_tag = pkt.cookie.peer_tag
  /\ c.tcb.cookie_echo = NoCookie

Accepts(s, pkt, c) ==
  /\ c.state = "Established"
  /\ c.connect_tag = s.connect_tag /\ c.lapsed = s.lapsed /\ c.out = s.out
  /\ HasTcb(s) => ~LateCookieEcho(s.tcb, pkt)
  /\ Continues(s, pkt, c) \/ Renews(s, pkt, c)

LEMMA HandleCookieEchoKeeps ==
  ASSUME NEW s, Good(s), NEW pkt \in GoodPacket, NEW fresh \in Tags,
         pkt.type = "COOKIE_ECHO"
  PROVE  /\ Good(HandleCookieEcho(s, pkt, fresh))
         /\ \/ Calm(s, HandleCookieEcho(s, pkt, fresh))
            \/ \E c : /\ Accepts(s, pkt, c)
                      /\ Calm(c, HandleCookieEcho(s, pkt, fresh))
<1> DEFINE restarted == HasTcb(s) /\ PeerRestarted(s.tcb, pkt)
           dropTcb == restarted \/ (HasTcb(s) /\ SimultaneousConnect(s.tcb, pkt))
           tcb == IF dropTcb THEN NoTcb
                  ELSE IF s.state = "Established" THEN s.tcb
                  ELSE [s.tcb EXCEPT !.cookie_echo = NoCookie]
           up == [s EXCEPT !.t1_init = Off, !.t1_cookie = Off, !.tcb = tcb,
                           !.state = "Established",
                           !.app = IF s.state = "Established" THEN @
                                   ELSE "OnConnected"]
           n == CreateTransmissionControlBlock(up, pkt.cookie.my_tag,
                                               pkt.cookie.peer_tag, fresh)
           c == IF HasTcb(up) THEN up ELSE n
           b == SendBufferedPackets(c, "COOKIE_ACK")
           k == Single(pkt.cookie.peer_tag, "SHUTDOWN_ACK")
           refused == ~HasTcb(s) /\ pkt.tag # pkt.cookie.my_tag
           late == HasTcb(s) /\ LateCookieEcho(s.tcb, pkt)
<1>1. /\ s \in Socket /\ s.tcb \in Tcb /\ s.out \subseteq GoodPacket
      /\ HasCookieEchoChunk(s) => s.tcb.cookie_echo.my_tag # 0
  BY DEF Good, Sane, Socket
<1>2. /\ pkt.cookie.my_tag \in Tag0 /\ pkt.cookie.my_tag # 0
      /\ pkt.cookie.peer_tag \in Tag0 /\ fresh \in Tag0
  BY DEF GoodPacket, Packet, Cookie, Tag0
<1>3. k \in GoodPacket /\ Ordinary(s, k)
  <2>1. k \in Packet
    BY <1>2, SinglePacket DEF ChunkType
  <2>2. QED
    BY <2>1 DEF GoodPacket, Single, Ordinary
<1>4. /\ tcb \in Tcb
      /\ tcb.cookie_echo = NoCookie \/ tcb.cookie_echo = s.tcb.cookie_echo
      /\ dropTcb => tcb.my_tag = 0
      /\ ~dropTcb => /\ tcb.my_tag = s.tcb.my_tag /\ tcb.peer_tag = s.tcb.peer_tag
                     /\ s.state = "Established" \/ tcb.cookie_echo = NoCookie
  <2>1. /\ [s.tcb EXCEPT !.cookie_echo = NoCookie] \in Tcb
        /\ [s.tcb EXCEPT !.cookie_echo = NoCookie].cookie_echo = NoCookie
        /\ [s.tcb EXCEPT !.cookie_echo = NoCookie].my_tag = s.tcb.my_tag
        /\ [s.tcb EXCEPT !.cookie_echo = NoCookie].peer_tag = s.tcb.peer_tag
    BY <1>1, NoThings DEF Tcb
  <2>2. NoTcb \in Tcb /\ NoTcb.cookie_echo = NoCookie /\ NoTcb.my_tag = 0
    BY NoThings DEF NoTcb
  <2> HIDE DEF dropTcb
  <2>3. QED
    BY <1>1, <2>1, <2>2
<1> HIDE DEF tcb
<1>5. /\ up \in Socket /\ up.out = s.out /\ up.tcb = tcb
      /\ up.state = "Established" /\ up.t1_init = Off /\ up.t1_cookie = Off
      /\ up.connect_tag = s.connect_tag /\ up.lapsed = s.lapsed
  BY <1>1, <1>4, Zenon DEF Socket, State, Timer
<1> HIDE DEF up
<1>6. Sane(up)
  BY <1>1, <1>4, <1>5 DEF Sane, HasCookieEchoChunk
<1>7. Created(up, n, pkt.cookie.my_tag, pkt.cookie.peer_tag)
  BY <1>2, <1>6, CreateTcbKeeps
<1> HIDE DEF n
<1>8. /\ Sane(c) /\ HasTcb(c) /\ c.state = "Established"
      /\ c.t1_init = Off /\ c.t1_cookie = Off
  BY <1>2, <1>5, <1>6, <1>7 DEF Created, HasTcb
<1>9. /\ c.connect_tag = s.connect_tag /\ c.lapsed = s.lapsed /\ c.out = s.out
      /\ Continues(s, pkt, c) \/ Renews(s, pkt, c)
  <2>1. CASE HasTcb(up)
    <3>1. c = up /\ ~dropTcb
      BY <1>4, <1>5, <2>1 DEF HasTcb
    <3>2. Continues(s, pkt, c)
      BY <1>4, <1>5, <2>1, <3>1 DEF Continues, HasTcb
    <3>3. QED
      BY <1>5, <3>1, <3>2
  <2>2. CASE ~HasTcb(up)
    <3>1. c = n
      BY <2>2
    <3>2. dropTcb \/ ~HasTcb(s)
      BY <1>4, <1>5, <2>2 DEF HasTcb
    <3>3. Renews(s, pkt, c)
      BY <1>7, <3>1, <3>2 DEF Renews, Created
    <3>4. QED
      BY <1>5, <1>7, <3>1, <3>3 DEF Created
  <2>3. QED
    BY <2>1, <2>2
<1> HIDE DEF c
<1>10. Sane(b) /\ Same(c, b) /\ Calm(c, b)
  <2>1. Opened(c)
    BY <1>8 DEF Opened
  <2>2. QED
    BY <1>8, <2>1, SendBufferedPacketsKeeps
<1> HIDE DEF b
<1>11. Good(b)
  BY <1>8, <1>10 DEF Good, Same, Armed, HasTcb
<1>12. Good(Send(s, k)) /\ Calm(s, Send(s, k))
  BY <1>3, SendGood, SendCalm DEF Good
<1>13. HandleCookieEcho(s, pkt, fresh)
         = IF refused THEN s
           ELSE IF restarted /\ s.state = "ShutdownAckSent" THEN Send(s, k)
           ELSE IF late THEN s ELSE b
  BY Zenon DEF HandleCookieEcho, b, c, n, up, tcb
<1>14. ~late => Accepts(s, pkt, c)
  BY <1>8, <1>9 DEF Accepts
<1> HIDE DEF refused, restarted, late, k
<1>15. QED
  BY <1>10, <1>11, <1>12, <1>13, <1>14, CalmSelf

(* s, on a COOKIE ACK, with its COOKIE ECHO gone.                            *)
Completes(s, c) ==
  /\ s.state = "CookieEchoed" /\ c.state = "Established"
  /\ c.connect_tag = s.connect_tag /\ c.lapsed = s.lapsed /\ c.out = s.out
  /\ c.tcb.my_tag = s.tcb.my_tag /\ c.tcb.peer_tag = s.tcb.peer_tag
  /\ c.tcb.cookie_echo = NoCookie

LEMMA HandleCookieAckKeeps ==
  ASSUME NEW s, Good(s)
  PROVE  /\ Good(HandleCookieAck(s))
         /\ \/ Calm(s, HandleCookieAck(s))
            \/ \E c : Completes(s, c) /\ Calm(c, HandleCookieAck(s))
<1> DEFINE up == [s EXCEPT !.t1_cookie = Off, !.tcb.cookie_echo = NoCookie,
                           !.state = "Established", !.app = "OnConnected"]
<1>1. CASE s.state # "CookieEchoed"
  BY <1>1, CalmSelf DEF HandleCookieAck
<1>2. CASE s.state = "CookieEchoed"
  <2>1. s \in Socket /\ s.tcb \in Tcb /\ s.out \subseteq GoodPacket
    BY DEF Good, Sane, Socket
  <2>2. /\ [s.tcb EXCEPT !.cookie_echo = NoCookie] \in Tcb
        /\ [s.tcb EXCEPT !.cookie_echo = NoCookie].my_tag = s.tcb.my_tag
        /\ [s.tcb EXCEPT !.cookie_echo = NoCookie].peer_tag = s.tcb.peer_tag
        /\ [s.tcb EXCEPT !.cookie_echo = NoCookie].cookie_echo = NoCookie
    BY <2>1, NoThings DEF Tcb
  <2>3. /\ up \in Socket /\ up.out = s.out /\ up.state = "Established"
        /\ up.t1_cookie = Off /\ up.t1_init = s.t1_init
        /\ up.tcb = [s.tcb EXCEPT !.cookie_echo = NoCookie]
        /\ up.connect_tag = s.connect_tag /\ up.lapsed = s.lapsed
    BY <2>1, <2>2, Zenon DEF Socket, State, Timer
  <2>4. HandleCookieAck(s) = SendBufferedPackets(up, "None")
    BY <1>2 DEF HandleCookieAck
  <2> HIDE DEF up
  <2>5. Sane(up) /\ HasTcb(up) /\ up.t1_init = Off
    BY <1>2, <2>1, <2>2, <2>3
       DEF Good, Sane, Armed, HasTcb, HasCookieEchoChunk
  <2>6. /\ Sane(SendBufferedPackets(up, "None"))
        /\ Same(up, SendBufferedPackets(up, "None"))
        /\ Calm(up, SendBufferedPackets(up, "None"))
    BY <2>5, SendBufferedPacketsKeeps
  <2>7. Good(HandleCookieAck(s))
    BY <2>3, <2>4, <2>5, <2>6 DEF Good, Same, Armed, HasTcb
  <2>8. Completes(s, up)
    BY <1>2, <2>2, <2>3 DEF Completes
  <2>9. QED
    BY <2>4, <2>6, <2>7, <2>8
<1>3. QED
  BY <1>1, <1>2

LEMMA HandleShutdownKeeps ==
  ASSUME NEW s, Good(s)
  PROVE  Good(HandleShutdown(s)) /\ Calm(s, HandleShutdown(s))
<1>1. CASE s.state = "ShutdownSent"
  <2>1. HasTcb(s)
    BY <1>1, SMTT(20) DEF Good, Armed
  <2> DEFINE t == [Send(s, ToPeer(s, "SHUTDOWN_ACK")) EXCEPT
                     !.t2_shutdown = 0, !.state = "ShutdownAckSent"]
  <2>2. Good(t) /\ Calm(s, t)
    BY <1>1, <2>1, ShutdownStep, Zenon
  <2>3. HandleShutdown(s) = t
    BY <1>1 DEF HandleShutdown, SendShutdownAck
  <2>4. QED
    BY <2>2, <2>3
<1>2. CASE s.state \in {"Established", "ShutdownPending"}
  <2> DEFINE t == [s EXCEPT !.state = "ShutdownReceived",
                            !.t1_init = Off, !.t1_cookie = Off]
  <2>1. HasTcb(s) /\ s.t1_init = Off /\ s.t1_cookie = Off
    BY <1>2, SMTT(20) DEF Good, Armed
  <2>2. Good(t) /\ Calm(s, t)
    BY <1>2, <2>1, StateChange, Zenon
  <2>3. t = [s EXCEPT !.state = "ShutdownReceived"]
    BY <2>1, Zenon DEF Good, Sane, Socket
  <2>4. HandleShutdown(s) = MaybeSendShutdownOrAck(t)
    BY <1>2, <2>3 DEF HandleShutdown
  <2> HIDE DEF t
  <2>5. QED
    BY <2>2, <2>4, MaybeSendShutdownOrAckKeeps, CalmTrans
<1>3. CASE s.state \notin {"ShutdownSent", "Established", "ShutdownPending"}
  BY <1>3, CalmSelf DEF HandleShutdown
<1>4. QED
  BY <1>1, <1>2, <1>3

LEMMA HandleShutdownAckKeeps ==
  ASSUME NEW s, Good(s), NEW pkt \in GoodPacket
  PROVE  Good(HandleShutdownAck(s, pkt)) /\ Calm(s, HandleShutdownAck(s, pkt))
<1> DEFINE k == [Single(pkt.tag, "SHUTDOWN_COMPLETE") EXCEPT !.t_bit = TRUE]
           u == Send(s, ToPeer(s, "SHUTDOWN_COMPLETE"))
<1>1. k \in GoodPacket /\ Ordinary(s, k)
  <2>1. Single(pkt.tag, "SHUTDOWN_COMPLETE") \in Packet
    BY SinglePacket DEF GoodPacket, Packet, ChunkType
  <2>2. k \in Packet /\ k.type = "SHUTDOWN_COMPLETE"
    BY <2>1, Zenon DEF Packet, Single
  <2>3. QED
    BY <2>2, Zenon DEF GoodPacket, Ordinary
<1>2. Good(Send(s, k)) /\ Calm(s, Send(s, k))
  <2> HIDE DEF k
  <2>1. QED
    BY <1>1, SendGood, SendCalm DEF Good
<1>3. Good(u) /\ Calm(s, u)
  BY ToPeerPacket, ToPeerCalm, SendGood DEF ChunkType, Good
<1> HIDE DEF u
<1>4. Good(InternalClose(u, "OnClosed")) /\ Calm(s, InternalClose(u, "OnClosed"))
  BY <1>3, InternalCloseKeeps, CalmTrans DEF Good
<1> HIDE DEF k
<1>5. QED
  BY <1>2, <1>4 DEF HandleShutdownAck, u, k
LEMMA HandleShutdownCompleteKeeps ==
  ASSUME NEW s, Good(s)
  PROVE  Good(HandleShutdownComplete(s)) /\ Calm(s, HandleShutdownComplete(s))
<1>1. Good(InternalClose(s, "OnClosed")) /\ Calm(s, InternalClose(s, "OnClosed"))
  BY InternalCloseKeeps DEF Good
<1>2. QED
  BY <1>1, CalmSelf DEF HandleShutdownComplete

LEMMA HandleAbortKeeps ==
  ASSUME NEW s, Good(s)
  PROVE  Good(HandleAbort(s)) /\ Calm(s, HandleAbort(s))
<1>1. Good(InternalClose(s, "OnAborted")) /\ Calm(s, InternalClose(s, "OnAborted"))
  BY InternalCloseKeeps DEF Good
<1>2. QED
  BY <1>1, CalmSelf DEF HandleAbort

LEMMA HandleSackKeeps ==
  ASSUME NEW s, Good(s), NEW k \in Sack
  PROVE  Good(HandleSack(s, k)) /\ Calm(s, HandleSack(s, k))
<1> DEFINE tcb == s.tcb
           outstanding == tcb.inflight \cup tcb.nacked \cup tcb.to_be_retransmitted
           sent == outstanding \cup tcb.cum_acked \cup tcb.gap_acked
           reported == {tcb.base + t : t \in k.tsns}
           cum == {m \in sent : \A j \in sent : j <= m => j \in reported}
           acked == outstanding \cap reported
           missing == {m \in tcb.inflight \ reported : \E j \in acked : m < j}
           valid == /\ k.stream = tcb.my_tag
                    /\ tcb.cum_acked \subseteq cum
                    /\ cum # sent \/ tcb.base + Cardinality(sent) + 1 \notin reported
           advanced == cum # tcb.cum_acked
           full == Cardinality(tcb.inflight) + 1 >= tcb.cwnd
           after == [tcb EXCEPT
             !.inflight = @ \ (reported \cup missing),
             !.nacked = (@ \ reported) \cup missing,
             !.to_be_retransmitted = @ \ reported,
             !.cum_acked = cum,
             !.gap_acked = (@ \cup acked) \ cum,
             !.cwnd = IF advanced /\ full THEN @ + 1 ELSE @,
             !.tx_errors = IF acked # {} THEN Clear(@) ELSE @,
             !.t3_rtx = cum # sent \/ (@ /\ ~advanced)]
           t == [s EXCEPT !.tcb = after]
           m == MaybeSendShutdownOrAck(t)
           b == SendBufferedPackets(m, "None")
<1>1. /\ tcb \in Tcb /\ s.out \in SUBSET GoodPacket
      /\ s.send_queue \in SUBSET Message
  BY DEF Good, Sane, Socket
<1>2. cum \subseteq Message /\ acked \subseteq Message /\ missing \subseteq Message
  BY <1>1 DEF Tcb
<1>3. after \in Tcb /\ after.my_tag = tcb.my_tag
                    /\ after.cookie_echo = tcb.cookie_echo
                    /\ after.peer_tag = tcb.peer_tag
  <2> DEFINE f1 == tcb.inflight \ (reported \cup missing)
             f2 == (tcb.nacked \ reported) \cup missing
             f3 == tcb.to_be_retransmitted \ reported
             f5 == (tcb.gap_acked \cup acked) \ cum
             f6 == IF advanced /\ full THEN tcb.cwnd + 1 ELSE tcb.cwnd
             f7 == IF acked # {} THEN Clear(tcb.tx_errors) ELSE tcb.tx_errors
             f8 == cum # sent \/ (tcb.t3_rtx /\ ~advanced)
  <2>1. /\ f1 \in SUBSET Message /\ f2 \in SUBSET Message
        /\ f3 \in SUBSET Message /\ f5 \in SUBSET Message
    <3> HIDE DEF reported, missing, acked, cum
    <3>1. QED
      BY <1>1, <1>2 DEF Tcb
  <2>2. f6 \in Nat /\ f7 \in Nat
    <3> HIDE DEF advanced, full, acked
    <3>1. QED
      BY <1>1 DEF Tcb, Clear
  <2>3. f8 \in BOOLEAN
    BY Zenon
  <2>4. after = [tcb EXCEPT !.inflight = f1, !.nacked = f2,
                   !.to_be_retransmitted = f3, !.cum_acked = cum,
                   !.gap_acked = f5, !.cwnd = f6, !.tx_errors = f7, !.t3_rtx = f8]
    BY Zenon
  <2> HIDE DEF f1, f2, f3, f5, f6, f7, f8, after, cum
  <2>5. QED
    BY <1>1, <1>2, <2>1, <2>2, <2>3, <2>4, Zenon DEF Tcb
<1> HIDE DEF after
<1>4. t = With(s, s.out, s.send_queue, after)
  BY Zenon DEF Good, Sane, Socket, With
<1> HIDE DEF t
<1>5. Sane(t) /\ Same(s, t) /\ t.out = s.out
  BY <1>1, <1>3, <1>4, TcbUpdate DEF Good
<1>6. Good(t) /\ Calm(s, t)
  BY <1>5, SameGood, SameCalm
<1>7. Good(m) /\ Calm(t, m)
  BY <1>6, MaybeSendShutdownOrAckKeeps
<1> HIDE DEF m
<1>8. Good(b) /\ Calm(s, b)
  <2>1. Sane(b) /\ Same(m, b) /\ Calm(m, b)
    BY <1>7, SendBufferedPacketsKeeps DEF Good
  <2>2. QED
    BY <1>6, <1>7, <2>1, SameGood, CalmTrans
<1>9. HandleSack(s, k) = IF HasTcb(s) /\ valid THEN b ELSE s
  BY Zenon DEF HandleSack, b, m, t, after
<1> HIDE DEF b, valid
<1>10. QED
  BY <1>8, <1>9, CalmSelf

LEMMA HandleDataKeeps ==
  ASSUME NEW s, Good(s), NEW d \in Data
  PROVE  Good(HandleData(s, d)) /\ Calm(s, HandleData(s, d))
<1> DEFINE c == [s.tcb EXCEPT !.received = @ \cup {d.tsn}, !.ack_due = TRUE]
           t == [s EXCEPT !.tcb = c,
                          !.delivered = IF d.tsn \in s.tcb.received THEN @
                                        ELSE @ \cup {d.msg}]
<1>1. s \in Socket /\ s.tcb \in Tcb /\ d.tsn \in Int /\ d.msg \in Message
  BY DEF Good, Sane, Socket, Data
<1>2. /\ c \in Tcb /\ c.my_tag = s.tcb.my_tag /\ c.cookie_echo = s.tcb.cookie_echo
      /\ c.peer_tag = s.tcb.peer_tag
  BY <1>1, Zenon DEF Tcb
<1>3. HandleData(s, d) = IF HasTcb(s) /\ d.stream = s.tcb.peer_tag THEN t ELSE s
  BY <1>1, Zenon DEF HandleData, Socket
<1> HIDE DEF c
<1>4. /\ t \in Socket /\ t.out = s.out /\ t.tcb = c /\ t.state = s.state
      /\ t.t1_init = s.t1_init /\ t.t1_cookie = s.t1_cookie
      /\ t.t2_shutdown = s.t2_shutdown /\ t.connect_tag = s.connect_tag
      /\ t.lapsed = s.lapsed
  BY <1>1, <1>2, Zenon DEF Socket
<1> HIDE DEF t
<1>5. Sane(t) /\ Same(s, t)
  BY <1>2, <1>4 DEF Good, Sane, Same, HasCookieEchoChunk
<1>6. Good(t) /\ Calm(s, t)
  BY <1>4, <1>5, SameGood, SameCalm
<1>7. QED
  BY <1>3, <1>6, CalmSelf

LEMMA ReshutdownKeeps ==
  ASSUME NEW s, Good(s), NEW pkt
  PROVE  /\ Good(MaybeSendShutdownOnPacketReceived(s, pkt))
         /\ Calm(s, MaybeSendShutdownOnPacketReceived(s, pkt))
<1>1. CASE s.state = "ShutdownSent"
  <2>1. HasTcb(s)
    BY <1>1 DEF Good, Armed
  <2> DEFINE t == [Send(s, ToPeer(s, "SHUTDOWN")) EXCEPT
                     !.t2_shutdown = 0, !.state = "ShutdownSent"]
  <2>2. Good(t) /\ Calm(s, t)
    BY <1>1, <2>1, ShutdownStep, Zenon
  <2>3. t = [SendShutdown(s) EXCEPT !.t2_shutdown = 0]
    BY <1>1, Zenon DEF SendShutdown, Send, Good, Sane, Socket
  <2> HIDE DEF t
  <2>4. QED
    BY <2>2, <2>3, CalmSelf, SMTT(20) DEF MaybeSendShutdownOnPacketReceived
<1>2. QED
  BY <1>1, CalmSelf DEF MaybeSendShutdownOnPacketReceived

LEMMA DispatchKeeps ==
  ASSUME NEW s, Good(s), NEW pkt \in GoodPacket, NEW fresh \in Tags
  PROVE  Good(Dispatch(s, pkt, fresh))
<1>1. CASE pkt.type = "INIT"
  BY <1>1, HandleInitKeeps DEF Dispatch
<1>2. CASE pkt.type = "INIT_ACK"
  BY <1>2, HandleInitAckKeeps DEF Dispatch
<1>3. CASE pkt.type = "COOKIE_ECHO"
  BY <1>3, HandleCookieEchoKeeps DEF Dispatch
<1>4. CASE pkt.type = "COOKIE_ACK"
  BY <1>4, HandleCookieAckKeeps DEF Dispatch
<1>5. CASE pkt.type = "SHUTDOWN"
  BY <1>5, HandleShutdownKeeps DEF Dispatch
<1>6. CASE pkt.type = "SHUTDOWN_ACK"
  BY <1>6, HandleShutdownAckKeeps DEF Dispatch
<1>7. CASE pkt.type = "SHUTDOWN_COMPLETE"
  BY <1>7, HandleShutdownCompleteKeeps DEF Dispatch
<1>8. CASE pkt.type = "ABORT"
  BY <1>8, HandleAbortKeeps DEF Dispatch
<1>9. CASE pkt.type = "None"
  BY <1>9 DEF Dispatch
<1>10. QED
  BY <1>1, <1>2, <1>3, <1>4, <1>5, <1>6, <1>7, <1>8, <1>9
     DEF GoodPacket, Packet, ChunkType

LEMMA ReceivePacketKeeps ==
  ASSUME NEW s, Good(s), NEW pkt \in GoodPacket, NEW fresh \in Tags,
         NEW immediate \in BOOLEAN
  PROVE  Good(ReceivePacket(s, pkt, fresh, immediate))
<1> DEFINE ctl == Dispatch(MaybeSendShutdownOnPacketReceived(s, pkt), pkt, fresh)
           ack == IF pkt.sack = NoSack THEN ctl ELSE HandleSack(ctl, pkt.sack)
           got == IF pkt.data = NoData THEN ack ELSE HandleData(ack, pkt.data)
           due == /\ HasTcb(got) /\ got.tcb.ack_due
                  /\ pkt.data.stream = got.tcb.peer_tag
<1>1. pkt.sack \in Sack /\ pkt.data \in Data \cup {NoData}
  BY DEF GoodPacket, Packet
<1>2. Good(ctl)
  BY ReshutdownKeeps, DispatchKeeps
<1> HIDE DEF ctl
<1>3. Good(ack)
  BY <1>1, <1>2, HandleSackKeeps
<1> HIDE DEF ack
<1>4. Good(got)
  BY <1>1, <1>3, HandleDataKeeps
<1> HIDE DEF got
<1>5. Good(SendSack(got))
  BY <1>4, SendSackKeeps, SameGood DEF Good
<1>6. ReceivePacket(s, pkt, fresh, immediate)
        = IF ~ValidatePacket(s, pkt) THEN s
          ELSE IF due /\ immediate THEN SendSack(got) ELSE got
  BY Zenon DEF ReceivePacket, got, ack, ctl
<1> HIDE DEF due
<1>7. QED
  BY <1>4, <1>5, <1>6

-----------------------------------------------------------------------------
(* Timer expiries.                                                          *)
LEMMA TriggerType ==
  ASSUME NEW timer \in Timer, timer # Off, NEW max \in Int
  PROVE  Trigger(timer, max) \in Timer
BY DEF Trigger, Timer, Off

LEMMA OnInitTimerExpiryKeeps ==
  ASSUME NEW s, Good(s), s.t1_init # Off, NEW max \in Int
  PROVE  Good(OnInitTimerExpiry(s, max)) /\ Calm(s, OnInitTimerExpiry(s, max))
<1> DEFINE new == Trigger(s.t1_init, max)
           t == [s EXCEPT !.t1_init = new]
           k == [Single(0, "INIT") EXCEPT !.itag = t.connect_tag]
<1>1. new \in Timer
  BY TriggerType DEF Good, Sane, Socket
<1> HIDE DEF new
<1>2. /\ t \in Socket /\ t.out = s.out /\ t.tcb = s.tcb /\ t.state = s.state
      /\ t.t1_init = new /\ t.t1_cookie = s.t1_cookie
      /\ t.t2_shutdown = s.t2_shutdown /\ t.connect_tag = s.connect_tag
      /\ t.lapsed = s.lapsed
  BY <1>1 DEF Good, Sane, Socket
<1>3. OnInitTimerExpiry(s, max) = IF new # Off THEN Send(t, k)
                                       ELSE InternalClose(t, "OnAborted")
  BY <1>2 DEF OnInitTimerExpiry, SendInit, new
<1> HIDE DEF t
<1>4. Sane(t) /\ t.state # "Closed" /\ Calm(s, t)
  BY <1>2 DEF Good, Sane, Armed, HasCookieEchoChunk, Calm
<1>5. k \in GoodPacket /\ Ordinary(t, k)
  <2>1. Single(0, "INIT") \in Packet /\ Single(0, "INIT").type = "INIT"
    BY NoThings, SinglePacket, Zenon DEF ChunkType, Single
  <2>2. t.connect_tag \in Tag0 /\ t.connect_tag # 0
    BY <1>2 DEF Socket, Good, Armed
  <2>3. k \in Packet /\ k.type = "INIT" /\ k.itag = t.connect_tag
    BY <2>1, <2>2 DEF Packet
  <2>4. QED
    BY <2>2, <2>3, Zenon DEF GoodPacket, Ordinary
<1> HIDE DEF k
<1>6. CASE new # Off
  <2>1. Good(t)
    BY <1>2, <1>4, <1>6 DEF Good, Armed, HasTcb, HasCookieEchoChunk
  <2>2. Good(Send(t, k)) /\ Calm(t, Send(t, k))
    BY <1>4, <1>5, <2>1, SendGood, SendCalm
  <2>3. QED
    BY <1>3, <1>4, <1>6, <2>2, CalmTrans
<1>7. CASE new = Off
  BY <1>3, <1>4, <1>7, InternalCloseKeeps, CalmTrans
<1>8. QED
  BY <1>6, <1>7

LEMMA OnCookieTimerExpiryKeeps ==
  ASSUME NEW s, Good(s), s.t1_cookie # Off, NEW max \in Int
  PROVE  Good(OnCookieTimerExpiry(s, max)) /\ Calm(s, OnCookieTimerExpiry(s, max))
<1> DEFINE new == Trigger(s.t1_cookie, max)
           t == [s EXCEPT !.t1_cookie = new]
<1>1. new \in Timer
  BY TriggerType DEF Good, Sane, Socket
<1> HIDE DEF new
<1>2. /\ t \in Socket /\ t.out = s.out /\ t.tcb = s.tcb /\ t.state = s.state
      /\ t.t1_init = s.t1_init /\ t.t1_cookie = new
      /\ t.t2_shutdown = s.t2_shutdown /\ t.connect_tag = s.connect_tag
      /\ t.lapsed = s.lapsed
  BY <1>1 DEF Good, Sane, Socket
<1>3. OnCookieTimerExpiry(s, max) = IF new # Off THEN SendBufferedPackets(t, "None")
                                         ELSE InternalClose(t, "OnAborted")
  BY <1>2 DEF OnCookieTimerExpiry, new
<1> HIDE DEF t
<1>4. Sane(t) /\ t.state # "Closed" /\ Calm(s, t)
  BY <1>2 DEF Good, Sane, Armed, HasCookieEchoChunk, Calm
<1>5. CASE new # Off
  <2>1. Good(t)
    BY <1>2, <1>4, <1>5 DEF Good, Armed, HasTcb, HasCookieEchoChunk
  <2>2. /\ Good(SendBufferedPackets(t, "None"))
        /\ Calm(t, SendBufferedPackets(t, "None"))
    BY <1>4, <2>1, SendBufferedPacketsKeeps, SameGood
  <2>3. QED
    BY <1>3, <1>4, <1>5, <2>2, CalmTrans
<1>6. CASE new = Off
  BY <1>3, <1>4, <1>6, InternalCloseKeeps, CalmTrans
<1>7. QED
  BY <1>5, <1>6

LEMMA OnShutdownTimerExpiryKeeps ==
  ASSUME NEW s, Good(s), s.t2_shutdown # Off
  PROVE  Good(OnShutdownTimerExpiry(s)) /\ Calm(s, OnShutdownTimerExpiry(s))
<1> DEFINE new == Trigger(s.t2_shutdown, MaxRetransmissions)
           t == [s EXCEPT !.t2_shutdown = new]
           a == Send(t, ToPeer(t, "ABORT"))
<1>1. new \in Timer
  BY TriggerType, LimitsAssumption DEF Good, Sane, Socket
<1> HIDE DEF new
<1>2. /\ t \in Socket /\ t.out = s.out /\ t.tcb = s.tcb /\ t.state = s.state
      /\ t.t1_init = s.t1_init /\ t.t1_cookie = s.t1_cookie
      /\ t.t2_shutdown = new /\ t.connect_tag = s.connect_tag
      /\ t.lapsed = s.lapsed
  BY <1>1 DEF Good, Sane, Socket
<1>3. OnShutdownTimerExpiry(s)
        = IF new # Off THEN Send(t, ToPeer(t, "SHUTDOWN"))
          ELSE InternalClose(a, "OnAborted")
  BY <1>2 DEF OnShutdownTimerExpiry, SendShutdown, SendAbort, new
<1> HIDE DEF t
<1>4. Sane(t) /\ t.state # "Closed" /\ Calm(s, t)
  BY <1>2 DEF Good, Sane, Armed, HasTcb, HasCookieEchoChunk, Calm
<1>5. Sane(a) /\ a.state # "Closed" /\ Calm(s, a)
  <2>1. Sane(a) /\ a.state # "Closed"
    BY <1>4, ToPeerPacket, SendKeeps, Zenon DEF ChunkType, Same
  <2>2. Calm(t, a)
    BY <1>4, ToPeerCalm DEF ChunkType
  <2>3. QED
    BY <1>4, <2>1, <2>2, CalmTrans
<1> HIDE DEF a
<1>6. CASE new # Off
  <2>1. Good(t)
    BY <1>2, <1>4, <1>6 DEF Good, Armed, HasTcb, HasCookieEchoChunk
  <2>2. /\ ToPeer(t, "SHUTDOWN") \in GoodPacket
        /\ Calm(t, Send(t, ToPeer(t, "SHUTDOWN")))
    BY <1>4, ToPeerPacket, ToPeerCalm DEF ChunkType
  <2>3. QED
    BY <1>3, <1>4, <1>6, <2>1, <2>2, SendGood, CalmTrans
<1>7. CASE new = Off
  BY <1>3, <1>5, <1>7, InternalCloseKeeps, CalmTrans
<1>8. QED
  BY <1>6, <1>7

LEMMA OnRtxTimerExpiryKeeps ==
  ASSUME NEW s, Good(s), s.tcb.t3_rtx
  PROVE  Good(OnRtxTimerExpiry(s)) /\ Calm(s, OnRtxTimerExpiry(s))
<1> DEFINE tcb == [s.tcb EXCEPT !.tx_errors = Increment(@)]
           nacked == [tcb EXCEPT
                        !.to_be_retransmitted = @ \cup tcb.inflight \cup tcb.nacked,
                        !.inflight = {}, !.nacked = {}, !.cwnd = 1]
           a == Send(s, ToPeer(s, "ABORT"))
           t == [s EXCEPT !.tcb = nacked]
           b == SendBufferedPackets(t, "None")
<1>1. /\ s \in Socket /\ s.tcb \in Tcb /\ s.out \in SUBSET GoodPacket
      /\ s.send_queue \in SUBSET Message
  BY DEF Good, Sane, Socket
<1>2. tcb \in Tcb /\ tcb.my_tag = s.tcb.my_tag
                  /\ tcb.cookie_echo = s.tcb.cookie_echo
                  /\ tcb.peer_tag = s.tcb.peer_tag
  BY <1>1 DEF Tcb, Increment
<1> HIDE DEF tcb
<1>3. nacked \in Tcb /\ nacked.my_tag = s.tcb.my_tag
                     /\ nacked.cookie_echo = s.tcb.cookie_echo
                     /\ nacked.peer_tag = s.tcb.peer_tag
  BY <1>2, Zenon DEF Tcb
<1> HIDE DEF nacked
<1>4. t = With(s, s.out, s.send_queue, nacked)
  BY <1>1, Zenon DEF Socket, With
<1> HIDE DEF t
<1>5. Sane(t) /\ Same(s, t) /\ t.out = s.out
  BY <1>1, <1>3, <1>4, TcbUpdate DEF Good
<1>6. Good(t) /\ Calm(s, t)
  BY <1>5, SameGood, SameCalm
<1>7. Good(b) /\ Calm(s, b)
  <2>1. Sane(b) /\ Same(t, b) /\ Calm(t, b)
    BY <1>5, SendBufferedPacketsKeeps
  <2>2. QED
    BY <1>6, <2>1, SameGood, CalmTrans
<1>8. Good(a) /\ Calm(s, a)
  BY ToPeerPacket, ToPeerCalm, SendGood DEF ChunkType, Good
<1> HIDE DEF a
<1>9. Good(InternalClose(a, "OnAborted")) /\ Calm(s, InternalClose(a, "OnAborted"))
  BY <1>8, InternalCloseKeeps, CalmTrans DEF Good
<1>10. OnRtxTimerExpiry(s)
         = IF HasCookieEchoChunk(s) THEN s
           ELSE IF IsExhausted(tcb.tx_errors) THEN InternalClose(a, "OnAborted")
           ELSE b
  BY Zenon DEF OnRtxTimerExpiry, SendAbort, tcb, nacked, a, t
<1> HIDE DEF b
<1>11. QED
  BY <1>7, <1>9, <1>10, CalmSelf
-----------------------------------------------------------------------------
(* The association: how the tags of the two sockets and of the packets       *)
(* between them hang together while neither has been closed.                *)

(* What s's own members say about its handshake.                            *)
Mine(s) ==
  /\ s.state = "Closed" => s.connect_tag = 0
  /\ s.state = "CookieEchoed" =>
       /\ s.tcb.my_tag = s.connect_tag
       /\ s.tcb.cookie_echo = [peer_tag |-> s.connect_tag,
                               my_tag |-> s.tcb.peer_tag, tie_tag |-> 0]
  /\ HasCookieEchoChunk(s) => s.state = "CookieEchoed"

(* What a packet k from o to s says about both.  A COOKIE ECHO carries the   *)
(* tags of its sender's TCB, or those of the one its sender had before a     *)
(* simultaneous connect gave both the tags of their own Connect().           *)
From(o, s, k) ==
  /\ k.type = "INIT" => k.itag = o.connect_tag /\ o.connect_tag # 0
  /\ k.type = "INIT_ACK" =>
       /\ k.cookie.peer_tag = s.connect_tag /\ s.connect_tag # 0
       /\ k.cookie.my_tag = k.itag
       /\ s.state = "CookieWait" => k.cookie.tie_tag = 0
  /\ k.type = "COOKIE_ECHO" =>
       /\ k.cookie = [peer_tag |-> o.connect_tag, my_tag |-> k.tag, tie_tag |-> 0]
       /\ HasTcb(o) /\ o.tcb.my_tag = o.connect_tag
       /\ \/ o.tcb.peer_tag = k.tag
          \/ /\ HasTcb(s) /\ s.tcb.my_tag = s.connect_tag
             /\ s.tcb.peer_tag = o.connect_tag /\ o.tcb.peer_tag = s.connect_tag
  /\ k.type = "COOKIE_ACK" => Opened(o)

Agree(s, o) == s.tcb.my_tag = o.tcb.peer_tag /\ o.tcb.my_tag = s.tcb.peer_tag

(* Both wait for a COOKIE ACK; s has the tag of o's Connect(), o one that s  *)
(* drew before its own.                                                     *)
Crossed(s, o) ==
  /\ s.state = "CookieEchoed" /\ o.state = "CookieEchoed"
  /\ s.tcb.peer_tag = o.connect_tag /\ o.tcb.peer_tag # s.connect_tag

Pair(s, o) ==
  /\ HasTcb(s) /\ HasTcb(o) => Agree(s, o) \/ Crossed(s, o) \/ Crossed(o, s)
  /\ ~HasTcb(s) => ~Opened(o)
  /\ ~HasTcb(o) => ~Opened(s)

(* o is offered, or holds, a tag that s drew for an INIT ACK while closed.   *)
Drawn(s, o, out) ==
  \/ /\ o.state = "CookieWait"
     /\ \E k \in out : k.type = "INIT_ACK" /\ k.itag # s.connect_tag
  \/ HasTcb(o) /\ o.tcb.my_tag = o.connect_tag /\ o.tcb.peer_tag # s.connect_tag

(* in and out are the packets on their way to s and to o.                    *)
Bound(s, o, in, out) ==
  /\ Mine(s) /\ Mine(o)
  /\ \A k \in in : From(o, s, k)
  /\ \A k \in out : From(s, o, k)
  /\ Pair(s, o)
  /\ ~(Drawn(s, o, out) /\ Drawn(o, s, in))

Linked(s, o, in, out) == s.lapsed \/ o.lapsed \/ Bound(s, o, in, out)

Associated ==
  /\ \A p \in Peers : sock[p].out = {}
  /\ \A p \in Peers : Linked(sock[p], sock[Other(p)], net[p], net[Other(p)])

LEMMA LinkedSym ==
  ASSUME NEW s, NEW o, NEW in, NEW out, Linked(s, o, in, out)
  PROVE  Linked(o, s, out, in)
<1>1. Pair(s, o) => Pair(o, s)
  BY DEF Pair, Agree, Crossed
<1>2. QED
  BY <1>1 DEF Linked, Bound

LEMMA LinkedLess ==
  ASSUME NEW s, NEW o, NEW in, NEW out, Linked(s, o, in, out),
         NEW fewer \in SUBSET in, NEW rest \in SUBSET out
  PROVE  Linked(s, o, fewer, rest)
<1>1. /\ Drawn(s, o, rest) => Drawn(s, o, out)
      /\ Drawn(o, s, fewer) => Drawn(o, s, in)
  BY DEF Drawn
<1>2. QED
  BY <1>1 DEF Linked, Bound

LEMMA CalmLinked ==
  ASSUME NEW s, NEW t, NEW o, NEW in, NEW out,
         Good(t), Calm(s, t), Linked(s, o, in, out \cup s.out)
  PROVE  Linked(t, o, in, out \cup t.out)
<1> SUFFICES ASSUME ~t.lapsed, ~o.lapsed
             PROVE  Bound(t, o, in, out \cup t.out)
  BY DEF Linked
<1>1. /\ t.connect_tag = s.connect_tag
      /\ t.tcb.my_tag = s.tcb.my_tag /\ t.tcb.peer_tag = s.tcb.peer_tag
      /\ t.tcb.cookie_echo = s.tcb.cookie_echo
      /\ t.state = s.state \/ (Opened(s) /\ Opened(t))
      /\ \A k \in t.out : k \in s.out \/ Ordinary(t, k)
      /\ ~s.lapsed
  BY DEF Calm
<1>2. Bound(s, o, in, out \cup s.out)
  BY <1>1 DEF Linked
<1>3. Mine(t) /\ Mine(o)
  BY <1>1, <1>2, SMTT(20) DEF Bound, Mine, HasCookieEchoChunk, Opened
<1>4. \A k \in in : From(o, t, k)
  BY <1>1, <1>2, Zenon DEF Bound, From, HasTcb, Opened
<1>5. \A k : From(s, o, k) => From(t, o, k)
  BY <1>1, Zenon DEF From, HasTcb, Opened
<1>6. \A k : Ordinary(t, k) => From(t, o, k)
  <2> SUFFICES ASSUME NEW k, Ordinary(t, k), k.type = "COOKIE_ECHO"
               PROVE  From(t, o, k)
    BY SMTT(20) DEF Ordinary, From
  <2>1. t.state = "CookieEchoed"
    BY <1>3, Zenon DEF Ordinary, Mine
  <2>2. t.tcb.my_tag = t.connect_tag /\ HasTcb(t)
    BY <1>3, <2>1, Zenon DEF Mine, Good, Armed
  <2>3. QED
    BY <1>3, <2>1, <2>2, Zenon DEF Ordinary, Mine, From
<1>7. \A k \in out \cup t.out : From(t, o, k)
  BY <1>1, <1>2, <1>5, <1>6, SMTT(20) DEF Bound
<1>8. Pair(t, o)
  <2>1. Pair(s, o)
    BY <1>2, Zenon DEF Bound
  <2>2. QED
    BY <1>1, <2>1, SMTT(20) DEF Pair, HasTcb, Agree, Crossed, Opened
<1>9. Drawn(o, t, in) => Drawn(o, s, in)
  BY <1>1, Zenon DEF Drawn, HasTcb, Opened
<1>10. Drawn(t, o, out \cup t.out) => Drawn(s, o, out \cup s.out)
  BY <1>1 DEF Drawn, Ordinary
<1>11. QED
  BY <1>2, <1>3, <1>4, <1>7, <1>8, <1>9, <1>10, Zenon DEF Bound

(* Connect(): the tag is new, and no packet can have referred to it.         *)
Dials(s, c) ==
  /\ s.state = "Closed" /\ c.state = "CookieWait" /\ c.connect_tag # 0
  /\ c.tcb = s.tcb /\ c.lapsed = s.lapsed /\ c.out = s.out

LEMMA DialLinked ==
  ASSUME NEW s, NEW o, NEW c, NEW in, NEW out,
         Good(s), Dials(s, c), Linked(s, o, in, out)
  PROVE  Linked(c, o, in, out)
<1> SUFFICES ASSUME ~c.lapsed, ~o.lapsed PROVE Bound(c, o, in, out)
  BY DEF Linked
<1>1. Bound(s, o, in, out)
  BY Zenon DEF Linked, Dials
<1>2. s.connect_tag = 0 /\ ~HasTcb(s) /\ ~HasTcb(c) /\ ~HasCookieEchoChunk(c)
  BY <1>1, Zenon DEF Bound, Mine, Good, Armed, Dials, HasTcb, HasCookieEchoChunk
<1>3. Mine(c) /\ Mine(o)
  BY <1>1, <1>2, SMTT(20) DEF Bound, Mine, Dials
<1>4. \A k \in in : From(o, c, k) /\ k.type # "INIT_ACK"
  <2>1. \A k \in in : From(o, s, k)
    BY <1>1, Zenon DEF Bound
  <2>2. QED
    BY <1>2, <2>1, SMTT(20) DEF From
<1>5. \A k \in out : From(c, o, k)
  BY <1>1, <1>2, Zenon DEF Bound, From, Dials, Opened
<1>6. Pair(c, o)
  BY <1>1, <1>2, Zenon DEF Bound, Pair, Dials, Opened
<1>7. ~Drawn(o, c, in)
  BY <1>2, <1>4 DEF Drawn
<1>8. QED
  BY <1>3, <1>4, <1>5, <1>6, <1>7 DEF Bound

(* An INIT ACK: only a closed socket draws a tag for it that its peer, still *)
(* waiting, may take, and then its peer has not taken one of its own.        *)
LEMMA AnswerLinked ==
  ASSUME NEW s, NEW o, NEW k, NEW in, NEW out, NEW pkt \in in,
         Good(s), Good(o), pkt.type = "INIT", Answers(s, pkt, k),
         Linked(s, o, in, out)
  PROVE  Linked(s, o, in, out \cup {k})
<1> SUFFICES ASSUME ~s.lapsed, ~o.lapsed PROVE Bound(s, o, in, out \cup {k})
  BY DEF Linked
<1>1. Bound(s, o, in, out)
  BY DEF Linked
<1>2. pkt.itag = o.connect_tag /\ o.connect_tag # 0
  BY <1>1, Zenon DEF Bound, From
<1>3. o.state = "CookieWait" => ~Opened(s)
  BY <1>1, Zenon DEF Bound, Pair, Good, Armed
<1>4. From(s, o, k)
  BY <1>2, <1>3, Zenon DEF From, Answers
<1>5. ASSUME Drawn(s, o, out \cup {k}), ~Drawn(s, o, out)
      PROVE  ~Drawn(o, s, in)
  <2>1. o.state = "CookieWait" /\ k.itag # s.connect_tag
    BY <1>5 DEF Drawn
  <2>2. s.state = "Closed"
    BY <1>3, <2>1 DEF Answers, Opened
  <2>3. QED
    BY <2>2 DEF Drawn, Good, Armed
<1>6. QED
  BY <1>1, <1>4, <1>5 DEF Bound

(* An INIT ACK accepted.                                                     *)
LEMMA EchoLinked ==
  ASSUME NEW s, NEW o, NEW e, NEW in, NEW out, NEW pkt \in in,
         Good(s), Good(o), pkt \in GoodPacket, pkt.type = "INIT_ACK",
         Echoes(s, pkt, e),
         Linked(s, o, in, out)
  PROVE  Linked(e, o, in, out)
<1> SUFFICES ASSUME ~e.lapsed, ~o.lapsed PROVE Bound(e, o, in, out)
  BY DEF Linked
<1>1. Bound(s, o, in, out)
  BY SMTT(20) DEF Linked, Echoes
<1>2. /\ s.state = "CookieWait" /\ ~HasTcb(s) /\ HasTcb(e) /\ ~Opened(o)
      /\ s.connect_tag # 0
  BY <1>1, SMTT(20) DEF Bound, Pair, Good, Armed, Echoes, HasTcb
<1>3. /\ pkt.cookie.peer_tag = s.connect_tag /\ pkt.cookie.my_tag = pkt.itag
      /\ pkt.cookie.tie_tag = 0
  BY <1>1, <1>2, Zenon DEF Bound, From
<1>4. Mine(e) /\ Mine(o)
  <2>1. pkt.cookie = [peer_tag |-> s.connect_tag, my_tag |-> pkt.itag, tie_tag |-> 0]
    BY <1>3, Zenon DEF GoodPacket, Packet, Cookie
  <2>2. e.tcb.cookie_echo = [peer_tag |-> e.connect_tag, my_tag |-> e.tcb.peer_tag,
                             tie_tag |-> 0]
    BY <2>1 DEF Echoes
  <2>3. QED
    BY <1>1, <2>2, Zenon DEF Bound, Mine, Echoes
<1>5. \A k \in in : From(o, e, k)
  <2>1. \A k \in in : From(o, s, k)
    BY <1>1, Zenon DEF Bound
  <2>2. QED
    BY <1>2, <2>1, SMTT(20) DEF From, Echoes
<1>6. \A k \in out : From(e, o, k)
  BY <1>1, <1>2, Zenon DEF Bound, From, Echoes, Opened
<1>7. /\ Drawn(o, e, in) => Drawn(o, s, in)
      /\ Drawn(e, o, out) => Drawn(s, o, out)
  BY <1>2 DEF Drawn, Echoes
<1>8. Pair(e, o)
  <2>1. CASE ~HasTcb(o)
    BY <1>2, <2>1 DEF Pair, Opened, Echoes
  <2>2. CASE HasTcb(o)
    <3>1. o.state = "CookieEchoed" /\ o.tcb.my_tag = o.connect_tag
      BY <1>1, <1>2, <2>2, Zenon DEF Bound, Mine, Opened, Good, Armed
    <3>2. pkt.itag = o.connect_tag \/ o.tcb.peer_tag = s.connect_tag
      BY <1>1, <1>2, <2>2, <3>1, Zenon DEF Bound, Drawn
    <3>3. Agree(e, o) \/ Crossed(e, o) \/ Crossed(o, e)
      BY <3>1, <3>2, Zenon DEF Agree, Crossed, Echoes
    <3>4. QED
      BY <1>2, <2>2, <3>3, Zenon DEF Pair
  <2>3. QED
    BY <2>1, <2>2, Zenon
<1>9. QED
  BY <1>1, <1>4, <1>5, <1>6, <1>7, <1>8 DEF Bound

(* A COOKIE ECHO accepted: a socket without a TCB takes the tags of its      *)
(* sender; of two that agree the TCB stays; of two that have crossed, the   *)
(* one that holds a tag drawn before Connect() takes the other's.           *)
LEMMA AcceptLinked ==
  ASSUME NEW s, NEW o, NEW c, NEW in, NEW out, NEW pkt \in in,
         Good(s), Good(o), pkt.type = "COOKIE_ECHO", pkt.cookie.my_tag # 0,
         Accepts(s, pkt, c), Linked(s, o, in, out)
  PROVE  Linked(c, o, in, out)
<1> SUFFICES ASSUME ~c.lapsed, ~o.lapsed PROVE Bound(c, o, in, out)
  BY DEF Linked
<1>1. Bound(s, o, in, out)
  BY Zenon DEF Linked, Accepts
<1>2. /\ pkt.cookie.peer_tag = o.connect_tag /\ pkt.cookie.my_tag = pkt.tag
      /\ pkt.cookie.tie_tag = 0 /\ HasTcb(o) /\ o.tcb.my_tag = o.connect_tag
      /\ \/ o.tcb.peer_tag = pkt.tag
         \/ /\ HasTcb(s) /\ s.tcb.my_tag = s.connect_tag
            /\ s.tcb.peer_tag = o.connect_tag /\ o.tcb.peer_tag = s.connect_tag
  <2>1. From(o, s, pkt)
    BY <1>1, Zenon DEF Bound
  <2>2. QED
    BY <2>1 DEF From
<1>3. /\ c.state = "Established" /\ Opened(c) /\ c.connect_tag = s.connect_tag
      /\ HasTcb(s) => ~LateCookieEcho(s.tcb, pkt)
      /\ Continues(s, pkt, c) \/ Renews(s, pkt, c)
  BY Zenon DEF Accepts, Opened
<1>4. HasTcb(s) => Agree(s, o) \/ Crossed(s, o) \/ Crossed(o, s)
  BY <1>1, <1>2 DEF Bound, Pair
<1>5. Crossed(s, o) \/ Crossed(o, s) => s.tcb.my_tag = s.connect_tag /\ HasTcb(s)
  BY <1>1, Zenon DEF Bound, Mine, Crossed, Good, Armed
<1>6. HasTcb(s) => ~Crossed(s, o)
  BY <1>2, <1>3, <1>5, Zenon DEF Crossed, LateCookieEcho
<1>7. CASE Continues(s, pkt, c)
  <2>1. /\ c.tcb.my_tag = s.tcb.my_tag /\ c.tcb.peer_tag = s.tcb.peer_tag
        /\ HasTcb(s) /\ HasTcb(c) /\ ~SimultaneousConnect(s.tcb, pkt)
    BY <1>7, Zenon DEF Continues, HasTcb
  <2>2. ~Crossed(o, s)
    BY <1>2, <1>5, <2>1, Zenon DEF Crossed, SimultaneousConnect
  <2>3. Agree(c, o)
    BY <1>4, <1>6, <2>1, <2>2 DEF Agree
  <2>4. c.tcb.cookie_echo = NoCookie
    <3>1. Mine(s)
      BY <1>1, Zenon DEF Bound
    <3>2. QED
      BY <1>7, <3>1, SMTT(20) DEF Continues, Mine, HasCookieEchoChunk
  <2>5. Mine(c) /\ Mine(o)
    <3>1. Mine(s) /\ Mine(o)
      BY <1>1, Zenon DEF Bound
    <3>2. QED
      BY <1>3, <2>4, <3>1, SMTT(20) DEF Mine, HasCookieEchoChunk
  <2>6. \A k \in in : From(o, c, k)
    BY <1>1, <1>3, <2>1, Zenon DEF Bound, From
  <2>7. \A k \in out : From(c, o, k)
    BY <1>1, <1>3, <2>1, Zenon DEF Bound, From
  <2>8. Pair(c, o)
    BY <1>2, <2>1, <2>3, Zenon DEF Pair
  <2>9. /\ Drawn(o, c, in) => Drawn(o, s, in)
        /\ Drawn(c, o, out) => Drawn(s, o, out)
    BY <1>3, <2>1, Zenon DEF Drawn
  <2>10. QED
    BY <1>1, <2>5, <2>6, <2>7, <2>8, <2>9, Zenon DEF Bound
<1>8. CASE Renews(s, pkt, c)
  <2>1. /\ c.tcb.my_tag = pkt.tag /\ c.tcb.peer_tag = o.connect_tag
        /\ c.tcb.cookie_echo = NoCookie /\ HasTcb(c)
    BY <1>2, <1>8, Zenon DEF Renews, HasTcb
  <2>2. ~Agree(s, o) \/ ~HasTcb(s)
    BY <1>2, <1>8, Zenon DEF Renews, Agree, PeerRestarted, SimultaneousConnect
  <2>3. HasTcb(s) => /\ Crossed(o, s) /\ s.tcb.my_tag = s.connect_tag
                     /\ s.tcb.peer_tag # o.connect_tag
                     /\ o.tcb.peer_tag = s.connect_tag
    BY <1>4, <1>5, <1>6, <2>2, Zenon DEF Crossed
  <2>4. o.tcb.peer_tag = pkt.tag
    BY <1>2, <2>3
  <2>5. Agree(c, o)
    BY <1>2, <2>1, <2>4, SMTT(20) DEF Agree
  <2>6. Mine(c) /\ Mine(o)
    BY <1>1, <1>3, <2>1, Zenon DEF Bound, Mine, HasCookieEchoChunk
  <2>7. \A k \in in : From(o, c, k)
    BY <1>1, <1>3, <2>3, Zenon DEF Bound, From
  <2>8. \A k \in out : From(c, o, k)
    <3> SUFFICES ASSUME NEW k \in out PROVE From(c, o, k)
      OBVIOUS
    <3>1. From(s, o, k)
      BY <1>1, SMTT(20) DEF Bound
    <3>2. CASE k.type # "COOKIE_ECHO"
      BY <1>3, <3>1, <3>2, Zenon DEF From
    <3>3. CASE k.type = "COOKIE_ECHO"
      <4>1. HasTcb(s)
        BY <3>1, <3>3, Zenon DEF From
      <4>2. /\ pkt.tag = s.connect_tag /\ o.tcb.peer_tag = s.connect_tag
            /\ k.cookie = [peer_tag |-> s.connect_tag, my_tag |-> k.tag,
                            tie_tag |-> 0]
        BY <2>3, <2>4, <3>1, <3>3, <4>1, Zenon DEF From
      <4>3. QED
        BY <1>2, <1>3, <2>1, <3>3, <4>2, Zenon DEF From
    <3>4. QED
      BY <3>2, <3>3
  <2>9. Pair(c, o)
    BY <1>2, <2>1, <2>5, Zenon DEF Pair
  <2>10. ~Drawn(o, c, in)
    BY <1>3, <2>1 DEF Drawn
  <2>11. QED
    BY <2>6, <2>7, <2>8, <2>9, <2>10, Zenon DEF Bound
<1>9. QED
  BY <1>3, <1>7, <1>8

(* A COOKIE ACK: its sender is established, so the two agree.                *)
LEMMA CompleteLinked ==
  ASSUME NEW s, NEW o, NEW c, NEW in, NEW out, NEW pkt \in in,
         Good(s), Good(o), pkt.type = "COOKIE_ACK", Completes(s, c),
         Linked(s, o, in, out)
  PROVE  Linked(c, o, in, out)
<1> SUFFICES ASSUME ~c.lapsed, ~o.lapsed PROVE Bound(c, o, in, out)
  BY DEF Linked
<1>1. Bound(s, o, in, out)
  BY DEF Linked, Completes
<1>2. /\ s.state = "CookieEchoed" /\ c.state = "Established"
      /\ c.connect_tag = s.connect_tag /\ c.tcb.my_tag = s.tcb.my_tag
      /\ c.tcb.peer_tag = s.tcb.peer_tag /\ c.tcb.cookie_echo = NoCookie
  BY Zenon DEF Completes
<1>3. Opened(o)
  <2>1. From(o, s, pkt)
    BY <1>1, Zenon DEF Bound
  <2>2. QED
    BY <2>1 DEF From
<1>4. HasTcb(o) /\ HasTcb(s) /\ HasTcb(c)
  BY <1>2, <1>3, Zenon DEF Opened, Good, Armed, HasTcb
<1>5. Agree(c, o)
  BY <1>1, <1>2, <1>3, <1>4 DEF Bound, Pair, Crossed, Opened, Agree
<1>6. Mine(c) /\ Mine(o)
  BY <1>1, <1>2, SMTT(20) DEF Bound, Mine, HasCookieEchoChunk
<1>7. \A k \in in : From(o, c, k)
  BY <1>1, <1>2, <1>4, Zenon DEF Bound, From
<1>8. \A k \in out : From(c, o, k)
  BY <1>1, <1>2, <1>4, Zenon DEF Bound, From, Opened
<1>9. Pair(c, o)
  BY <1>4, <1>5, Zenon DEF Pair
<1>10. /\ Drawn(o, c, in) => Drawn(o, s, in)
       /\ Drawn(c, o, out) => Drawn(s, o, out)
  BY <1>2, <1>4 DEF Drawn
<1>11. QED
  BY <1>1, <1>6, <1>7, <1>8, <1>9, <1>10 DEF Bound

LEMMA SameLinked ==
  ASSUME NEW s, NEW t, NEW o, NEW in, NEW out, Linked(s, o, in, out),
         t.state = s.state, t.connect_tag = s.connect_tag, t.tcb = s.tcb,
         t.lapsed = s.lapsed
  PROVE  Linked(t, o, in, out)
<1>1. /\ Mine(s) => Mine(t)
      /\ Pair(s, o) => Pair(t, o)
  BY SMTT(20) DEF Mine, Pair, Agree, Crossed, HasTcb, HasCookieEchoChunk, Opened
<1>2. \A k : (From(o, s, k) => From(o, t, k)) /\ (From(s, o, k) => From(t, o, k))
  BY Zenon DEF From, HasTcb, Opened
<1>3. /\ Drawn(o, t, in) => Drawn(o, s, in)
      /\ Drawn(t, o, out) => Drawn(s, o, out)
  BY DEF Drawn, HasTcb
<1>4. QED
  BY <1>1, <1>2, <1>3, Zenon DEF Linked, Bound

LEMMA DispatchLinked ==
  ASSUME NEW s, NEW o, NEW in, NEW out, NEW pkt \in in, NEW fresh \in Tags,
         Good(s), Good(o), pkt \in GoodPacket, Linked(s, o, in, out \cup s.out)
  PROVE  Linked(Dispatch(s, pkt, fresh), o, in,
                out \cup Dispatch(s, pkt, fresh).out)
<1> DEFINE r == Dispatch(s, pkt, fresh)
<1>1. Good(r)
  BY DispatchKeeps
<1>2. CASE pkt.type = "INIT" /\ ~Calm(s, r)
  <2>1. r = HandleInit(s, pkt, fresh)
    BY <1>2, Zenon DEF Dispatch
  <2> HIDE DEF r
  <2>2. PICK k \in GoodPacket : r = Send(s, k) /\ Answers(s, pkt, k)
    BY <1>2, <2>1, HandleInitKeeps, Zenon
  <2>3. Linked(s, o, in, (out \cup s.out) \cup {k})
    BY <1>2, <2>2, AnswerLinked
  <2>4. /\ r.state = s.state /\ r.connect_tag = s.connect_tag /\ r.tcb = s.tcb
        /\ r.lapsed = s.lapsed /\ r.out = s.out \cup {k}
    BY <2>2, Zenon DEF Send, Good, Sane, Socket
  <2>5. out \cup r.out = (out \cup s.out) \cup {k}
    BY <2>4
  <2>6. Linked(r, o, in, (out \cup s.out) \cup {k})
    BY <2>3, <2>4, SameLinked, Zenon
  <2>7. QED
    BY <2>5, <2>6 DEF r
<1>3. CASE pkt.type = "INIT_ACK" /\ ~Calm(s, r)
  <2>1. r = HandleInitAck(s, pkt, fresh)
    BY <1>3 DEF Dispatch
  <2> HIDE DEF r
  <2>2. PICK e : Echoes(s, pkt, e) /\ Calm(e, r)
    BY <1>3, <2>1, HandleInitAckKeeps
  <2>3. Linked(e, o, in, out \cup s.out) /\ e.out = s.out
    BY <1>3, <2>2, EchoLinked DEF Echoes
  <2>4. QED
    BY <1>1, <2>2, <2>3, CalmLinked DEF r
<1>4. CASE pkt.type = "COOKIE_ECHO" /\ ~Calm(s, r)
  <2>1. r = HandleCookieEcho(s, pkt, fresh)
    BY <1>4, Zenon DEF Dispatch
  <2> HIDE DEF r
  <2>2. PICK c : Accepts(s, pkt, c) /\ Calm(c, r)
    BY <1>4, <2>1, HandleCookieEchoKeeps
  <2>3. pkt.cookie.my_tag # 0
    BY <1>4, Zenon DEF GoodPacket
  <2>4. Linked(c, o, in, out \cup s.out) /\ c.out = s.out
    BY <1>4, <2>2, <2>3, AcceptLinked, Zenon DEF Accepts
  <2>5. QED
    BY <1>1, <2>2, <2>4, CalmLinked DEF r
<1>5. CASE pkt.type = "COOKIE_ACK" /\ ~Calm(s, r)
  <2>1. r = HandleCookieAck(s)
    BY <1>5 DEF Dispatch
  <2> HIDE DEF r
  <2>2. PICK c : Completes(s, c) /\ Calm(c, r)
    BY <1>5, <2>1, HandleCookieAckKeeps, Zenon
  <2>3. Linked(c, o, in, out \cup s.out) /\ c.out = s.out
    BY <1>5, <2>2, CompleteLinked, Zenon DEF Completes
  <2>4. QED
    BY <1>1, <2>2, <2>3, CalmLinked DEF r
<1>6. CASE pkt.type \notin {"INIT", "INIT_ACK", "COOKIE_ECHO", "COOKIE_ACK"}
  <2>1. r \in {HandleShutdown(s), HandleShutdownAck(s, pkt),
               HandleShutdownComplete(s), HandleAbort(s), s}
    BY <1>6 DEF Dispatch
  <2> HIDE DEF r
  <2>2. Calm(s, r)
    BY <2>1, HandleShutdownKeeps, HandleShutdownAckKeeps, HandleAbortKeeps,
       HandleShutdownCompleteKeeps, CalmSelf
  <2>3. QED
    BY <1>1, <2>2, CalmLinked DEF r
<1>7. CASE Calm(s, r)
  <2> HIDE DEF r
  <2>1. QED
    BY <1>1, <1>7, CalmLinked DEF r
<1>8. QED
  BY <1>2, <1>3, <1>4, <1>5, <1>6, <1>7, Zenon

LEMMA ReceivePacketLinked ==
  ASSUME NEW s, NEW o, NEW in, NEW out, NEW pkt \in in, NEW fresh \in Tags,
         NEW immediate \in BOOLEAN,
         Good(s), Good(o), pkt \in GoodPacket, Linked(s, o, in, out \cup s.out)
  PROVE  LET r == ReceivePacket(s, pkt, fresh, immediate)
         IN  Linked(r, o, in, out \cup r.out)
<1> DEFINE again == MaybeSendShutdownOnPacketReceived(s, pkt)
           ctl == Dispatch(again, pkt, fresh)
           ack == IF pkt.sack = NoSack THEN ctl ELSE HandleSack(ctl, pkt.sack)
           got == IF pkt.data = NoData THEN ack ELSE HandleData(ack, pkt.data)
           due == /\ HasTcb(got) /\ got.tcb.ack_due
                  /\ pkt.data.stream = got.tcb.peer_tag
           r == ReceivePacket(s, pkt, fresh, immediate)
<1>1. pkt.sack \in Sack /\ pkt.data \in Data \cup {NoData}
  BY DEF GoodPacket, Packet
<1>2. Good(again) /\ Linked(again, o, in, out \cup again.out)
  <2>1. Good(again) /\ Calm(s, again)
    BY ReshutdownKeeps, SMTT(20)
  <2> HIDE DEF again
  <2>2. QED
    BY <2>1, CalmLinked
<1> HIDE DEF again
<1>3. Good(ctl) /\ Linked(ctl, o, in, out \cup ctl.out)
  BY <1>2, DispatchKeeps, DispatchLinked, Zenon
<1> HIDE DEF ctl
<1>4. Good(ack) /\ Calm(ctl, ack)
  BY <1>1, <1>3, HandleSackKeeps, CalmSelf, Zenon
<1> HIDE DEF ack
<1>5. Good(got) /\ Calm(ack, got)
  BY <1>1, <1>4, HandleDataKeeps, CalmSelf
<1> HIDE DEF got
<1>6. Calm(got, SendSack(got))
  BY <1>5, SendSackKeeps DEF Good
<1>7. r = IF ~ValidatePacket(s, pkt) THEN s
          ELSE IF due /\ immediate THEN SendSack(got) ELSE got
  BY Zenon DEF ReceivePacket, got, ack, ctl, again
<1> HIDE DEF due
<1>8. r = s \/ Calm(ctl, r)
  BY <1>4, <1>5, <1>6, <1>7, CalmTrans
<1>9. Good(r)
  BY ReceivePacketKeeps
<1> HIDE DEF r
<1>10. QED
  BY <1>3, <1>8, <1>9, CalmLinked, SMTT(20) DEF r

-----------------------------------------------------------------------------
(* Actions.                                                                 *)
LEMMA InitIInv == Init => IInv
<1> SUFFICES ASSUME Init PROVE IInv
  OBVIOUS
<1>1. NewSocket \in Socket
  BY NoThings DEF NewSocket, Socket, State, Timer
<1>2. Good(NewSocket)
  <2>1. /\ NewSocket.out = {} /\ NewSocket.tcb = NoTcb
        /\ NewSocket.state = "Closed" /\ NewSocket.t1_init = Off
        /\ NewSocket.t1_cookie = Off /\ NewSocket.t2_shutdown = Off
    BY DEF NewSocket
  <2>2. NoTcb.my_tag = 0 /\ NoTcb.cookie_echo = NoCookie
    BY DEF NoTcb
  <2>3. QED
    BY <1>1, <2>1, <2>2 DEF Good, Sane, Armed, HasTcb, HasCookieEchoChunk
<1>3. QED
  BY <1>1, <1>2, BudgetsAssumption DEF Init, IInv, TypeOK

(* What is taken from a budget leaves a budget, with its restarts.          *)
LEMMA Spent ==
  ASSUME NEW b \in Budget
  PROVE  /\ [b EXCEPT !.loss = @ - 1] \in Budget
         /\ [b EXCEPT !.dup = @ - 1] \in Budget
         /\ [b EXCEPT !.restart = @ - 1] \in Budget
         /\ [b EXCEPT !.shutdown = @ - 1] \in Budget
         /\ [b EXCEPT !.close = @ - 1] \in Budget
         /\ \A p \in Peers : [b EXCEPT !.connect[p] = @ - 1] \in Budget
BY DEF Budget

LEMMA BecomeKeeps ==
  ASSUME IInv, NEW p \in Peers, NEW s, Good(s), NEW rest \in SUBSET GoodPacket,
         Become(p, s, rest),
         budget' \in Budget
  PROVE  IInv'
<1> DEFINE t == [s EXCEPT !.out = {}]
<1>1. /\ t \in Socket /\ t.out = {} /\ t.tcb = s.tcb /\ t.state = s.state
      /\ t.t1_init = s.t1_init /\ t.t1_cookie = s.t1_cookie
      /\ t.t2_shutdown = s.t2_shutdown /\ t.connect_tag = s.connect_tag
      /\ t.lapsed = s.lapsed
  BY DEF Good, Sane, Socket
<1>2. sock' = [sock EXCEPT ![p] = t]
  BY DEF Become
<1> HIDE DEF t
<1>3. Sane(t) /\ Same(s, t)
  BY <1>1 DEF Good, Sane, Same, HasCookieEchoChunk
<1>4. Good(t)
  BY <1>3, SameGood
<1>5. GoodPacket \subseteq Packet
  BY DEF GoodPacket
<1>6. s.out \subseteq GoodPacket
  BY DEF Good, Sane
<1>7. \A q \in Peers : net'[q] \subseteq GoodPacket
  BY <1>6 DEF Become, IInv
<1>8. net' \in [Peers -> SUBSET Packet]
  BY <1>5, <1>6 DEF Become, IInv
<1>9. sock' \in [Peers -> Socket]
  BY <1>1, <1>2 DEF IInv, TypeOK
<1>10. \A q \in Peers : Good(sock'[q])
  <2> SUFFICES ASSUME NEW q \in Peers PROVE Good(sock'[q])
    OBVIOUS
  <2>1. CASE q = p
    BY <1>2, <1>4, <2>1 DEF IInv, TypeOK
  <2>2. CASE q # p
    <3>1. sock'[q] = sock[q]
      BY <1>2, <2>2 DEF IInv, TypeOK
    <3>2. QED
      BY <3>1 DEF IInv
  <2>3. QED
    BY <2>1, <2>2
<1>11. QED
  BY <1>7, <1>8, <1>9, <1>10 DEF IInv, TypeOK

LEMMA OtherIs ==
  ASSUME NEW p \in Peers
  PROVE  /\ Other(p) \in Peers /\ Other(p) # p /\ Other(Other(p)) = p
         /\ \A q \in Peers : q = p \/ q = Other(p)
<1>1. PICK a, b \in Peers : a # b /\ Peers = {a, b}
  BY PeersAssumption
<1>2. \A q \in Peers : Other(q) \in Peers /\ Other(q) # q
  <2> TAKE q \in Peers
  <2>1. \E o \in Peers : o # q
    BY <1>1
  <2>2. QED
    BY <2>1, Zenon DEF Other
<1>3. QED
  BY <1>1, <1>2

LEMMA BecomeLinks ==
  ASSUME IInv, Associated, NEW p \in Peers, NEW s, Good(s),
         NEW rest \in SUBSET net[p], Become(p, s, rest),
         Linked(s, sock[Other(p)], net[p], net[Other(p)] \cup s.out)
  PROVE  Associated'
<1> DEFINE t == [s EXCEPT !.out = {}]
           q == Other(p)
<1>1. /\ t.out = {} /\ t.tcb = s.tcb /\ t.state = s.state
      /\ t.connect_tag = s.connect_tag /\ t.lapsed = s.lapsed
  BY Zenon DEF Good, Sane, Socket
<1>2. sock' = [sock EXCEPT ![p] = t]
  BY DEF Become
<1> HIDE DEF t
<1>3. q \in Peers /\ q # p /\ Other(q) = p /\ \A j \in Peers : j = p \/ j = q
  BY OtherIs
<1>4. Linked(t, sock[q], rest, net[q] \cup s.out)
  <2>1. Linked(t, sock[q], net[p], net[q] \cup s.out)
    BY <1>1, SameLinked
  <2>2. QED
    BY <2>1, LinkedLess, Zenon
<1>5. Linked(sock[q], t, net[q] \cup s.out, rest)
  BY <1>4, LinkedSym
<1> HIDE DEF q
<1>6. /\ sock'[p] = t /\ sock'[q] = sock[q]
      /\ net'[p] = rest /\ net'[q] = net[q] \cup s.out
  BY <1>2, <1>3 DEF Become, IInv, TypeOK
<1>7. \A j \in Peers : sock'[j].out = {}
  BY <1>1, <1>3, <1>6 DEF Associated
<1>8. /\ Linked(sock'[p], sock'[q], net'[p], net'[q])
      /\ Linked(sock'[q], sock'[p], net'[q], net'[p])
  BY <1>4, <1>5, <1>6, Zenon
<1>9. \A j \in Peers : Linked(sock'[j], sock'[Other(j)], net'[j], net'[Other(j)])
  BY <1>3, <1>8 DEF q
<1>10. QED
  BY <1>7, <1>9 DEF Associated

LEMMA CalmBecomes ==
  ASSUME IInv, Associated, NEW p \in Peers, NEW s, Good(s), Calm(sock[p], s),
         NEW rest \in SUBSET net[p], Become(p, s, rest)
  PROVE  Associated'
<1> DEFINE q == Other(p)
<1>1. net[q] \cup sock[p].out = net[q]
  BY DEF Associated
<1>2. Linked(sock[p], sock[q], net[p], net[q] \cup sock[p].out)
  BY <1>1, Zenon DEF Associated
<1>3. Linked(s, sock[q], net[p], net[q] \cup s.out)
  BY <1>2, CalmLinked
<1>4. QED
  BY <1>3, BecomeLinks

LEMMA FreshTag == FreshTags \subseteq Tags
BY DEF FreshTags

LEMMA ConnectKeeps ==
  ASSUME IInv, NEW p \in Peers, Connect(p)
  PROVE  IInv' /\ (Associated => Associated')
<1>1. PICK fresh \in FreshTags :
        Become(p, SendInit([sock[p] EXCEPT !.connect_tag = fresh, !.t1_init = 0,
                                           !.state = "CookieWait"]), net[p])
  BY Zenon DEF Connect
<1> DEFINE s == sock[p]
           t == [s EXCEPT !.connect_tag = fresh, !.t1_init = 0,
                          !.state = "CookieWait"]
           k == [Single(0, "INIT") EXCEPT !.itag = t.connect_tag]
<1>2. fresh \in Tag0 /\ fresh # 0
  BY FreshTag, TagsAssumption DEF Tag0
<1>3. Good(s) /\ s.state = "Closed"
  BY DEF IInv, Connect
<1> HIDE DEF s
<1>4. /\ t \in Socket /\ t.out = s.out /\ t.tcb = s.tcb
      /\ t.state = "CookieWait" /\ t.t1_init = 0 /\ t.t1_cookie = s.t1_cookie
      /\ t.t2_shutdown = s.t2_shutdown /\ t.connect_tag = fresh
      /\ t.lapsed = s.lapsed
  BY <1>2, <1>3, Zenon DEF Good, Sane, Socket, Timer, State
<1>5. Become(p, SendInit(t), net[p])
  BY <1>1 DEF s
<1> HIDE DEF t
<1>6. 0 # Off
  BY DEF Off
<1>7. Good(t)
  BY <1>2, <1>3, <1>4, <1>6 DEF Good, Sane, Armed, HasTcb, HasCookieEchoChunk
<1>8. k \in GoodPacket /\ Ordinary(t, k)
  <2>1. Single(0, "INIT") \in Packet /\ Single(0, "INIT").type = "INIT"
    BY NoThings, SinglePacket, Zenon DEF ChunkType, Single
  <2>2. k \in Packet /\ k.type = "INIT" /\ k.itag = t.connect_tag
    BY <1>2, <1>4, <2>1 DEF Packet
  <2>3. QED
    BY <1>2, <1>4, <2>2, Zenon DEF GoodPacket, Ordinary
<1>9. Good(SendInit(t)) /\ Calm(t, SendInit(t))
  <2> HIDE DEF k
  <2>1. Good(Send(t, k)) /\ Calm(t, Send(t, k))
    BY <1>7, <1>8, SendGood, SendCalm DEF Good
  <2>2. QED
    BY <2>1 DEF SendInit, k
<1>10. budget' \in Budget
  BY Spent, Zenon DEF Connect, IInv, TypeOK
<1>11. net[p] \in SUBSET GoodPacket
  BY DEF IInv
<1>12. IInv'
  BY <1>5, <1>9, <1>10, <1>11, BecomeKeeps, SMTT(20)
<1>13. ASSUME Associated PROVE Associated'
  <2> DEFINE q == Other(p)
  <2>1. Linked(s, sock[q], net[p], net[q]) /\ s.out = {}
    BY <1>13 DEF Associated, s
  <2>2. Dials(s, t)
    BY <1>2, <1>3, <1>4, Zenon DEF Dials
  <2>3. Linked(t, sock[q], net[p], net[q] \cup t.out)
    <3>1. Linked(t, sock[q], net[p], net[q])
      BY <1>3, <2>1, <2>2, DialLinked, Zenon
    <3>2. net[q] \cup t.out = net[q]
      BY <1>4, <2>1, Zenon
    <3>3. QED
      BY <3>1, <3>2, Zenon
  <2>4. Linked(SendInit(t), sock[q], net[p], net[q] \cup SendInit(t).out)
    BY <1>9, <2>3, CalmLinked
  <2>5. QED
    BY <1>5, <1>9, <1>13, <2>4, BecomeLinks, Zenon
<1>14. QED
  BY <1>12, <1>13, SMTT(20)

LEMMA ShutdownKeeps ==
  ASSUME IInv, NEW p \in Peers, Shutdown(p)
  PROVE  /\ IInv'
         /\ Associated /\ "CookieEchoed" \notin ShutdownFrom => Associated'
<1> DEFINE s == sock[p]
           pending == [s EXCEPT !.state = "ShutdownPending",
                                !.t1_init = Off, !.t1_cookie = Off]
           t == IF HasTcb(s) THEN MaybeSendShutdownOrAck(pending)
                             ELSE InternalClose(s, "OnClosed")
<1>1. Good(s) /\ net[p] \in SUBSET GoodPacket
  BY DEF IInv
<1>2. /\ Become(p, t, net[p]) /\ s.state \in ShutdownFrom
      /\ budget' = [budget EXCEPT !.shutdown = @ - 1]
  BY SMTT(20) DEF Shutdown
<1> HIDE DEF s
<1>3. HasTcb(s) => Good(pending) /\ (s.state # "CookieEchoed" => Calm(s, pending))
  BY <1>1, StateChange, Zenon
<1> HIDE DEF pending
<1>4. Good(t) /\ (s.state # "CookieEchoed" => Calm(s, t))
  <2>1. HasTcb(s) => /\ Good(MaybeSendShutdownOrAck(pending))
                     /\ Calm(pending, MaybeSendShutdownOrAck(pending))
    BY <1>3, MaybeSendShutdownOrAckKeeps, Zenon
  <2>2. /\ Good(InternalClose(s, "OnClosed"))
        /\ Calm(s, InternalClose(s, "OnClosed"))
    BY <1>1, InternalCloseKeeps DEF Good
  <2>3. QED
    BY <1>3, <2>1, <2>2, CalmTrans
<1> HIDE DEF t
<1>5. budget' \in Budget
  BY <1>2, Spent, Zenon DEF IInv, TypeOK
<1>6. IInv'
  BY <1>1, <1>2, <1>4, <1>5, BecomeKeeps
<1>7. ASSUME Associated, "CookieEchoed" \notin ShutdownFrom PROVE Associated'
  BY <1>2, <1>4, <1>7, CalmBecomes DEF s
<1>8. QED
  BY <1>6, <1>7

LEMMA CloseKeeps ==
  ASSUME IInv, NEW p \in Peers, Close(p)
  PROVE  IInv' /\ (Associated => Associated')
<1> DEFINE s == sock[p]
           a == IF HasTcb(s) THEN SendAbort(s) ELSE s
           t == InternalClose(a, "OnClosed")
<1>1. Good(s) /\ net[p] \in SUBSET GoodPacket
  BY DEF IInv
<1>2. Become(p, t, net[p]) /\ budget' = [budget EXCEPT !.close = @ - 1]
  BY SMTT(20) DEF Close
<1> HIDE DEF s
<1>3. Good(a) /\ Calm(s, a)
  BY <1>1, ToPeerPacket, ToPeerCalm, SendGood, CalmSelf, Zenon
     DEF SendAbort, ChunkType, Good
<1> HIDE DEF a
<1>4. Good(t) /\ Calm(s, t)
  BY <1>3, InternalCloseKeeps, CalmTrans DEF Good
<1> HIDE DEF t
<1>5. budget' \in Budget
  BY <1>2, Spent, Zenon DEF IInv, TypeOK
<1>6. IInv'
  BY <1>1, <1>2, <1>4, <1>5, BecomeKeeps
<1>7. Associated => Associated'
  BY <1>2, <1>4, CalmBecomes DEF s
<1>8. QED
  BY <1>6, <1>7

LEMMA SendMessageKeeps ==
  ASSUME IInv, NEW p \in Peers, SendMessage(p)
  PROVE  IInv' /\ (Associated => Associated')
<1> DEFINE s == sock[p]
           q == [s EXCEPT !.accepted = @ + 1,
                          !.send_queue = @ \cup {s.accepted + 1}]
           t == IF HasTcb(s) THEN SendBufferedPackets(q, "None") ELSE q
<1>1. Good(s) /\ net[p] \in SUBSET GoodPacket
  BY DEF IInv
<1>2. Become(p, t, net[p]) /\ budget' = budget /\ s.accepted < budget.messages[p]
  BY DEF SendMessage
<1> HIDE DEF s
<1>3. budget.messages[p] \in 0..3
  BY SMTT(20) DEF IInv, TypeOK, Budget
<1>4. s \in Socket /\ s.accepted \in 0..3
  BY <1>1 DEF Good, Sane, Socket
<1>5. s.accepted + 1 \in 0..3 /\ s.accepted + 1 \in Message
  BY <1>2, <1>3, <1>4 DEF Message
<1>6. /\ q \in Socket /\ q.out = s.out /\ q.tcb = s.tcb /\ q.state = s.state
      /\ q.t1_init = s.t1_init /\ q.t1_cookie = s.t1_cookie
      /\ q.t2_shutdown = s.t2_shutdown /\ q.connect_tag = s.connect_tag
      /\ q.lapsed = s.lapsed
  BY <1>4, <1>5, Zenon DEF Socket
<1> HIDE DEF q
<1>7. Sane(q) /\ Good(q)
  BY <1>1, <1>6, Zenon DEF Good, Sane, Armed, HasTcb, HasCookieEchoChunk
<1>8. Calm(s, q)
  BY <1>6 DEF Calm
<1>9. Good(t) /\ Calm(s, t)
  <2> DEFINE b == SendBufferedPackets(q, "None")
  <2>1. Sane(b) /\ Same(q, b) /\ Calm(q, b)
    BY <1>7, SendBufferedPacketsKeeps
  <2> HIDE DEF b
  <2>2. Good(b) /\ Calm(s, b)
    BY <1>7, <1>8, <2>1, SameGood, CalmTrans
  <2>3. QED
    BY <1>7, <1>8, <2>2 DEF b
<1> HIDE DEF t
<1>10. budget' \in Budget
  BY <1>2 DEF IInv, TypeOK
<1>11. IInv'
  BY <1>1, <1>2, <1>9, <1>10, BecomeKeeps, Zenon
<1>12. Associated => Associated'
  BY <1>2, <1>9, CalmBecomes DEF s
<1>13. QED
  BY <1>11, <1>12

LEMMA ReceiveKeeps ==
  ASSUME IInv, NEW p \in Peers, Receive(p) \/ ReceiveDuplicate(p)
  PROVE  IInv' /\ (Associated => Associated')
<1>1. PICK pkt \in net[p], fresh \in FreshTags, immediate \in BOOLEAN,
           rest \in SUBSET net[p] :
        Become(p, ReceivePacket(sock[p], pkt, fresh, immediate), rest)
  BY Zenon DEF Receive, ReceiveDuplicate
<1>2. budget' \in Budget
  <2>1. budget' = budget \/ budget' = [budget EXCEPT !.dup = @ - 1]
    BY Zenon DEF Receive, ReceiveDuplicate
  <2>2. QED
    BY <2>1, Spent, Zenon DEF IInv, TypeOK
<1>3. /\ Good(sock[p]) /\ pkt \in GoodPacket /\ fresh \in Tags
      /\ rest \in SUBSET GoodPacket
  BY FreshTag, Zenon DEF IInv
<1>4. Good(ReceivePacket(sock[p], pkt, fresh, immediate))
  BY <1>3, ReceivePacketKeeps, Zenon
<1>5. IInv'
  BY <1>1, <1>2, <1>3, <1>4, BecomeKeeps, SMTT(20)
<1>6. ASSUME Associated PROVE Associated'
  <2> DEFINE q == Other(p)
             r == ReceivePacket(sock[p], pkt, fresh, immediate)
  <2>1. net[q] \cup sock[p].out = net[q]
    BY <1>6, SMTT(20) DEF Associated
  <2>2. Linked(sock[p], sock[q], net[p], net[q] \cup sock[p].out)
    BY <1>6, <2>1, Zenon DEF Associated
  <2>3. Good(sock[q])
    BY OtherIs, SMTT(20) DEF IInv
  <2>4. Linked(r, sock[q], net[p], net[q] \cup r.out)
    BY <1>3, <2>2, <2>3, ReceivePacketLinked, Zenon
  <2>5. QED
    BY <1>1, <1>4, <1>6, <2>4, BecomeLinks, Zenon
<1>7. QED
  BY <1>5, <1>6

LEMMA TimersKeep ==
  ASSUME IInv, NEW p \in Peers, Timers(p)
  PROVE  IInv' /\ (Associated => Associated')
<1>1. /\ Good(sock[p]) /\ net[p] \in SUBSET GoodPacket
      /\ budget' \in Budget /\ budget.max_init_retransmits \in Int
  BY SMTT(20) DEF IInv, TypeOK, Budget, Timers, InitTimer, CookieTimer, ShutdownTimer, RtxTimer,
         DelayedAckTimer
<1>2. PICK r : Good(r) /\ Calm(sock[p], r) /\ Become(p, r, net[p])
  <2>1. CASE InitTimer(p)
    BY <1>1, <2>1, OnInitTimerExpiryKeeps, Zenon DEF InitTimer
  <2>2. CASE CookieTimer(p)
    BY <1>1, <2>2, OnCookieTimerExpiryKeeps, Zenon DEF CookieTimer
  <2>3. CASE ShutdownTimer(p)
    BY <1>1, <2>3, OnShutdownTimerExpiryKeeps, Zenon DEF ShutdownTimer
  <2>4. CASE RtxTimer(p)
    BY <1>1, <2>4, OnRtxTimerExpiryKeeps, Zenon DEF RtxTimer
  <2>5. CASE DelayedAckTimer(p)
    <3>1. Good(SendSack(sock[p])) /\ Calm(sock[p], SendSack(sock[p]))
      BY <1>1, SendSackKeeps, SameGood DEF Good
    <3>2. QED
      BY <2>5, <3>1, SMTT(20) DEF DelayedAckTimer
  <2>6. QED
    BY <2>1, <2>2, <2>3, <2>4, <2>5, Zenon DEF Timers
<1>3. QED
  BY <1>1, <1>2, BecomeKeeps, CalmBecomes, Zenon

LEMMA LoseKeeps ==
  ASSUME IInv, NEW p \in Peers, Lose(p)
  PROVE  IInv' /\ (Associated => Associated')
<1>1. /\ net' \in [Peers -> SUBSET Packet]
      /\ \A q \in Peers : net'[q] \subseteq net[q]
  BY DEF IInv, TypeOK, Lose
<1>2. sock' = sock
  BY DEF Lose
<1>3. budget' \in Budget
  BY Spent, Zenon DEF IInv, TypeOK, Lose
<1>4. IInv'
  BY <1>1, <1>2, <1>3, Zenon DEF IInv, TypeOK
<1>5. ASSUME Associated PROVE Associated'
  <2> SUFFICES ASSUME NEW q \in Peers
               PROVE  Linked(sock'[q], sock'[Other(q)], net'[q], net'[Other(q)])
    BY <1>2, <1>5 DEF Associated
  <2>1. net'[q] \subseteq net[q] /\ net'[Other(q)] \subseteq net[Other(q)]
    BY <1>1, OtherIs
  <2>2. Linked(sock[q], sock[Other(q)], net[q], net[Other(q)])
    BY <1>5 DEF Associated
  <2>3. QED
    BY <1>2, <2>1, <2>2, LinkedLess
<1>6. QED
  BY <1>4, <1>5

LEMMA RestartKeeps ==
  ASSUME IInv, NEW p \in Peers, Restart(p)
  PROVE  IInv'
<1> DEFINE s == sock[p]
           t == [NewSocket EXCEPT !.accepted = s.accepted,
                   !.delivered = s.delivered, !.lapsed = s.lapsed]
<1>1. s \in Socket
  BY DEF IInv, TypeOK
<1>2. sock' = [sock EXCEPT ![p] = t] /\ net' = net
  BY DEF Restart
<1> HIDE DEF s
<1>3. /\ t \in Socket /\ t.out = {} /\ t.tcb = NoTcb /\ t.state = "Closed"
      /\ t.t1_init = Off /\ t.t1_cookie = Off /\ t.t2_shutdown = Off
  BY <1>1, NoThings, Zenon DEF NewSocket, Socket, State, Timer
<1> HIDE DEF t
<1>4. NoTcb.my_tag = 0 /\ NoTcb.cookie_echo = NoCookie
  BY Zenon DEF NoTcb
<1>5. Good(t)
  BY <1>3, <1>4, Zenon DEF Good, Sane, Armed, HasTcb, HasCookieEchoChunk
<1>6. sock' \in [Peers -> Socket] /\ \A q \in Peers : Good(sock'[q])
  BY <1>2, <1>3, <1>5 DEF IInv, TypeOK
<1>7. budget' \in Budget
  BY Spent, Zenon DEF Restart, IInv, TypeOK
<1>8. QED
  BY <1>2, <1>6, <1>7 DEF IInv, TypeOK

LEMMA NextKeeps ==
  ASSUME IInv, [Next]_vars
  PROVE  /\ IInv'
         /\ /\ Associated /\ "CookieEchoed" \notin ShutdownFrom
            /\ \A p \in Peers : ~Restart(p)
            => Associated'
<1>1. CASE UNCHANGED vars
  BY <1>1 DEF vars, IInv, TypeOK, Associated
<1>2. CASE Next
  <2>1. PICK p \in Peers : Application(p) \/ Receive(p) \/ Timers(p) \/ Environment(p)
    BY <1>2 DEF Next
  <2>2. QED
    BY <2>1, ConnectKeeps, ShutdownKeeps, CloseKeeps, SendMessageKeeps,
       ReceiveKeeps, TimersKeep, LoseKeeps, RestartKeeps
       DEF Application, Environment
<1>3. QED
  BY <1>1, <1>2

(* Nothing adds to the restarts that may yet happen.                        *)
LEMMA NoMoreRestarts ==
  ASSUME TypeOK, budget.restart <= 0, [Next]_vars
  PROVE  budget'.restart <= 0 /\ \A p \in Peers : ~Restart(p)
<1>1. \A p \in Peers : ~Restart(p)
  <2>1. ASSUME NEW p \in Peers, Restart(p) PROVE budget.restart > 0
    BY <2>1, Zenon DEF Restart
  <2>2. budget.restart \in Int
    BY Zenon DEF TypeOK, Budget
  <2>3. QED
    BY <2>1, <2>2
<1>2. CASE UNCHANGED vars
  BY <1>1, <1>2 DEF vars
<1>3. CASE Next
  <2>1. PICK p \in Peers : Application(p) \/ Receive(p) \/ Timers(p) \/ Environment(p)
    BY <1>3, SMTT(20) DEF Next
  <2>2. \/ budget' = budget \/ budget' = [budget EXCEPT !.connect[p] = @ - 1]
        \/ budget' = [budget EXCEPT !.dup = @ - 1]
        \/ budget' = [budget EXCEPT !.loss = @ - 1]
        \/ budget' = [budget EXCEPT !.shutdown = @ - 1]
        \/ budget' = [budget EXCEPT !.close = @ - 1]
    BY <1>1, <2>1, Zenon
       DEF Application, Connect, Shutdown, Close, SendMessage, Receive, Timers,
           InitTimer, CookieTimer, ShutdownTimer, RtxTimer, DelayedAckTimer,
           Environment, ReceiveDuplicate, Lose
  <2>3. QED
    BY <1>1, <2>2 DEF TypeOK, Budget
<1>4. QED
  BY <1>2, <1>3

-----------------------------------------------------------------------------
(* Whatever is lost, duplicated or reordered, whenever processes restart     *)
(* and applications call, every member of the two sockets keeps its type:   *)
(* expiration and error counters do not go below zero, the acknowledged,    *)
(* outstanding and delivered messages are messages that Send() took.        *)
THEOREM TypeCorrect == Spec => []TypeOK
<1>1. IInv => TypeOK
  BY Zenon DEF IInv
<1>2. QED
  BY <1>1, InitIInv, NextKeeps, PTL DEF Spec

(* A socket that waits for a chunk of the handshake or of the shutdown       *)
(* always has the timer running that repeats its own chunk or gives up, in  *)
(* CookieEchoed it has the COOKIE ECHO to repeat, and the TCB exists in      *)
(* every state whose handlers dereference it.                               *)
THEOREM AlwaysArmed == Spec => []WaitingIsArmed
<1>1. IInv => WaitingIsArmed
  BY DEF IInv, Good, WaitingIsArmed
<1>2. QED
  BY <1>1, InitIInv, NextKeeps, PTL DEF Spec

(* Unless a process loses its state, and unless the application gives up a   *)
(* connection that waits for its COOKIE ACK with Shutdown(), the handshake   *)
(* leads to one association: however often the applications call Connect(), *)
(* whichever INIT, INIT ACK, COOKIE ECHO and COOKIE ACK are lost, repeated,  *)
(* delayed or crossed, two established sockets that have not been closed    *)
(* hold each other's verification tags.                                     *)
THEOREM HandshakeAgrees ==
  ASSUME \A b \in Budgets : b.restart = 0, "CookieEchoed" \notin ShutdownFrom
  PROVE  Spec => []Agreement
<1> DEFINE AInv == IInv /\ Associated /\ budget.restart <= 0
<1>1. Init => AInv
  <2> SUFFICES ASSUME Init PROVE Associated /\ budget.restart <= 0
    BY InitIInv
  <2>1. budget.restart <= 0
    BY SMTT(20) DEF Init
  <2>2. /\ NewSocket.state = "Closed" /\ NewSocket.connect_tag = 0
        /\ NewSocket.out = {} /\ NewSocket.tcb = NoTcb
        /\ NoTcb.my_tag = 0 /\ NoTcb.cookie_echo = NoCookie
    BY Zenon DEF NewSocket, NoTcb
  <2>3. Bound(NewSocket, NewSocket, {}, {})
    BY <2>2, Zenon DEF Bound, Mine, Pair, Drawn, HasTcb, HasCookieEchoChunk, Opened
  <2>4. QED
    BY <2>1, <2>2, <2>3, OtherIs DEF Init, Associated, Linked
<1>2. AInv /\ [Next]_vars => AInv'
  BY NextKeeps, NoMoreRestarts, SMTT(20) DEF IInv
<1>3. AInv => Agreement
  <2> SUFFICES ASSUME IInv, Associated, NEW p \in Peers,
                      \A q \in Peers : sock[q].state = "Established" /\ ~sock[q].lapsed
               PROVE  sock[p].tcb.my_tag = sock[Other(p)].tcb.peer_tag
    BY SMTT(20) DEF Agreement
  <2>1. Pair(sock[p], sock[Other(p)])
    BY OtherIs, Zenon DEF Associated, Linked, Bound
  <2>2. HasTcb(sock[p]) /\ HasTcb(sock[Other(p)])
    BY OtherIs, Zenon DEF IInv, Good, Armed
  <2>3. QED
    BY <2>1, <2>2, OtherIs, Zenon DEF Pair, Agree, Crossed
<1>4. QED
  BY <1>1, <1>2, <1>3, PTL DEF Spec
=============================================================================
