---------------------------- MODULE DcSctpSocket ----------------------------
(***************************************************************************)
(* Two dcSCTP sockets (net/dcsctp/socket/dcsctp_socket.cc) and the network *)
(* between them: the four-way handshake, simultaneous connects, restarts   *)
(* of the peer, user data and its retransmission, shutdown and abort.      *)
(*                                                                         *)
(* A handler of the C++ class is an operator from the record of one socket *)
(* (its members, and in `out` the packets it has sent so far) to the       *)
(* record after the handler; a public method, a received packet and a      *)
(* timer expiry are the actions.  Abstractions:                            *)
(*  - a verification tag stands for the tag and the initial TSN that is    *)
(*    drawn with it; tags are drawn fresh (32 random bits in the code),    *)
(*    and a tag nobody remembers may be drawn again;                       *)
(*  - messages are unordered, each is one chunk that has a packet to       *)
(*    itself (control chunks aside), and at most three are sent per socket:*)
(*    no chunk is reported missing three times, and fast retransmit does   *)
(*    not arise here;                                                      *)
(*  - messages are numbered in the order the application sends them, and a *)
(*    chunk is named by its message; on the wire it has a TSN, counted     *)
(*    from the initial TSN of its TCB;                                     *)
(*  - identical packets on their way to the same socket are one packet.    *)
(***************************************************************************)
EXTENDS Integers, FiniteSets

CONSTANTS
  Peers,               \* the two endpoints
  Tags,                \* verification tags and tie tags
  MaxRetransmissions,  \* DcSctpOptions::max_retransmissions
  CwndInitial,         \* DcSctpOptions::cwnd_mtus_initial
  Budgets,             \* what applications, network and processes may do
  ShutdownFrom,        \* states in which an application calls Shutdown()
  CloseFrom            \* states in which an application calls Close()

ASSUME PeersAssumption == \E a, b \in Peers : a # b /\ Peers = {a, b}
ASSUME TagsAssumption == Tags \subseteq Nat \ {0}
ASSUME LimitsAssumption ==
  /\ MaxRetransmissions \in Int
  /\ CwndInitial \in Nat \ {0}

(* How many packets may be lost and delivered twice, how often a process    *)
(* may lose its state and start again, how often the applications call      *)
(* Connect(), Shutdown() and Close(), how many messages each of them sends; *)
(* and DcSctpOptions::max_init_retransmits, how often a T1 timer may retry. *)
Budget == [loss : Int, dup : Int, restart : Int, connect : [Peers -> Int],
           shutdown : Int, close : Int, messages : [Peers -> 0..3],
           max_init_retransmits : Int]

ASSUME BudgetsAssumption == Budgets \subseteq Budget

VARIABLES
  sock,    \* sock[p]: the members of p's DcSctpSocket
  net,     \* net[p]: the packets on their way to p
  budget   \* what is left of one of the Budgets

vars == <<sock, net, budget>>

State == {"Closed", "CookieWait", "CookieEchoed", "Established",
          "ShutdownPending", "ShutdownSent", "ShutdownReceived",
          "ShutdownAckSent"}

Tag0 == Tags \cup {0}       \* VerificationTag(0), TieTag(0)
Message == 1..3
Off == -1                   \* a timer that is not running
Timer == Nat \cup {Off}      \* or how often it has expired since Start()
Unlimited == -1             \* a limit that is not set (std::nullopt)
Other(p) == CHOOSE q \in Peers : q # p

(* Wire format: what the handlers look at.                                 *)
Cookie == [peer_tag : Tag0, my_tag : Tag0, tie_tag : Tag0]
NoCookie == [peer_tag |-> 0, my_tag |-> 0, tie_tag |-> 0]

ChunkType == {"None", "INIT", "INIT_ACK", "COOKIE_ECHO", "COOKIE_ACK",
              "SHUTDOWN", "SHUTDOWN_ACK", "SHUTDOWN_COMPLETE", "ABORT"}

(* A packet is a control chunk, a SACK and DATA, each possibly absent, in  *)
(* that order.  `stream` is the tag of the sender of the TSNs: TSNs drawn   *)
(* with different tags are too far apart to be mistaken for one another.    *)
Sack == [stream : Tag0, tsns : SUBSET Int]
Data == [stream : Tag0, tsn : Int, msg : Message]
NoSack == [stream |-> 0, tsns |-> {}]
NoData == [stream |-> 0, tsn |-> 0, msg |-> 0]
Packet == [tag : Tag0, type : ChunkType, itag : Tag0, cookie : Cookie,
           t_bit : BOOLEAN, sack : Sack, data : Data \cup {NoData}]

Single(tag, type) ==
  [tag |-> tag, type |-> type, itag |-> 0, cookie |-> NoCookie,
   t_bit |-> FALSE, sack |-> NoSack, data |-> NoData]

Send(s, pkt) == [s EXCEPT !.out = @ \cup {pkt}]

(***************************************************************************)
(* The transmission control block.                                         *)
(***************************************************************************)
Tcb == [my_tag : Tag0, peer_tag : Tag0, tie_tag : Tag0, cookie_echo : Cookie,
        base : Int,                \* message m has TSN m - base
        inflight : SUBSET Message, \* unacked_items: neither acked nor nacked
        nacked : SUBSET Message,   \* reported missing, not yet three times
        to_be_retransmitted : SUBSET Message,
        cum_acked : SUBSET Message,   \* up to last_cumulative_tsn_ack
        gap_acked : SUBSET Message,   \* acked by a gap ack block only
        t3_rtx : BOOLEAN, tx_errors : Nat, cwnd : Nat,
        received : SUBSET Int,     \* the peer's TSNs, as DataTracker has them
        ack_due : BOOLEAN]         \* DataTracker's ack state is not idle

NoTcb == [my_tag |-> 0, peer_tag |-> 0, tie_tag |-> 0,
          cookie_echo |-> NoCookie, base |-> 0, inflight |-> {},
          nacked |-> {}, to_be_retransmitted |-> {}, cum_acked |-> {}, gap_acked |-> {},
          t3_rtx |-> FALSE, tx_errors |-> 0, cwnd |-> 0, received |-> {},
          ack_due |-> FALSE]

HasTcb(s) == s.tcb.my_tag # 0
HasCookieEchoChunk(s) == s.tcb.cookie_echo # NoCookie

(* send_queue_.Reset() and a new TCB: what was sent and not acknowledged    *)
(* in an earlier TCB is gone, what is still queued gets TSNs anew.          *)
CreateTransmissionControlBlock(s, my_tag, peer_tag, tie_tag) ==
  [s EXCEPT !.tcb = [NoTcb EXCEPT
     !.my_tag = my_tag, !.peer_tag = peer_tag, !.tie_tag = tie_tag,
     !.base = s.accepted - Cardinality(s.send_queue), !.cwnd = CwndInitial]]

ToPeer(s, type) == Single(s.tcb.peer_tag, type)   \* tcb_->PacketBuilder()

SelectiveAck(tcb) == [stream |-> tcb.peer_tag, tsns |-> tcb.received]

(* SendBufferedPackets: control chunks ride on the first packet, followed  *)
(* by what GetChunksToSend returns, lowest TSN first, within the           *)
(* congestion window.  A packet that carries COOKIE ECHO is the only one.  *)
SendBufferedPackets(s, ctl) ==
  LET tcb == s.tcb
      echo == HasCookieEchoChunk(s)
      first == IF echo
                 THEN [ToPeer(s, "COOKIE_ECHO") EXCEPT !.cookie = tcb.cookie_echo]
                 ELSE ToPeer(s, ctl)
      ready == tcb.to_be_retransmitted \cup s.send_queue
      window == tcb.cwnd - Cardinality(tcb.inflight)
      room == IF echo /\ window > 1 THEN 1 ELSE window
      burst == {m \in ready : Cardinality({k \in ready : k < m}) < room}
      lead == {m \in burst : \A k \in burst : m <= k}
      sack == IF tcb.ack_due THEN SelectiveAck(tcb) ELSE NoSack
      chunk(m) == [stream |-> tcb.my_tag, tsn |-> m - tcb.base, msg |-> m]
      heads == IF burst = {} THEN {[first EXCEPT !.sack = sack]}
               ELSE {[first EXCEPT !.sack = sack, !.data = chunk(m)] : m \in lead}
      tail == {[ToPeer(s, "None") EXCEPT !.data = chunk(m)] : m \in burst \ lead}
      empty == first.type = "None" /\ ~tcb.ack_due /\ burst = {}
  IN  IF empty THEN s
      ELSE [s EXCEPT !.out = @ \cup heads \cup tail,
                     !.send_queue = @ \ burst,
                     !.tcb = [tcb EXCEPT
                       !.inflight = @ \cup burst,
                       !.to_be_retransmitted = @ \ burst,
                       !.t3_rtx = @ \/ burst # {},
                       !.ack_due = FALSE]]

SendSack(s) ==
  [s EXCEPT !.out = @ \cup {[ToPeer(s, "None") EXCEPT
                               !.sack = SelectiveAck(s.tcb)]},
            !.tcb.ack_due = FALSE]

(***************************************************************************)
(* The socket.  connect_tag is connect_params_; t1_init, t1_cookie and     *)
(* t2_shutdown hold the timer's expiration count, or Off.  History, for    *)
(* the properties: `app` is the last callback of OnConnected, OnClosed,    *)
(* OnAborted; `accepted` counts the messages Send() took; `delivered` are  *)
(* the peer's messages passed to OnMessageReceived; `lapsed` says that the *)
(* socket was closed at least once.                                        *)
(***************************************************************************)
Socket == [state : State, tcb : Tcb, connect_tag : Tag0,
           t1_init : Timer, t1_cookie : Timer, t2_shutdown : Timer,
           send_queue : SUBSET Message, out : SUBSET Packet,
           app : {"None", "OnConnected", "OnClosed", "OnAborted"},
           accepted : 0..3, delivered : SUBSET Message, lapsed : BOOLEAN]

NewSocket == [state |-> "Closed", tcb |-> NoTcb, connect_tag |-> 0,
              t1_init |-> Off, t1_cookie |-> Off, t2_shutdown |-> Off,
              send_queue |-> {}, out |-> {}, app |-> "None",
              accepted |-> 0, delivered |-> {}, lapsed |-> FALSE]

InternalClose(s, callback) ==
  IF s.state = "Closed" THEN s
  ELSE [s EXCEPT !.t1_init = Off, !.t1_cookie = Off, !.t2_shutdown = Off,
                 !.tcb = NoTcb, !.app = callback, !.state = "Closed",
                 !.lapsed = TRUE]

SendAbort(s) == Send(s, ToPeer(s, "ABORT"))
SendInit(s) == Send(s, [Single(0, "INIT") EXCEPT !.itag = s.connect_tag])
SendShutdown(s) == Send(s, ToPeer(s, "SHUTDOWN"))
SendShutdownAck_NoTimer(s) == Send(s, ToPeer(s, "SHUTDOWN_ACK"))

SendShutdownAck(s) ==
  [Send(s, ToPeer(s, "SHUTDOWN_ACK")) EXCEPT !.t2_shutdown = 0]

MaybeSendShutdownOrAck_Early(s) ==
  IF s.state = "ShutdownPending"
    THEN [SendShutdown(s) EXCEPT !.t2_shutdown = 0, !.state = "ShutdownSent"]
  ELSE IF s.state = "ShutdownReceived"
    THEN [SendShutdownAck(s) EXCEPT !.state = "ShutdownAckSent"]
  ELSE s

MaybeSendShutdownOrAck(s) ==
  IF s.tcb.inflight # {} THEN s
  ELSE IF s.state = "ShutdownPending"
    THEN [SendShutdown(s) EXCEPT !.t2_shutdown = 0, !.state = "ShutdownSent"]
  ELSE IF s.state = "ShutdownReceived"
    THEN [SendShutdownAck(s) EXCEPT !.state = "ShutdownAckSent"]
  ELSE s

(***************************************************************************)
(* Chunk handlers.  `fresh` is the random tag a handler draws.             *)
(***************************************************************************)
HandleInit_FreshTag(s, pkt, fresh) ==
  LET tie_tag == IF s.state \in {"Closed", "CookieWait", "CookieEchoed"} THEN 0
                 ELSE s.tcb.tie_tag
      cookie == [peer_tag |-> pkt.itag, my_tag |-> fresh, tie_tag |-> tie_tag]
  IN  IF s.state = "ShutdownAckSent" THEN SendShutdownAck(s)
      ELSE Send(s, [Single(pkt.itag, "INIT_ACK") EXCEPT !.itag = fresh,
                                                        !.cookie = cookie])

HandleInit(s, pkt, fresh) ==
  LET collision == s.state \in {"CookieWait", "CookieEchoed"}
      my_tag == IF collision THEN s.connect_tag ELSE fresh
      tie_tag == IF collision \/ s.state = "Closed" THEN 0 ELSE s.tcb.tie_tag
      cookie == [peer_tag |-> pkt.itag, my_tag |-> my_tag, tie_tag |-> tie_tag]
  IN  IF s.state = "ShutdownAckSent" THEN SendShutdownAck(s)
      ELSE Send(s, [Single(pkt.itag, "INIT_ACK") EXCEPT !.itag = my_tag,
                                                        !.cookie = cookie])

HandleInitAck_T1Runs(s, pkt, fresh) ==
  LET c == CreateTransmissionControlBlock(s, s.connect_tag, pkt.itag, fresh)
      e == [c EXCEPT !.state = "CookieEchoed", !.tcb.cookie_echo = pkt.cookie]
  IN  IF s.state # "CookieWait" THEN s
      ELSE [SendBufferedPackets(e, "None") EXCEPT !.t1_cookie = 0]

HandleInitAck(s, pkt, fresh) ==
  LET c == CreateTransmissionControlBlock(s, s.connect_tag, pkt.itag, fresh)
      e == [c EXCEPT !.t1_init = Off, !.state = "CookieEchoed",
                     !.tcb.cookie_echo = pkt.cookie]
  IN  IF s.state # "CookieWait" THEN s
      ELSE [SendBufferedPackets(e, "None") EXCEPT !.t1_cookie = 0]

(* RFC 4960, section 5.2.4, the cases of a COOKIE ECHO when a TCB exists;   *)
(* whatever is none of A, B and C goes on like D.                           *)
PeerRestarted(tcb, pkt) ==
  /\ pkt.tag # tcb.my_tag
  /\ pkt.cookie.peer_tag # tcb.peer_tag
  /\ pkt.cookie.tie_tag = tcb.tie_tag

SimultaneousConnect(tcb, pkt) ==
  pkt.tag = tcb.my_tag /\ pkt.cookie.peer_tag # tcb.peer_tag

LateCookieEcho(tcb, pkt) ==
  /\ pkt.tag # tcb.my_tag
  /\ pkt.cookie.peer_tag = tcb.peer_tag
  /\ pkt.cookie.tie_tag = 0

HandleCookieEcho_KeepsTracker(s, pkt, fresh) ==
  LET up == [s EXCEPT !.t1_init = Off, !.t1_cookie = Off, !.state = "Established"]
      c == [CreateTransmissionControlBlock(up, pkt.cookie.my_tag,
                                           pkt.cookie.peer_tag, fresh)
              EXCEPT !.tcb.received = s.tcb.received]
  IN  IF ~HasTcb(s) /\ pkt.tag # pkt.cookie.my_tag THEN s
      ELSE SendBufferedPackets(c, "COOKIE_ACK")

HandleCookieEcho(s, pkt, fresh) ==
  LET restarted == HasTcb(s) /\ PeerRestarted(s.tcb, pkt)
      dropTcb == restarted \/ (HasTcb(s) /\ SimultaneousConnect(s.tcb, pkt))
      tcb == IF dropTcb THEN NoTcb
             ELSE IF s.state = "Established" THEN s.tcb
             ELSE [s.tcb EXCEPT !.cookie_echo = NoCookie]
      up == [s EXCEPT !.t1_init = Off, !.t1_cookie = Off, !.tcb = tcb,
                      !.state = "Established",
                      !.app = IF s.state = "Established" THEN @
                              ELSE "OnConnected"]
      c == IF HasTcb(up) THEN up
           ELSE CreateTransmissionControlBlock(up, pkt.cookie.my_tag,
                                               pkt.cookie.peer_tag, fresh)
  IN  IF ~HasTcb(s) /\ pkt.tag # pkt.cookie.my_tag THEN s
      ELSE IF restarted /\ s.state = "ShutdownAckSent"
        THEN Send(s, Single(pkt.cookie.peer_tag, "SHUTDOWN_ACK"))
      ELSE IF HasTcb(s) /\ LateCookieEcho(s.tcb, pkt) THEN s
      ELSE SendBufferedPackets(c, "COOKIE_ACK")

HandleCookieAck(s) ==
  IF s.state # "CookieEchoed" THEN s
  ELSE LET up == [s EXCEPT !.t1_cookie = Off, !.tcb.cookie_echo = NoCookie,
                           !.state = "Established", !.app = "OnConnected"]
       IN  SendBufferedPackets(up, "None")

HandleShutdown(s) ==
  CASE s.state = "ShutdownSent" ->
         [SendShutdownAck(s) EXCEPT !.state = "ShutdownAckSent"]
    [] s.state \in {"Established", "ShutdownPending"} ->
         MaybeSendShutdownOrAck([s EXCEPT !.state = "ShutdownReceived"])
    [] OTHER -> s

HandleShutdownAck(s, pkt) ==
  IF s.state \in {"ShutdownSent", "ShutdownAckSent"}
    THEN InternalClose(Send(s, ToPeer(s, "SHUTDOWN_COMPLETE")), "OnClosed")
    ELSE Send(s, [Single(pkt.tag, "SHUTDOWN_COMPLETE") EXCEPT !.t_bit = TRUE])

HandleShutdownComplete(s) ==
  IF s.state = "ShutdownAckSent" THEN InternalClose(s, "OnClosed") ELSE s

HandleAbort(s) == IF HasTcb(s) THEN InternalClose(s, "OnAborted") ELSE s

(* RetransmissionErrorCounter; a counter without a limit is not counted.    *)
Increment(counter) == IF MaxRetransmissions = Unlimited THEN counter
                      ELSE counter + 1
IsExhausted(counter) ==
  MaxRetransmissions # Unlimited /\ counter > MaxRetransmissions
Clear_ByOne(counter) == counter - 1
Clear(counter) == 0

(* A valid SACK acknowledges, moves the cumulative ack point, restarts or   *)
(* stops T3-rtx, and may let a shutdown proceed and more data be sent.      *)
HandleSack(s, sack) ==
  LET tcb == s.tcb
      outstanding == tcb.inflight \cup tcb.nacked \cup tcb.to_be_retransmitted
      sent == outstanding \cup tcb.cum_acked \cup tcb.gap_acked
      reported == {tcb.base + t : t \in sack.tsns}
      cum == {m \in sent : \A k \in sent : k <= m => k \in reported}
      acked == outstanding \cap reported
      missing == {m \in tcb.inflight \ reported : \E k \in acked : m < k}
      valid == /\ sack.stream = tcb.my_tag
               /\ tcb.cum_acked \subseteq cum
               /\ cum # sent \/ tcb.base + Cardinality(sent) + 1 \notin reported
      advanced == cum # tcb.cum_acked
      full == Cardinality(tcb.inflight) + 1 >= tcb.cwnd
      after == [tcb EXCEPT
        !.inflight = @ \ (reported \cup missing),
        !.nacked = (@ \ reported) \cup missing,
        !.to_be_retransmitted = @ \ reported,
        !.cum_acked = cum,
        !.gap_acked = (@ \cup acked) \ cum,
        !.cwnd = IF advanced /\ full THEN @ + 1 ELSE @,
        !.tx_errors = IF acked # {} THEN Clear(@) ELSE @,
        !.t3_rtx = cum # sent \/ (@ /\ ~advanced)]
  IN  IF HasTcb(s) /\ valid
        THEN SendBufferedPackets(
               MaybeSendShutdownOrAck([s EXCEPT !.tcb = after]), "None")
        ELSE s

HandleData(s, data) ==
  IF HasTcb(s) /\ data.stream = s.tcb.peer_tag
    THEN [s EXCEPT !.tcb.received = @ \cup {data.tsn},
                   !.tcb.ack_due = TRUE,
                   !.delivered = IF data.tsn \in s.tcb.received THEN @
                                 ELSE @ \cup {data.msg}]
    ELSE s

(***************************************************************************)
(* ReceivePacket.                                                          *)
(***************************************************************************)
ValidatePacket(s, pkt) ==
  LET byTBit == IF pkt.t_bit THEN ~HasTcb(s) \/ pkt.tag = s.tcb.peer_tag
                             ELSE pkt.tag = s.tcb.my_tag
  IN  IF pkt.tag = 0 THEN pkt.type = "INIT"
      ELSE CASE pkt.type \in {"ABORT", "SHUTDOWN_COMPLETE"} -> byTBit
             [] pkt.type = "INIT_ACK" -> pkt.tag = s.connect_tag
             [] pkt.type = "COOKIE_ECHO" -> TRUE
             [] OTHER -> pkt.tag = s.tcb.my_tag

MaybeSendShutdownOnPacketReceived(s, pkt) ==
  IF s.state = "ShutdownSent" /\ pkt.data # NoData
    THEN [SendShutdown(s) EXCEPT !.t2_shutdown = 0]
    ELSE s

Dispatch(s, pkt, fresh) ==
  CASE pkt.type = "INIT" -> HandleInit(s, pkt, fresh)
    [] pkt.type = "INIT_ACK" -> HandleInitAck(s, pkt, fresh)
    [] pkt.type = "COOKIE_ECHO" -> HandleCookieEcho(s, pkt, fresh)
    [] pkt.type = "COOKIE_ACK" -> HandleCookieAck(s)
    [] pkt.type = "SHUTDOWN" -> HandleShutdown(s)
    [] pkt.type = "SHUTDOWN_ACK" -> HandleShutdownAck(s, pkt)
    [] pkt.type = "SHUTDOWN_COMPLETE" -> HandleShutdownComplete(s)
    [] pkt.type = "ABORT" -> HandleAbort(s)
    [] OTHER -> s

(* The chunks of a packet in turn; then the SACK that DataTracker decided   *)
(* to send at once (`immediate`) rather than when the delayed ack timer     *)
(* expires.                                                                 *)
ReceivePacket(s, pkt, fresh, immediate) ==
  LET ctl == Dispatch(MaybeSendShutdownOnPacketReceived(s, pkt), pkt, fresh)
      ack == IF pkt.sack = NoSack THEN ctl ELSE HandleSack(ctl, pkt.sack)
      got == IF pkt.data = NoData THEN ack ELSE HandleData(ack, pkt.data)
      due == HasTcb(got) /\ got.tcb.ack_due /\ pkt.data.stream = got.tcb.peer_tag
  IN  IF ~ValidatePacket(s, pkt) THEN s
      ELSE IF due /\ immediate THEN SendSack(got) ELSE got

(***************************************************************************)
(* Timers.  Timer::Trigger counts the expiration and goes on running while *)
(* the count does not exceed max_restarts.                                 *)
(***************************************************************************)
Trigger(timer, max_restarts) ==
  CASE max_restarts = Unlimited -> timer
    [] max_restarts # Unlimited /\ timer + 1 <= max_restarts -> timer + 1
    [] OTHER -> Off

OnInitTimerExpiry(s, max_init_retransmits) ==
  LET t == [s EXCEPT !.t1_init = Trigger(@, max_init_retransmits)]
  IN  IF t.t1_init # Off THEN SendInit(t) ELSE InternalClose(t, "OnAborted")

OnCookieTimerExpiry_NoClose(s, max_init_retransmits) ==
  LET t == [s EXCEPT !.t1_cookie = Trigger(@, max_init_retransmits)]
  IN  IF t.t1_cookie # Off THEN SendBufferedPackets(t, "None") ELSE t

OnCookieTimerExpiry(s, max_init_retransmits) ==
  LET t == [s EXCEPT !.t1_cookie = Trigger(@, max_init_retransmits)]
  IN  IF t.t1_cookie # Off THEN SendBufferedPackets(t, "None")
                           ELSE InternalClose(t, "OnAborted")

OnShutdownTimerExpiry(s) ==
  LET t == [s EXCEPT !.t2_shutdown = Trigger(@, MaxRetransmissions)]
  IN  IF t.t2_shutdown # Off THEN SendShutdown(t)
                             ELSE InternalClose(SendAbort(t), "OnAborted")

OnRtxTimerExpiry(s) ==
  LET tcb == [s.tcb EXCEPT !.tx_errors = Increment(@)]
      nacked == [tcb EXCEPT
                   !.to_be_retransmitted = @ \cup tcb.inflight \cup tcb.nacked,
                   !.inflight = {}, !.nacked = {}, !.cwnd = 1]
  IN  IF HasCookieEchoChunk(s) THEN s
      ELSE IF IsExhausted(tcb.tx_errors)
        THEN InternalClose(SendAbort(s), "OnAborted")
      ELSE SendBufferedPackets([s EXCEPT !.tcb = nacked], "None")

(***************************************************************************)
(* Actions.                                                                *)
(***************************************************************************)
Init == /\ sock = [p \in Peers |-> NewSocket]
        /\ net = [p \in Peers |-> {}]
        /\ budget \in Budgets

CookieTags(c) == {c.peer_tag, c.my_tag, c.tie_tag}
SocketTags(s) == {s.connect_tag, s.tcb.my_tag, s.tcb.peer_tag, s.tcb.tie_tag}
                   \cup CookieTags(s.tcb.cookie_echo)
PacketTags(k) == {k.tag, k.itag, k.sack.stream, k.data.stream}
                   \cup CookieTags(k.cookie)

(* callbacks_.GetRandomInt(): a tag that no socket and no packet holds.     *)
(* Tags are only compared with one another, so the least one stands for all.*)
FreshTags ==
  LET used == UNION {SocketTags(sock[p]) : p \in Peers}
                \cup UNION {PacketTags(k) : k \in UNION {net[p] : p \in Peers}}
      free == Tags \ used
  IN  {t \in free : \A u \in free : t <= u}

(* p's socket becomes s, whose packets go to the other peer; `rest` is what *)
(* remains on its way to p.                                                 *)
Become(p, s, rest) ==
  /\ sock' = [sock EXCEPT ![p] = [s EXCEPT !.out = {}]]
  /\ net' = [q \in Peers |-> IF q = p THEN rest ELSE net[q] \cup s.out]

Connect(p) ==
  /\ sock[p].state = "Closed" /\ budget.connect[p] > 0
  /\ \E fresh \in FreshTags :
       Become(p, SendInit([sock[p] EXCEPT !.connect_tag = fresh, !.t1_init = 0,
                                          !.state = "CookieWait"]), net[p])
  /\ budget' = [budget EXCEPT !.connect[p] = @ - 1]

Shutdown(p) ==
  LET s == sock[p]
      pending == [s EXCEPT !.state = "ShutdownPending",
                           !.t1_init = Off, !.t1_cookie = Off]
  IN  /\ budget.shutdown > 0
      /\ s.state \in ShutdownFrom \ {"ShutdownSent", "ShutdownAckSent"}
      /\ Become(p, IF HasTcb(s) THEN MaybeSendShutdownOrAck(pending)
                                ELSE InternalClose(s, "OnClosed"), net[p])
      /\ budget' = [budget EXCEPT !.shutdown = @ - 1]

Close(p) ==
  LET s == sock[p]
  IN  /\ budget.close > 0
      /\ s.state \in CloseFrom \ {"Closed"}
      /\ Become(p, InternalClose(IF HasTcb(s) THEN SendAbort(s) ELSE s,
                                 "OnClosed"), net[p])
      /\ budget' = [budget EXCEPT !.close = @ - 1]

SendMessage(p) ==
  LET s == sock[p]
      q == [s EXCEPT !.accepted = @ + 1,
                     !.send_queue = @ \cup {s.accepted + 1}]
  IN  /\ s.accepted < budget.messages[p]
      /\ s.state \notin {"ShutdownPending", "ShutdownSent",
                          "ShutdownReceived", "ShutdownAckSent"}
      /\ Become(p, IF HasTcb(s) THEN SendBufferedPackets(q, "None") ELSE q,
                net[p])
      /\ UNCHANGED budget

Receive(p) ==
  \E pkt \in net[p], fresh \in FreshTags, immediate \in BOOLEAN :
    /\ Become(p, ReceivePacket(sock[p], pkt, fresh, immediate), net[p] \ {pkt})
    /\ UNCHANGED budget

(* The network delivers a packet and keeps a copy of it.                    *)
ReceiveDuplicate(p) ==
  \E pkt \in net[p], fresh \in FreshTags, immediate \in BOOLEAN :
    /\ budget.dup > 0
    /\ Become(p, ReceivePacket(sock[p], pkt, fresh, immediate), net[p])
    /\ budget' = [budget EXCEPT !.dup = @ - 1]

Lose(p) ==
  /\ budget.loss > 0
  /\ \E pkt \in net[p] : net' = [net EXCEPT ![p] = @ \ {pkt}]
  /\ budget' = [budget EXCEPT !.loss = @ - 1]
  /\ UNCHANGED sock

(* The process of p ends and a new one takes its place.                     *)
Restart(p) ==
  /\ budget.restart > 0 /\ sock[p].state # "Closed"
  /\ sock' = [sock EXCEPT ![p] = [NewSocket EXCEPT
                 !.accepted = sock[p].accepted, !.delivered = sock[p].delivered,
                 !.lapsed = sock[p].lapsed]]
  /\ budget' = [budget EXCEPT !.restart = @ - 1]
  /\ UNCHANGED net

InitTimer(p) == /\ sock[p].t1_init # Off
                /\ Become(p, OnInitTimerExpiry(sock[p],
                               budget.max_init_retransmits), net[p])
                /\ UNCHANGED budget
CookieTimer(p) == /\ sock[p].t1_cookie # Off
                  /\ Become(p, OnCookieTimerExpiry(sock[p],
                                 budget.max_init_retransmits), net[p])
                  /\ UNCHANGED budget
ShutdownTimer(p) == /\ sock[p].t2_shutdown # Off
                    /\ Become(p, OnShutdownTimerExpiry(sock[p]), net[p])
                    /\ UNCHANGED budget
RtxTimer(p) == /\ sock[p].tcb.t3_rtx
               /\ Become(p, OnRtxTimerExpiry(sock[p]), net[p])
               /\ UNCHANGED budget
DelayedAckTimer(p) == /\ sock[p].tcb.ack_due
                      /\ Become(p, SendSack(sock[p]), net[p])
                      /\ UNCHANGED budget

Application(p) == Connect(p) \/ Shutdown(p) \/ Close(p) \/ SendMessage(p)
Timers(p) == \/ InitTimer(p) \/ CookieTimer(p) \/ ShutdownTimer(p)
             \/ RtxTimer(p) \/ DelayedAckTimer(p)
Environment(p) == ReceiveDuplicate(p) \/ Lose(p) \/ Restart(p)

Next == \E p \in Peers :
          Application(p) \/ Receive(p) \/ Timers(p) \/ Environment(p)

Spec == Init /\ [][Next]_vars

(* A packet arrives or a timer expires that does something (T3-rtx does     *)
(* nothing while the TCB holds a COOKIE ECHO).                              *)
Busy == \E p \in Peers :
  \/ net[p] # {}
  \/ sock[p].t1_init # Off \/ sock[p].t1_cookie # Off \/ sock[p].t2_shutdown # Off
  \/ sock[p].tcb.t3_rtx /\ ~HasCookieEchoChunk(sock[p])
  \/ sock[p].tcb.ack_due

(* Time passes: packets that are not lost arrive, timers that run expire.   *)
(* This is WF_vars(Next /\ Busy), its ENABLED written out; applications and *)
(* the environment act finitely often, so it obliges the sockets alone, and *)
(* it does not say which packet or which timer comes first.                 *)
Fairness == []<>~Busy \/ []<><<TRUE>>_vars
FairSpec == Spec /\ Fairness

(* The members of both sockets and the packets on their way are of their    *)
(* types: counters and timers never go below zero, TSN sets stay within the *)
(* messages Send() took (dcsctp_socket.h, transmission_control_block.h).    *)
TypeOK == /\ sock \in [Peers -> Socket]
          /\ net \in [Peers -> SUBSET Packet]
          /\ budget \in Budget

(***************************************************************************)
(* Properties.                                                             *)
(***************************************************************************)
IsConsistent(s) ==
  LET running(timers) == /\ s.t1_init # Off <=> "t1_init" \in timers
                         /\ s.t1_cookie # Off <=> "t1_cookie" \in timers
                         /\ s.t2_shutdown # Off <=> "t2_shutdown" \in timers
  IN  CASE s.state = "Closed" -> ~HasTcb(s) /\ running({})
        [] s.state = "CookieWait" -> ~HasTcb(s) /\ running({"t1_init"})
        [] s.state = "CookieEchoed" -> /\ HasTcb(s) /\ running({"t1_cookie"})
                                       /\ HasCookieEchoChunk(s)
        [] s.state \in {"Established", "ShutdownPending", "ShutdownReceived"} ->
             HasTcb(s) /\ running({})
        [] OTHER -> HasTcb(s) /\ running({"t2_shutdown"})

(* RTC_DCHECK(IsConsistent()), which ends every public method, ReceivePacket *)
(* and HandleTimeout, in all states: the TCB exists and exactly the timers  *)
(* run that the state calls for.  A COOKIE ECHO that was sent again finds   *)
(* a socket in ShutdownSent, and then this is not so: HandleCookieEcho sets *)
(* Established and leaves T2-shutdown running.                              *)
Consistent == \A p \in Peers : IsConsistent(sock[p])

(* RTC_DCHECK(IsConsistent()) in the states of the handshake: in Closed,     *)
(* CookieWait and CookieEchoed, and in Established as long as there are no  *)
(* calls of Shutdown(), the TCB exists and exactly the timers run that the  *)
(* state calls for, whichever INIT, INIT ACK, COOKIE ECHO and COOKIE ACK    *)
(* cross, get lost or come again, and whichever T1 timer expires meanwhile. *)
HandshakeConsistent == \A p \in Peers :
  \/ sock[p].state \in {"Closed", "CookieWait", "CookieEchoed"}
  \/ sock[p].state = "Established" /\ ShutdownFrom = {}
  => IsConsistent(sock[p])

Armed(s) ==
  /\ s.t1_init # Off <=> s.state = "CookieWait"
  /\ s.t1_cookie # Off <=> s.state = "CookieEchoed"
  /\ s.state = "CookieEchoed" => HasCookieEchoChunk(s)
  /\ s.state \in {"ShutdownSent", "ShutdownAckSent"} => s.t2_shutdown # Off
  /\ HasTcb(s) <=> s.state \notin {"Closed", "CookieWait"}
  /\ s.t2_shutdown # Off => HasTcb(s)

(* A socket that waits for a control chunk of its peer has the timer         *)
(* running that sends its own chunk again or gives up: T1-init in           *)
(* CookieWait, T1-cookie, with the chunk to send, in CookieEchoed,          *)
(* T2-shutdown in ShutdownSent and ShutdownAckSent; the T1 timers run       *)
(* nowhere else (OnInitTimerExpiry and OnCookieTimerExpiry assert their     *)
(* state), and the TCB, which every other handler dereferences, exists      *)
(* exactly from CookieEchoed on.                                            *)
WaitingIsArmed == \A p \in Peers : Armed(sock[p])

(* The handshake, in all its interleavings (simultaneous connects, late and *)
(* repeated INIT, INIT ACK and COOKIE ECHO), leads to one association: when *)
(* both sockets are established and neither has been closed since, each     *)
(* one's verification tag is the one the other puts on its packets.         *)
Agreement ==
  (\A p \in Peers : sock[p].state = "Established" /\ ~sock[p].lapsed)
    => \A p \in Peers : sock[p].tcb.my_tag = sock[Other(p)].tcb.peer_tag

(* A message whose TSN a SACK acknowledged, which the code reports with      *)
(* OnLifecycleMessageDelivered, was passed to the application of the peer.  *)
AckedIsDelivered == \A p \in Peers :
  sock[p].tcb.cum_acked \cup sock[p].tcb.gap_acked
    \subseteq sock[Other(p)].delivered

(* A shutdown that ends with OnClosed has delivered what the application     *)
(* sent: no message is left in the send queue, in flight or waiting to be   *)
(* retransmitted when the socket closes after SHUTDOWN ACK or SHUTDOWN      *)
(* COMPLETE.                                                                *)
ShutdownDeliversAll == [][\A p \in Peers :
  /\ sock[p].state \in {"ShutdownSent", "ShutdownAckSent"}
  /\ sock'[p].state = "Closed" /\ sock'[p].app = "OnClosed"
  => sock[p].tcb.inflight \cup sock[p].tcb.nacked \cup sock[p].send_queue
       \cup sock[p].tcb.to_be_retransmitted = {}]_vars

(* Every attempt to connect comes to an end, in an association or in         *)
(* OnAborted, whatever is lost: the T1 timers see to it.                    *)
HandshakeEnds == \A p \in Peers :
  sock[p].state \in {"CookieWait", "CookieEchoed"}
    ~> sock[p].state \notin {"CookieWait", "CookieEchoed"}

(* Once a shutdown has begun, by Shutdown() or by the peer's SHUTDOWN, the   *)
(* socket ends up closed, by T2-shutdown and T3-rtx giving up if need be.   *)
ShutdownEnds == \A p \in Peers :
  sock[p].state \in {"ShutdownPending", "ShutdownSent", "ShutdownReceived",
                     "ShutdownAckSent"} ~> sock[p].state = "Closed"
=============================================================================
