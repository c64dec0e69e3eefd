----------------------------- MODULE DataTracker -----------------------------
(***************************************************************************)
(* DataTracker (net/dcsctp/rx/data_tracker.cc): which TSNs have been       *)
(* received, kept as a cumulative TSN and a vector of blocks above it, and *)
(* when a SACK is sent and what it says.  Around it, the parts of the      *)
(* socket that call it for every chunk, at the end of a packet and when    *)
(* packets are sent, and the delayed-ack timer.                            *)
(*                                                                         *)
(* The peer numbers its chunks without wrapping; on the wire a TSN is that *)
(* number modulo TsnLimit, and the tracker unwraps it with the             *)
(* SeqNumUnwrapper of rtc_base/numerics.  How full the reassembly queue is *)
(* is chosen anew for every chunk.                                         *)
(***************************************************************************)
EXTENDS Integers, Sequences, FiniteSets

CONSTANTS
  TsnLimit,            \* TSNs are counted modulo this, 2^32 in the code
  GapLimit,            \* gap ack block offsets modulo this, 2^16 in the code
  kMaxAcceptedOutstandingFragments,
  kMaxDuplicateTsnReported,
  kMaxGapAckBlocksReported,
  InitialTsn,          \* the peer's initial TSN, on the wire
  MaxChunks,           \* chunks the peer gets to send
  PeerWindow,          \* how far the peer's chunks may be ahead ...
  NetworkDelay,        \* ... and late duplicates behind the cumulative TSN
  MaxBundle            \* chunks in a packet

\* The unwrapped TSNs.
First == ((InitialTsn - 1) % TsnLimit) + 1
Last == First + MaxChunks - 1

\* TSNs stay within half of their range of each other: what "is not larger
\* than half the range" in sequence_numbers.h asks for.
ASSUME TrackerAssumption ==
  /\ TsnLimit \in Nat \ {0} /\ TsnLimit % 2 = 0
  /\ GapLimit \in Nat \ {0}
  /\ {kMaxAcceptedOutstandingFragments, kMaxDuplicateTsnReported,
      kMaxGapAckBlocksReported, MaxChunks, PeerWindow, NetworkDelay,
      MaxBundle} \subseteq Nat
  /\ InitialTsn \in 0..(TsnLimit - 1)
  /\ 2 * (kMaxAcceptedOutstandingFragments + PeerWindow + NetworkDelay)
       < TsnLimit

VARIABLES
  tracker,  \* the members of the DataTracker, its Timer's is_running_ included
  bundle,   \* chunks of the current packet so far, 0 between packets
  result,   \* what Observe() or HandleForwardTsn() last returned
  sack,     \* the last SACK that was sent
  owed      \* packets that brought something since then

vars == <<tracker, bundle, result, sack, owed>>

------------------------------------------------------------------------------
(* Sequence numbers.                                                       *)

Wrap(tsn) == tsn % TsnLimit

\* Mutant: TSNs do not wrap around.
Delta_NoWrap(last_value, new_value) == new_value - last_value

\* SeqNumUnwrapper::Delta and AheadOrAt; last_value_ is the wrapped form of
\* last_unwrapped_.
Delta(last_value, new_value) ==
  LET diff == (new_value - last_value) % TsnLimit
      ahead == IF 2 * diff = TsnLimit THEN last_value < new_value
               ELSE 2 * diff < TsnLimit
  IN  IF ahead THEN diff ELSE diff - TsnLimit

PeekUnwrap(t, value) == t.last_unwrapped + Delta(Wrap(t.last_unwrapped), value)

------------------------------------------------------------------------------
(* AdditionalTsnBlocks.                                                    *)

Block(first, last) == [first |-> first, last |-> last]

\* std::lower_bound: the index of the first block that does not end before
\* tsn, one more than there are blocks if all of them do.
LowerBound(blocks, tsn) ==
  CHOOSE i \in 1..(Len(blocks) + 1) :
    /\ \A j \in 1..(i - 1) : blocks[j].last < tsn
    /\ i <= Len(blocks) => blocks[i].last >= tsn

\* Mutant: a block that grows up to the next one is not merged with it.
Add_NoMerge(blocks, tsn) ==
  LET it == LowerBound(blocks, tsn - 1)
      before == SubSeq(blocks, 1, it - 1)
      after == SubSeq(blocks, it + 1, Len(blocks))
  IN  IF it > Len(blocks) THEN Append(blocks, Block(tsn, tsn))
      ELSE IF tsn >= blocks[it].first /\ tsn <= blocks[it].last THEN blocks
      ELSE IF blocks[it].last + 1 = tsn THEN [blocks EXCEPT ![it].last = tsn]
      ELSE IF blocks[it].first = tsn + 1 THEN [blocks EXCEPT ![it].first = tsn]
      ELSE before \o <<Block(tsn, tsn), blocks[it]>> \o after

\* Add() returns whether it changes the blocks.
Add(blocks, tsn) ==
  LET it == LowerBound(blocks, tsn - 1)
      before == SubSeq(blocks, 1, it - 1)
      after == SubSeq(blocks, it + 1, Len(blocks))
  IN  IF it > Len(blocks) THEN Append(blocks, Block(tsn, tsn))
      ELSE IF tsn >= blocks[it].first /\ tsn <= blocks[it].last THEN blocks
      ELSE IF blocks[it].last + 1 = tsn
      THEN IF after # <<>> /\ tsn + 1 = Head(after).first
           THEN before \o <<Block(blocks[it].first, Head(after).last)>>
                  \o Tail(after)
           ELSE [blocks EXCEPT ![it].last = tsn]
      ELSE IF blocks[it].first = tsn + 1 THEN [blocks EXCEPT ![it].first = tsn]
      ELSE before \o <<Block(tsn, tsn), blocks[it]>> \o after

\* The first block may be left empty, when tsn is its last TSN.
EraseTo(blocks, tsn) ==
  LET it == LowerBound(blocks, tsn)
      rest == SubSeq(blocks, it, Len(blocks))
  IN  IF rest # <<>> /\ tsn >= Head(rest).first
      THEN [rest EXCEPT ![1].first = tsn + 1]
      ELSE rest

------------------------------------------------------------------------------
(* DataTracker.                                                            *)

UpdateAckState(t, new_state) ==
  [t EXCEPT
     !.ack_state = new_state,
     !.delayed_ack_timer = IF new_state = t.ack_state THEN @
                           ELSE IF t.ack_state = "Delayed" THEN FALSE
                           ELSE @ \/ new_state = "Delayed"]

IsTSNValid(t, tsn) ==
  LET u == PeekUnwrap(t, tsn)
      cum == t.last_cumulative_acked_tsn
  IN  u - cum \in (-kMaxAcceptedOutstandingFragments)
                    ..kMaxAcceptedOutstandingFragments

will_increase_cum_ack_tsn(t, tsn) ==
  PeekUnwrap(t, tsn) = t.last_cumulative_acked_tsn + 1

\* The cumulative TSN moves on over a block that follows it.
FillGap(t) ==
  LET cum == t.last_cumulative_acked_tsn
      blocks == t.additional_tsn_blocks
  IN  IF blocks # <<>> /\ Head(blocks).first = cum + 1
      THEN [t EXCEPT !.last_cumulative_acked_tsn = Head(blocks).last,
                     !.additional_tsn_blocks = Tail(blocks)]
      ELSE t

\* Mutant: the unwrapped TSN is reported.
AddDuplicate_Unwrapped(t, tsn) ==
  IF Cardinality(t.duplicate_tsns) < kMaxDuplicateTsnReported
  THEN [t EXCEPT !.duplicate_tsns = @ \cup {tsn}]
  ELSE t

AddDuplicate(t, tsn) ==
  IF Cardinality(t.duplicate_tsns) < kMaxDuplicateTsnReported
  THEN [t EXCEPT !.duplicate_tsns = @ \cup {Wrap(tsn)}]
  ELSE t

\* Mutant: a second packet does not end the delay.
DelayAck_StillDelayed(t) ==
  IF t.ack_state = "Idle" THEN UpdateAckState(t, "BecomingDelayed") ELSE t

\* The last part of Observe() and of HandleForwardTsn(): every second packet
\* is acknowledged.
DelayAck(t) ==
  CASE t.ack_state = "Idle" -> UpdateAckState(t, "BecomingDelayed")
    [] t.ack_state = "Delayed" -> UpdateAckState(t, "Immediate")
    [] OTHER -> t

\* The part of Observe() that keeps the TSNs, u being unwrapped.
Receive(t, u) ==
  LET cum == t.last_cumulative_acked_tsn
      blocks == Add(t.additional_tsn_blocks, u)
  IN  IF u <= cum THEN AddDuplicate(t, u)
      ELSE IF u = cum + 1
      THEN FillGap([t EXCEPT !.last_cumulative_acked_tsn = u])
      ELSE IF blocks = t.additional_tsn_blocks THEN AddDuplicate(t, u)
      ELSE [t EXCEPT !.additional_tsn_blocks = blocks]

\* Mutant: whether the blocks had the TSN already is not looked at.
IsNew_AboveCum(t, u) == u > t.last_cumulative_acked_tsn

\* What Observe() returns: that it is no duplicate.
IsNew(t, u) ==
  /\ u > t.last_cumulative_acked_tsn
  /\ \/ u = t.last_cumulative_acked_tsn + 1
     \/ Add(t.additional_tsn_blocks, u) # t.additional_tsn_blocks

Observe(t, tsn, immediate_ack) ==
  LET u == PeekUnwrap(t, tsn)
      v == [Receive(t, u) EXCEPT !.last_unwrapped = u, !.seen_packet = TRUE]
  IN  IF \/ u <= t.last_cumulative_acked_tsn
         \/ v.additional_tsn_blocks # <<>>
         \/ immediate_ack
         \/ ~t.seen_packet
      THEN UpdateAckState(v, "Immediate")
      ELSE DelayAck(v)

HandleForwardTsn(t, new_cumulative_ack) ==
  LET u == PeekUnwrap(t, new_cumulative_ack)
      v == [t EXCEPT !.last_unwrapped = u]
      w == [v EXCEPT !.last_cumulative_acked_tsn = u,
                     !.additional_tsn_blocks = EraseTo(@, u)]
  IN  IF u <= t.last_cumulative_acked_tsn THEN UpdateAckState(v, "Immediate")
      ELSE DelayAck(FillGap(w))

\* Mutant: offsets are counted from the TSN after the cumulative one.
CreateGapAckBlocks_FromNext(t) ==
  LET blocks == t.additional_tsn_blocks
      Offset(tsn) == (tsn - t.last_cumulative_acked_tsn - 1) % GapLimit
      n == IF Len(blocks) < kMaxGapAckBlocksReported THEN Len(blocks)
           ELSE kMaxGapAckBlocksReported
  IN  [i \in 1..n |-> Block(Offset(blocks[i].first), Offset(blocks[i].last))]

\* Offsets are cut to 16 bits.
CreateGapAckBlocks(t) ==
  LET blocks == t.additional_tsn_blocks
      Offset(tsn) == (tsn - t.last_cumulative_acked_tsn) % GapLimit
      n == IF Len(blocks) < kMaxGapAckBlocksReported THEN Len(blocks)
           ELSE kMaxGapAckBlocksReported
  IN  [i \in 1..n |-> Block(Offset(blocks[i].first), Offset(blocks[i].last))]

\* The SACK; making it clears duplicate_tsns_.
CreateSelectiveAck(t) ==
  [cum_tsn_ack |-> Wrap(t.last_cumulative_acked_tsn),
   gap_ack_blocks |-> CreateGapAckBlocks(t),
   duplicate_tsns |-> t.duplicate_tsns]

ForceImmediateSack(t) == [t EXCEPT !.ack_state = "Immediate"]

HandleDelayedAckTimerExpiry(t) == UpdateAckState(t, "Immediate")

ObservePacketEnd(t) ==
  IF t.ack_state = "BecomingDelayed" THEN UpdateAckState(t, "Delayed") ELSE t

\* ShouldSendAck() of TransmissionControlBlock's MaybeSendSack(), where the
\* states are {"Immediate"}, and of its SendBufferedPackets(); a SACK is made
\* and sent if it says so.
SendsAck(t, states) == t.ack_state \in states

AfterAck(t) == [UpdateAckState(t, "Idle") EXCEPT !.duplicate_tsns = {}]

------------------------------------------------------------------------------
(* The actions.                                                            *)

NoSack == [cum_tsn_ack |-> Wrap(First - 1), gap_ack_blocks |-> <<>>,
           duplicate_tsns |-> {}]

Init ==
  /\ tracker = [seen_packet |-> FALSE, delayed_ack_timer |-> FALSE,
                ack_state |-> "Idle", last_unwrapped |-> First - 1,
                last_cumulative_acked_tsn |-> First - 1,
                additional_tsn_blocks |-> <<>>, duplicate_tsns |-> {}]
  /\ bundle = 0
  /\ result = FALSE
  /\ sack = NoSack
  /\ owed = [packets |-> 0, current |-> FALSE]

\* TSNs the peer may send, or have sent.
InFlight ==
  LET cum == tracker.last_cumulative_acked_tsn
  IN  {tsn \in First..Last : tsn - cum \in (-NetworkDelay)..PeerWindow}

NextChunk == bundle < MaxBundle /\ bundle' = bundle + 1

\* DcSctpSocket::HandleDataCommon drops a chunk: it has no data, the reassembly
\* queue is full, or the TSN is not valid.
DropData ==
  /\ NextChunk
  /\ UNCHANGED <<tracker, result, sack, owed>>

\* The reassembly queue is above its watermark.
RejectData(tsn) ==
  /\ NextChunk
  /\ ~will_increase_cum_ack_tsn(tracker, Wrap(tsn))
  /\ tracker' = ForceImmediateSack(tracker)
  /\ UNCHANGED <<result, sack, owed>>

\* The reassembly queue takes the chunk, unless it is a duplicate.
HandleData(tsn, immediate_ack) ==
  /\ NextChunk
  /\ IsTSNValid(tracker, Wrap(tsn))
  /\ tracker' = Observe(tracker, Wrap(tsn), immediate_ack)
  /\ result' = IsNew(tracker, PeekUnwrap(tracker, Wrap(tsn)))
  /\ owed' = [owed EXCEPT !.current = TRUE]
  /\ UNCHANGED sack

\* DcSctpSocket::HandleForwardTsnCommon
HandleForwardTsnChunk(tsn) ==
  /\ NextChunk
  /\ tracker' = HandleForwardTsn(tracker, Wrap(tsn))
  /\ result' = (PeekUnwrap(tracker, Wrap(tsn))
                  > tracker.last_cumulative_acked_tsn)
  /\ owed' = [owed EXCEPT !.current = TRUE]
  /\ UNCHANGED sack

\* A SACK is sent if the tracker t asks for one.
MaybeSendSack(t, states) ==
  IF SendsAck(t, states)
  THEN /\ tracker' = AfterAck(t)
       /\ sack' = CreateSelectiveAck(t)
       /\ owed' = [packets |-> 0, current |-> FALSE]
  ELSE /\ tracker' = t
       /\ owed' = [packets |-> owed.packets + (IF owed.current THEN 1 ELSE 0),
                   current |-> FALSE]
       /\ UNCHANGED sack

\* The end of DcSctpSocket::ReceivePacket
PacketEnd ==
  /\ bundle > 0
  /\ bundle' = 0
  /\ MaybeSendSack(ObservePacketEnd(tracker), {"Immediate"})
  /\ UNCHANGED result

\* SendBufferedPackets(), which may come in the middle of a received packet
\* too, when a SACK in it lets data be sent.
SendBufferedPackets ==
  /\ SendsAck(tracker, {"Immediate", "BecomingDelayed", "Delayed"})
  /\ MaybeSendSack(tracker, {"Immediate", "BecomingDelayed", "Delayed"})
  /\ UNCHANGED <<bundle, result>>

\* The timer is not restarted: its max_restarts is 0.
OnDelayedAckTimerExpiry ==
  /\ bundle = 0
  /\ tracker.delayed_ack_timer
  /\ MaybeSendSack(HandleDelayedAckTimerExpiry(
                     [tracker EXCEPT !.delayed_ack_timer = FALSE]),
                   {"Immediate"})
  /\ UNCHANGED <<bundle, result>>

Next ==
  \/ DropData
  \/ \E tsn \in InFlight : RejectData(tsn)
  \/ \E tsn \in InFlight, immediate_ack \in BOOLEAN :
       HandleData(tsn, immediate_ack)
  \/ \E tsn \in InFlight : HandleForwardTsnChunk(tsn)
  \/ PacketEnd
  \/ SendBufferedPackets
  \/ OnDelayedAckTimerExpiry

Spec == Init /\ [][Next]_vars

------------------------------------------------------------------------------
(* Properties.                                                             *)

\* The TSNs that the tracker has received or skipped.
Received(t) ==
  {tsn \in First..Last :
     \/ tsn <= t.last_cumulative_acked_tsn
     \/ \E i \in DOMAIN t.additional_tsn_blocks :
          tsn \in t.additional_tsn_blocks[i].first
                    ..t.additional_tsn_blocks[i].last}

\* The members of the tracker have their types; a duplicate TSN in a SACK is in
\* its wire form.
TypeOK ==
  /\ tracker \in
       [seen_packet : BOOLEAN, delayed_ack_timer : BOOLEAN,
        ack_state : {"Idle", "BecomingDelayed", "Delayed", "Immediate"},
        last_unwrapped : Int, last_cumulative_acked_tsn : Int,
        additional_tsn_blocks : Seq([first : Int, last : Int]),
        duplicate_tsns : SUBSET (0..(TsnLimit - 1))]
  /\ bundle \in 0..MaxBundle
  /\ result \in BOOLEAN
  /\ owed \in [packets : Nat, current : BOOLEAN]

\* "A sorted vector of non-overlapping and non-adjacent blocks", none of them
\* empty and none following the cumulative TSN directly: what the binary
\* searches in Add() and EraseTo() rely on, however gaps open, are filled from
\* either side, merge, or are skipped by a FORWARD-TSN that ends inside a block.
BlocksInOrder ==
  LET blocks == tracker.additional_tsn_blocks
      cum == tracker.last_cumulative_acked_tsn
  IN  \A i \in 1..Len(blocks) :
        /\ blocks[i].first <= blocks[i].last
        /\ blocks[i].first > cum + 1
        /\ \A j \in 1..(i - 1) : blocks[j].last + 1 < blocks[i].first

\* Wrapping is harmless: from wherever the unwrapper was left by late
\* duplicates, rejected chunks and FORWARD-TSNs, every TSN the peer may have in
\* flight is unwrapped to the number the peer gave it.
UnwrapsRight ==
  \A tsn \in InFlight : PeekUnwrap(tracker, Wrap(tsn)) = tsn

\* A SACK tells the peer nothing false: each TSN that the last one
\* acknowledges, by its cumulative TSN or a gap ack block, has been received or
\* skipped.  The peer discards what is acknowledged.
SackIsTrue ==
  LET cum == PeekUnwrap(tracker, sack.cum_tsn_ack)
      Acked(tsn) == \/ tsn <= cum
                    \/ \E i \in DOMAIN sack.gap_ack_blocks :
                         tsn - cum \in sack.gap_ack_blocks[i].first
                                         ..sack.gap_ack_blocks[i].last
  IN  \A tsn \in First..Last : Acked(tsn) => tsn \in Received(tracker)

\* What a SACK says for every window of the peer, with offsets cut to 16 bits: a
\* TSN at or below its cumulative TSN has been received or skipped; one that a
\* gap ack block names has been too, or it stands for a TSN that has been and
\* whose offset, of the same remainder, does not fit.
SackIsTrueInReach ==
  LET cum == PeekUnwrap(tracker, sack.cum_tsn_ack)
      Named(tsn) == \E i \in DOMAIN sack.gap_ack_blocks :
                      tsn - cum \in sack.gap_ack_blocks[i].first
                                      ..sack.gap_ack_blocks[i].last
      OutOfReach(tsn) == \E r \in Received(tracker) :
                           r - cum >= GapLimit /\ (r - tsn) % GapLimit = 0
  IN  \A tsn \in First..Last :
        /\ tsn <= cum => tsn \in Received(tracker)
        /\ Named(tsn) => tsn \in Received(tracker) \/ OutOfReach(tsn)

\* "An acknowledgement SHOULD be generated for at least every second packet":
\* between packets at most one has not been acknowledged, and then the delayed
\* ack timer runs, whatever forced or bundled SACKs came before.
AckedInTime ==
  bundle = 0 =>
    /\ owed.packets <= 1
    /\ owed.packets = 1 => tracker.ack_state = "Delayed" /\ tracker.delayed_ack_timer

\* The tracker implements the set of TSNs it stands for.
TsnSet == INSTANCE ReceivedTsns WITH received <- Received(tracker)
Implements == TsnSet!Spec
=============================================================================
