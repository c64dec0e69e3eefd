------------------------ MODULE MessageTransferProofs ------------------------
(***************************************************************************)
(* The contract of MessageTransfer, proved for every set of messages.  The *)
(* inductive invariant says where the two sides could come apart: a TSN    *)
(* that the receiver was told to skip and never got belongs to a message   *)
(* that was given up, and a message that was given up is not reported as   *)
(* delivered.                                                              *)
(***************************************************************************)
EXTENDS MessageTransfer, TLAPS

\* The types of the variables.
Types ==
  /\ owner \in Seq(MessageIds)
  /\ cum \in 0..Len(owner)
  /\ skipped \in 0..Len(owner)
  /\ data \subseteq 1..Len(owner)
  /\ abandoned \subseteq limited
  /\ DOMAIN ended = MessageIds

\* The receiver has everything the sender counts as acknowledged.
AckedIsThere == \A t \in 1..cum : Has(t)

\* Only what was given up is skipped.
SkippedIsAbandoned == \A t \in 1..skipped : t \in data \/ owner[t] \in abandoned

\* A message ends once, and not as delivered when it was given up.
EndsRight ==
  \A m \in MessageIds :
    /\ ended[m] \in {<<>>, <<"Expired">>, <<"Delivered">>}
    /\ m \in abandoned => ended[m] # <<"Delivered">>

\* The TSNs of a message that was delivered are all acknowledged.
DeliveredIsAcked ==
  \A t \in 1..Len(owner) : ended[owner[t]] = <<"Delivered">> => t <= cum

IInv ==
  /\ Types
  /\ AckedIsThere
  /\ SkippedIsAbandoned
  /\ EndsRight
  /\ DeliveredIsAcked

\* The initial state, in which nothing has been sent.
LEMMA InitIInv == Init => IInv
PROOF
  <1>1. SUFFICES ASSUME Init PROVE IInv
    OBVIOUS
  <1>2. owner = <<>> /\ Len(owner) = 0 /\ owner \in Seq(MessageIds)
    BY <1>1 DEF Init
  <1>3. EndsRight
    BY <1>1, Zenon DEF Init, EndsRight
  <1>4. DOMAIN ended = MessageIds
    BY <1>1, Zenon DEF Init
  <1> QED
    BY <1>1, <1>2, <1>3, <1>4 DEF Init, IInv, Types, AckedIsThere, SkippedIsAbandoned,
       DeliveredIsAcked

\* An event at the sender keeps the invariant.  What it may do to a message
\* depends on how the message stands before the event, so that a message
\* delivered now has no TSN to come, and is not given up later.
LEMMA SenderIInv == IInv /\ Sender => IInv'
PROOF
  <1> SUFFICES ASSUME IInv, Sender PROVE IInv'
    OBVIOUS
  <1>1. owner \in Seq(MessageIds) /\ Len(owner) \in Nat /\ cum \in Nat /\ skipped \in Nat
    BY DEF IInv, Types
  <1>2. owner' \in Seq(MessageIds) /\ Len(owner') \in Nat /\ Len(owner) <= Len(owner')
    BY DEF Sender, AssignTsns
  <1>3. /\ skipped' = skipped /\ data' = data
        /\ cum' \in Int /\ cum <= cum' /\ cum' <= Len(owner')
    BY <1>1, <1>2 DEF Sender, Acknowledge
  <1>4. \A t \in 1..Len(owner) : owner'[t] = owner[t] /\ owner[t] \in MessageIds
    BY <1>1 DEF Sender, AssignTsns
  <1>5. \A t \in 1..Len(owner') : owner'[t] \in MessageIds
    BY <1>2
  <1>6. Types'
    BY <1>1, <1>2, <1>3 DEF IInv, Types, Sender, Abandon
  <1>7. AckedIsThere'
    BY <1>3 DEF AckedIsThere, Has, Sender, Acknowledge
  <1>8. SkippedIsAbandoned'
    <2>1. \A t \in 1..skipped : t \in data \/ owner[t] \in abandoned
      BY DEF IInv, SkippedIsAbandoned
    <2>2. \A t \in 1..skipped : t \in 1..Len(owner)
      BY <1>1 DEF IInv, Types
    <2> QED
      BY <1>3, <1>4, <2>1, <2>2 DEF SkippedIsAbandoned, Sender, Abandon
  <1>9. ASSUME NEW m \in MessageIds
        PROVE  /\ End(m)
               /\ ended[m] \in {<<>>, <<"Expired">>, <<"Delivered">>}
               /\ m \in abandoned => ended[m] # <<"Delivered">>
    BY DEF Sender, IInv, EndsRight
  <1>10. EndsRight'
    <2> SUFFICES ASSUME NEW m \in MessageIds
                 PROVE  /\ ended'[m] \in {<<>>, <<"Expired">>, <<"Delivered">>}
                        /\ m \in abandoned' => ended'[m] # <<"Delivered">>
      BY DEF EndsRight
    <2>1. m \in abandoned' => m \in abandoned \/ ended[m] = <<>>
      BY DEF Sender, Abandon
    <2>2. <<"Expired">> # <<"Delivered">> /\ <<>> # <<"Delivered">>
      OBVIOUS
    <2> QED
      BY <1>9, <2>1, <2>2 DEF End
  <1>11. DeliveredIsAcked'
    <2> SUFFICES ASSUME NEW t \in 1..Len(owner'), ended'[owner'[t]] = <<"Delivered">>
                 PROVE  t <= cum'
      BY DEF DeliveredIsAcked
    <2> DEFINE m == owner'[t]
    <2>1. m \in MessageIds /\ End(m)
      BY <1>5, <1>9
    <2>2. CASE ended'[m] = ended[m]
      <3>1. t \in 1..Len(owner)
        <4>1. SUFFICES ASSUME t \notin 1..Len(owner) PROVE FALSE
          OBVIOUS
        <4>2. t \in (Len(owner) + 1)..Len(owner')
          BY <1>1, <1>2, <4>1
        <4>3. ended[m] = <<>>
          BY <4>2 DEF Sender, AssignTsns
        <4>4. <<>> # <<"Delivered">>
          OBVIOUS
        <4> QED
          BY <2>2, <4>3, <4>4
      <3>2. t <= cum
        BY <1>4, <2>2, <3>1 DEF IInv, DeliveredIsAcked
      <3> QED
        BY <1>1, <1>3, <3>2
    <2>3. CASE ended'[m] # ended[m]
      <3>1. \A u \in 1..Len(owner') : owner'[u] = m => u <= cum'
        BY <2>1, <2>3 DEF End
      <3> QED
        BY <3>1
    <2> QED
      BY <2>2, <2>3
  <1> QED
    BY <1>6, <1>7, <1>8, <1>10, <1>11 DEF IInv

\* A packet keeps the invariant: its FORWARD-TSN was made from messages that
\* were given up.
LEMMA ReceiverIInv == IInv /\ Receiver => IInv'
PROOF
  <1> SUFFICES ASSUME IInv, Receiver PROVE IInv'
    OBVIOUS
  <1>1. /\ skipped \in Nat /\ skipped' \in Nat /\ skipped <= skipped'
        /\ data \subseteq data' /\ owner' = owner /\ abandoned' = abandoned
        /\ cum' = cum /\ ended' = ended /\ cum \in Nat /\ Len(owner) \in Nat
    BY DEF IInv, Types, Receiver
  <1>2. Types'
    BY <1>1 DEF IInv, Types, Receiver
  <1>3. AckedIsThere'
    BY <1>1 DEF IInv, AckedIsThere, Has
  <1>4. SkippedIsAbandoned'
    <2> SUFFICES ASSUME NEW t \in 1..skipped'
                 PROVE  t \in data' \/ owner[t] \in abandoned
      BY <1>1 DEF SkippedIsAbandoned
    <2>1. Has(t) \/ owner[t] \in abandoned
      BY DEF Receiver
    <2>2. t <= skipped => t \in 1..skipped
      BY <1>1
    <2> QED
      BY <1>1, <2>1, <2>2 DEF IInv, SkippedIsAbandoned, Has
  <1>5. EndsRight' /\ DeliveredIsAcked'
    BY <1>1 DEF IInv, EndsRight, DeliveredIsAcked
  <1> QED
    BY <1>2, <1>3, <1>4, <1>5 DEF IInv

\* The two sides never come apart: the invariant holds in every state of every
\* behaviour.
THEOREM TransferInvariant == Spec => []IInv
PROOF
  <1>1. IInv /\ [Next]_vars => IInv'
    <2> SUFFICES ASSUME IInv, [Next]_vars PROVE IInv'
      OBVIOUS
    <2>1. CASE Sender
      BY <2>1, SenderIInv
    <2>2. CASE Receiver
      BY <2>2, ReceiverIInv
    <2>3. CASE UNCHANGED vars
      BY <2>3 DEF vars, IInv, Types, AckedIsThere, Has, SkippedIsAbandoned, EndsRight,
                  DeliveredIsAcked
    <2> QED
      BY <2>1, <2>2, <2>3 DEF Next
  <1> QED
    BY <1>1, InitIInv, PTL DEF Spec

\* OnLifecycleMessageDelivered is only called for a message all of whose
\* fragments the receiver got, whatever was given up around it.
THEOREM DeliveredMessagesAreReceived == Spec => []DeliveredIsReceived
PROOF
  <1>1. IInv => DeliveredIsReceived
    <2> SUFFICES ASSUME IInv, NEW t \in 1..Len(owner), ended[owner[t]] = <<"Delivered">>
                 PROVE  t \in data
      BY DEF DeliveredIsReceived
    <2>1. owner[t] \in MessageIds /\ t \in 1..cum
      BY DEF IInv, Types, DeliveredIsAcked
    <2>2. owner[t] \notin abandoned
      BY <2>1 DEF IInv, EndsRight
    <2>3. Has(t)
      BY <2>1 DEF IInv, AckedIsThere
    <2>4. t <= skipped => t \in 1..skipped
      BY DEF IInv, Types
    <2> QED
      BY <2>2, <2>3, <2>4 DEF IInv, SkippedIsAbandoned, Has
  <1> QED
    BY <1>1, TransferInvariant, PTL

\* A message without a limit loses nothing: what the sender removes of it from
\* its outstanding data has arrived.
THEOREM ReliableMessagesAreReceived == Spec => []ReliableIsReceived
PROOF
  <1>1. IInv => ReliableIsReceived
    <2> SUFFICES ASSUME IInv, NEW t \in 1..cum, owner[t] \notin limited
                 PROVE  t \in data
      BY DEF ReliableIsReceived
    <2>1. owner[t] \notin abandoned
      BY DEF IInv, Types
    <2>2. Has(t)
      BY DEF IInv, AckedIsThere
    <2>3. t <= skipped => t \in 1..skipped
      BY DEF IInv, Types
    <2> QED
      BY <2>1, <2>2, <2>3 DEF IInv, SkippedIsAbandoned, Has
  <1> QED
    BY <1>1, TransferInvariant, PTL
==============================================================================
