------------------------ MODULE OutstandingDataProofs ------------------------
(***************************************************************************)
(* What the methods of OutstandingData do, for every queue that is         *)
(* consistent: the counters stay right, and what becomes of the messages   *)
(* is that some of them are abandoned, as a whole.                         *)
(***************************************************************************)
EXTENDS OutstandingData, FiniteSetTheorems, TLAPS

ItemFields == {"message_id", "data", "lifecycle_id", "max_retransmissions",
               "lifecycle", "ack_state", "nack_count", "num_retransmissions"}

IsRecord(x) == x = [f \in DOMAIN x |-> x[f]]

IsData(data) ==
  /\ IsRecord(data)
  /\ {"size", "is_beginning", "is_end"} \subseteq DOMAIN data
  /\ data.size \in Nat

\* An item that waits to be retransmitted has been nacked: it is not in flight.
IsItem(item) ==
  /\ IsRecord(item) /\ DOMAIN item = ItemFields
  /\ IsData(item.data)
  /\ item.lifecycle \in {"Active", "ToBeRetransmitted", "Abandoned"}
  /\ item.ack_state \in {"Unacked", "Acked", "Nacked"}
  /\ should_be_retransmitted(item) => is_nacked(item)

\* Two states of one chunk.
SameChunk(item, before) ==
  /\ item.message_id = before.message_id
  /\ item.data = before.data
  /\ item.lifecycle_id = before.lifecycle_id

QueueFields ==
  {"last_cumulative_tsn_ack", "highest_tsn", "outstanding_data",
   "unacked_payload_bytes", "unacked_packet_bytes", "unacked_items",
   "to_be_fast_retransmitted", "to_be_retransmitted",
   "stream_reset_breakpoint_tsns", "send_queue", "ended"}

Shape(q) ==
  /\ IsRecord(q) /\ QueueFields \subseteq DOMAIN q
  /\ q.last_cumulative_tsn_ack \in Nat /\ q.highest_tsn \in Nat
  /\ q.last_cumulative_tsn_ack <= q.highest_tsn
  /\ IsRecord(q.outstanding_data)
  /\ Tsns(q) = (q.last_cumulative_tsn_ack + 1)..q.highest_tsn
  /\ \A t \in Tsns(q) : IsItem(q.outstanding_data[t])

\* r is q but for the fields in F.
Frame(r, q, F) ==
  /\ IsRecord(r) /\ DOMAIN r = DOMAIN q
  /\ \A f \in DOMAIN q \ F : r[f] = q[f]

USE HeaderAssumption

------------------------------------------------------------------------------
(* Numbers and sequences.                                                  *)

\* The length and the elements of sequences.
LEMMA LenIs ==
  ASSUME NEW S, NEW seq \in Seq(S)
  PROVE  Len(seq) \in Nat /\ seq \in [1..Len(seq) -> S] /\ DOMAIN seq = 1..Len(seq)
  OBVIOUS

LEMMA ConcatIs ==
  ASSUME NEW S, NEW a \in Seq(S), NEW b \in Seq(S)
  PROVE  /\ a \o b \in Seq(S) /\ Len(a \o b) = Len(a) + Len(b)
         /\ \A i \in 1..(Len(a) + Len(b)) :
              (a \o b)[i] = IF i <= Len(a) THEN a[i] ELSE b[i - Len(a)]
  OBVIOUS

\* A set of natural numbers has a least element: how a loop that counts knows
\* where it stops.
LEMMA LeastNatural ==
  ASSUME NEW T, T \subseteq Nat, T # {}
  PROVE  \E x \in T : \A y \in T : x <= y
<1> DEFINE R == OpToRel(<, Nat)
<1>1. IsWellFoundedOn(R, Nat)
  BY NatLessThanWellFounded, Zenon
<1>2. \A y, x \in Nat : y < x => <<y, x>> \in R
  BY Zenon DEF OpToRel
<1> HIDE DEF R
<1>3. PICK x \in T : \A y \in T : ~(<<y, x>> \in R)
  BY <1>1, WFMin, Zenon
<1>4. ASSUME NEW y \in T PROVE x <= y
  <2>1. x \in Nat /\ y \in Nat
    OBVIOUS
  <2>2. ~(y < x)
    BY <1>2, <1>3, <2>1, Zenon
  <2> QED
    BY <2>1, <2>2
<1> QED
  BY <1>4

\* Division with remainder.
LEMMA Division ==
  ASSUME NEW m \in Nat \ {0}, NEW x \in Int
  PROVE  /\ x % m \in 0..(m - 1)
         /\ x \div m \in Int
         /\ x = m * (x \div m) + (x % m)
  BY SMT

------------------------------------------------------------------------------
(* Sums over finite sets.                                                  *)

\* Of finite sets, one is smallest: how a claim about all of them is proved.
LEMMA SmallestSet ==
  ASSUME NEW C, C # {}, \A s \in C : IsFiniteSet(s)
  PROVE  \E s \in C : \A t \in C : Cardinality(s) <= Cardinality(t)
<1> DEFINE T == {Cardinality(s) : s \in C}
<1>1. T \subseteq Nat /\ T # {}
  BY FS_CardinalityType
<1>2. PICK n \in T : \A k \in T : n <= k
  <2> HIDE DEF T
  <2> QED
    BY <1>1, LeastNatural, Zenon
<1> QED
  BY <1>2

\* Without one of its elements a finite set has one element less.
LEMMA Without ==
  ASSUME NEW S, IsFiniteSet(S), NEW x \in S
  PROVE  /\ IsFiniteSet(S \ {x})
         /\ Cardinality(S) \in Nat /\ Cardinality(S \ {x}) = Cardinality(S) - 1
  BY FS_RemoveElement, FS_CardinalityType

\* g is the function that SumFunctionOnSet(f, S) is computed with.
Pick(s) == CHOOSE x \in s : TRUE
IsSum(g, f, S) ==
  g = [s \in SUBSET S |-> IF s = {} THEN 0 ELSE f[Pick(s)] + g[s \ {Pick(s)}]]

LEMMA PickIn == ASSUME NEW s, s # {} PROVE Pick(s) \in s
  BY DEF Pick

LEMMA SumIs ==
  ASSUME NEW f, NEW S
  PROVE  SumFunctionOnSet(f, S) = (CHOOSE g : IsSum(g, f, S))[S]
  BY DEF SumFunctionOnSet, FoldFunctionOnSet, MapThenFoldSet, IsSum, Pick

\* Such a function exists: it is put together from the small sets up.
LEMMA SumExists ==
  ASSUME NEW f, NEW S, IsFiniteSet(S)
  PROVE  \E g : IsSum(g, f, S)
<1> DEFINE Small(n) == {s \in SUBSET S : Cardinality(s) <= n}
           Step(g, n) == g = [s \in Small(n) |-> IF s = {} THEN 0
                                                ELSE f[Pick(s)] + g[s \ {Pick(s)}]]
           T == {n \in Nat : ~\E g : Step(g, n)}
<1>1. ASSUME NEW s \in SUBSET S
      PROVE  /\ IsFiniteSet(s) /\ Cardinality(s) \in Nat /\ Cardinality(s) <= Cardinality(S)
             /\ s # {} => /\ Pick(s) \in s /\ s \ {Pick(s)} \in SUBSET S
                          /\ Cardinality(s \ {Pick(s)}) = Cardinality(s) - 1
                          /\ Cardinality(s \ {Pick(s)}) \in Nat
  <2>1. IsFiniteSet(s) /\ Cardinality(s) \in Nat /\ Cardinality(s) <= Cardinality(S)
    BY FS_Subset, FS_CardinalityType
  <2>2. ASSUME s # {} PROVE Pick(s) \in s
    BY <2>2, PickIn
  <2>3. ASSUME s # {}
        PROVE  /\ Cardinality(s \ {Pick(s)}) = Cardinality(s) - 1
               /\ Cardinality(s \ {Pick(s)}) \in Nat
    BY <2>1, <2>2, <2>3, Without, FS_CardinalityType
  <2> QED
    BY <2>1, <2>2, <2>3
<1>2. ASSUME T # {} PROVE FALSE
  <2>1. PICK n \in T : \A k \in T : n <= k
    BY <1>2, LeastNatural, Zenon
  <2>2. n \in Nat /\ ~\E g : Step(g, n)
    BY Zenon
  <2>3. CASE n = 0
    <3> DEFINE g == [s \in Small(0) |-> 0]
    <3>1. ASSUME NEW s \in Small(0) PROVE s = {}
      <4>1. s \in SUBSET S /\ Cardinality(s) <= 0
        OBVIOUS
      <4>2. IsFiniteSet(s) /\ Cardinality(s) \in Nat
        BY <1>1, <4>1, Zenon
      <4>3. Cardinality(s) = 0
        BY <4>1, <4>2
      <4> QED
        BY <4>2, <4>3, FS_EmptySet
    <3>2. Step(g, 0)
      BY <3>1
    <3> QED
      BY <2>2, <2>3, <3>2, Zenon
  <2>4. CASE n # 0
    <3>1. n - 1 \in Nat /\ n - 1 \notin T
      <4> HIDE DEF T
      <4> QED
        BY <2>1, <2>2, <2>4
    <3>2. PICK g : Step(g, n - 1)
      BY <3>1, Zenon
    <3> DEFINE h == [s \in Small(n) |->
                       IF Cardinality(s) <= n - 1 THEN g[s]
                       ELSE f[Pick(s)] + g[s \ {Pick(s)}]]
    <3>3. ASSUME NEW s \in Small(n)
          PROVE  h[s] = IF s = {} THEN 0 ELSE f[Pick(s)] + h[s \ {Pick(s)}]
      <4>1. /\ Cardinality(s) \in Nat /\ Cardinality(s) <= n
            /\ s # {} => /\ s \ {Pick(s)} \in SUBSET S
                         /\ Cardinality(s \ {Pick(s)}) = Cardinality(s) - 1
        BY <1>1, Zenon
      <4>2. s # {} => h[s \ {Pick(s)}] = g[s \ {Pick(s)}]
        <5>1. ASSUME s # {}
              PROVE  /\ s \ {Pick(s)} \in Small(n)
                     /\ Cardinality(s \ {Pick(s)}) <= n - 1
          BY <2>2, <4>1, <5>1
        <5> QED
          BY <5>1
      <4>3. CASE s \in Small(n - 1)
        <5>1. h[s] = g[s]
          BY <4>3
        <5>2. g[s] = IF s = {} THEN 0 ELSE f[Pick(s)] + g[s \ {Pick(s)}]
          BY <3>2, <4>3, Zenon
        <5> QED
          BY <4>2, <5>1, <5>2
      <4>4. CASE s \notin Small(n - 1)
        <5>1. ~(Cardinality(s) <= n - 1)
          BY <4>4
        <5>2. s # {}
          <6>1. Cardinality({}) = 0
            BY FS_EmptySet
          <6>2. n \in Nat /\ 0 <= n - 1
            BY <2>2, <2>4
          <6> QED
            BY <5>1, <6>1, <6>2, Zenon
        <5> QED
          BY <4>2, <5>1, <5>2
      <4> QED
        BY <4>3, <4>4
    <3>4. Step(h, n)
      BY <3>3, Zenon
    <3> QED
      BY <2>2, <3>4, Zenon
  <2> QED
    BY <2>3, <2>4
<1>3. Cardinality(S) \in Nat
  BY FS_CardinalityType
<1>4. PICK g : Step(g, Cardinality(S))
  BY <1>2, <1>3, Zenon
<1>5. Small(Cardinality(S)) = SUBSET S
  BY <1>1, Zenon
<1> QED
  BY <1>4, <1>5, Zenon DEF IsSum

\* It is a number, the same whichever element is taken first.
Adds(g, f, S) ==
  \A s \in SUBSET S : g[s] \in Int /\ \A x \in s : g[s] = f[x] + g[s \ {x}]

LEMMA SumSteps ==
  ASSUME NEW f, NEW S, IsFiniteSet(S), \A x \in S : f[x] \in Int, NEW g, IsSum(g, f, S)
  PROVE  Adds(g, f, S)
<1>1. \A s \in SUBSET S : g[s] = IF s = {} THEN 0 ELSE f[Pick(s)] + g[s \ {Pick(s)}]
  BY Zenon DEF IsSum
<1> DEFINE C == {s \in SUBSET S : g[s] \notin Int}
           D == {s \in SUBSET S : \E x \in s : g[s] # f[x] + g[s \ {x}]}
<1>2. \A s \in SUBSET S : IsFiniteSet(s)
  BY FS_Subset
<1>3. ASSUME C # {} PROVE FALSE
  <2>1. PICK s \in C : \A t \in C : Cardinality(s) <= Cardinality(t)
    BY <1>2, <1>3, SmallestSet, Zenon
  <2>2. s \in SUBSET S /\ g[s] \notin Int
    BY <2>1
  <2>3. s # {}
    <3>1. {} \in SUBSET S
      OBVIOUS
    <3>2. g[{}] = 0
      BY <1>1, <3>1, Zenon
    <3> QED
      BY <2>2, <3>2
  <2>4. Pick(s) \in s
    BY <2>3, PickIn
  <2>5. Cardinality(s) \in Nat /\ Cardinality(s \ {Pick(s)}) = Cardinality(s) - 1
    BY <1>2, <2>2, <2>4, Without
  <2>6. g[s \ {Pick(s)}] \in Int
    BY <2>1, <2>2, <2>5
  <2>7. f[Pick(s)] \in Int
    BY <2>2, <2>4
  <2>8. g[s] = f[Pick(s)] + g[s \ {Pick(s)}]
    BY <1>1, <2>2, <2>3, Zenon
  <2> QED
    BY <2>2, <2>6, <2>7, <2>8
<1>4. ASSUME D # {} PROVE FALSE
  <2>1. PICK s \in D : \A t \in D : Cardinality(s) <= Cardinality(t)
    BY <1>2, <1>4, SmallestSet, Zenon
  <2>2. PICK x \in s : g[s] # f[x] + g[s \ {x}]
    BY <2>1
  <2> DEFINE p == Pick(s)
             sp == s \ {p}
             sx == s \ {x}
             r == sx \ {p}
  <2>3. s \in SUBSET S /\ p \in s /\ g[s] = f[p] + g[sp]
    BY <1>1, <2>1, <2>2, PickIn
  <2> HIDE DEF p
  <2>4. x # p
    BY <2>2, <2>3, Zenon
  <2>5. /\ Cardinality(s) \in Nat /\ Cardinality(sp) = Cardinality(s) - 1
        /\ Cardinality(sx) = Cardinality(s) - 1
    BY <1>2, <2>2, <2>3, Without, Zenon
  <2>6. sp \in SUBSET S /\ sx \in SUBSET S /\ sp \notin D /\ sx \notin D
    BY <2>1, <2>3, <2>5
  <2>7. g[sp] = f[x] + g[sp \ {x}] /\ g[sx] = f[p] + g[r]
    BY <2>2, <2>3, <2>4, <2>6, Zenon
  <2>8. sp \ {x} = r /\ r \in SUBSET S
    BY <2>3
  <2>9. f[x] \in Int /\ f[p] \in Int /\ g[r] \in Int
    BY <1>3, <2>2, <2>3, <2>8
  <2>10. g[s] # f[x] + g[sx] /\ g[s] = f[p] + g[sp] /\ g[sp] = f[x] + g[r]
    BY <2>2, <2>3, <2>7, <2>8, Zenon
  <2> HIDE DEF sp, sx, r, C, D
  <2> QED
    BY <2>7, <2>9, <2>10
<1> QED
  BY <1>3, <1>4, Zenon DEF Adds

LEMMA SumUnique ==
  ASSUME NEW f, NEW S, IsFiniteSet(S), NEW g, NEW h, IsSum(g, f, S), IsSum(h, f, S)
  PROVE  g = h
<1> DEFINE C == {s \in SUBSET S : g[s] # h[s]}
<1>1. ASSUME C # {} PROVE FALSE
  <2>1. \A s \in C : IsFiniteSet(s)
    BY FS_Subset
  <2>2. PICK s \in C : \A t \in C : Cardinality(s) <= Cardinality(t)
    BY <1>1, <2>1, SmallestSet, Zenon
  <2>3. s \in SUBSET S /\ g[s] # h[s]
    BY <2>2
  <2>4. /\ g[s] = IF s = {} THEN 0 ELSE f[Pick(s)] + g[s \ {Pick(s)}]
        /\ h[s] = IF s = {} THEN 0 ELSE f[Pick(s)] + h[s \ {Pick(s)}]
    BY <2>3, Zenon DEF IsSum
  <2>5. s # {} /\ g[s \ {Pick(s)}] # h[s \ {Pick(s)}]
    BY <2>3, <2>4
  <2>6. Cardinality(s) \in Nat /\ Cardinality(s \ {Pick(s)}) = Cardinality(s) - 1
    BY <2>1, <2>2, <2>5, PickIn, Without
  <2>7. s \ {Pick(s)} \in C
    BY <2>3, <2>5
  <2> QED
    BY <2>2, <2>6, <2>7
<1>2. \A s \in SUBSET S : g[s] = h[s]
  BY <1>1
<1>3. /\ g = [s \in SUBSET S |-> g[s]]
      /\ h = [s \in SUBSET S |-> h[s]]
  BY DEF IsSum
<1> QED
  BY <1>2, <1>3, Zenon

\* One function gives the sums over all parts of S.
LEMMA SumOfParts ==
  ASSUME NEW f, NEW S, IsFiniteSet(S), NEW g, IsSum(g, f, S), NEW T \in SUBSET S
  PROVE  SumFunctionOnSet(f, T) = g[T]
<1> DEFINE h == [s \in SUBSET T |-> g[s]]
<1>1. IsFiniteSet(T)
  BY FS_Subset
<1>2. ASSUME NEW s \in SUBSET T
      PROVE  h[s] = IF s = {} THEN 0 ELSE f[Pick(s)] + h[s \ {Pick(s)}]
  <2>1. s \in SUBSET S /\ s \ {Pick(s)} \in SUBSET T
    OBVIOUS
  <2>2. g[s] = IF s = {} THEN 0 ELSE f[Pick(s)] + g[s \ {Pick(s)}]
    BY <2>1, Zenon DEF IsSum
  <2> QED
    BY <2>1, <2>2
<1>3. IsSum(h, f, T)
  BY <1>2, Zenon DEF IsSum
<1> DEFINE c == CHOOSE k : IsSum(k, f, T)
<1>4. IsSum(c, f, T)
  BY <1>3
<1>5. c = h
  <2> HIDE DEF c, h
  <2> QED
    BY <1>1, <1>3, <1>4, SumUnique
<1>6. SumFunctionOnSet(f, T) = c[T]
  BY SumIs
<1> HIDE DEF c
<1> QED
  BY <1>5, <1>6

LEMMA SumEmpty == ASSUME NEW f PROVE SumFunctionOnSet(f, {}) = 0
<1>1. IsFiniteSet({})
  BY FS_EmptySet
<1>2. PICK g : IsSum(g, f, {})
  BY <1>1, SumExists
<1>3. SumFunctionOnSet(f, {}) = g[{}]
  BY <1>1, <1>2, SumOfParts
<1> QED
  BY <1>2, <1>3 DEF IsSum

\* Adding an element.
LEMMA SumAdd ==
  ASSUME NEW f, NEW S, IsFiniteSet(S), NEW x, x \notin S,
         \A y \in S \cup {x} : f[y] \in Int
  PROVE  /\ SumFunctionOnSet(f, S \cup {x}) = f[x] + SumFunctionOnSet(f, S)
         /\ SumFunctionOnSet(f, S) \in Int
<1> DEFINE U == S \cup {x}
<1>1. IsFiniteSet(U) /\ S \in SUBSET U /\ U \in SUBSET U /\ U \ {x} = S /\ x \in U
  BY FS_AddElement
<1> HIDE DEF U
<1>2. PICK g : IsSum(g, f, U)
  BY <1>1, SumExists
<1>3. SumFunctionOnSet(f, U) = g[U] /\ SumFunctionOnSet(f, S) = g[S]
  BY <1>1, <1>2, SumOfParts
<1>4. \A y \in U : f[y] \in Int
  BY DEF U
<1>5. g[U] = f[x] + g[S] /\ g[S] \in Int
  <2>1. Adds(g, f, U)
    BY <1>1, <1>2, <1>4, SumSteps
  <2>2. g[U] = f[x] + g[U \ {x}]
    BY <1>1, <2>1 DEF Adds
  <2> QED
    BY <1>1, <2>1, <2>2, Zenon DEF Adds
<1> QED
  BY <1>3, <1>5 DEF U

\* A sum of natural numbers is one, a sum of integers an integer.
LEMMA SumType ==
  ASSUME NEW f, NEW S, IsFiniteSet(S), \A y \in S : f[y] \in Int
  PROVE  /\ SumFunctionOnSet(f, S) \in Int
         /\ (\A y \in S : f[y] >= 0) => SumFunctionOnSet(f, S) >= 0
<1> DEFINE Bad(s) == ~(/\ SumFunctionOnSet(f, s) \in Int
                       /\ (\A y \in S : f[y] >= 0) => SumFunctionOnSet(f, s) >= 0)
           C == {s \in SUBSET S : Bad(s)}
<1>1. ASSUME C # {} PROVE FALSE
  <2>1. \A s \in C : IsFiniteSet(s)
    BY FS_Subset
  <2>2. PICK s \in C : \A t \in C : Cardinality(s) <= Cardinality(t)
    <3> HIDE DEF C
    <3> QED
      BY <1>1, <2>1, SmallestSet
  <2>3. s \in SUBSET S /\ Bad(s)
    OBVIOUS
  <2>4. s # {}
    BY <2>3, SumEmpty
  <2>5. PICK x \in s : TRUE
    BY <2>4
  <2> DEFINE r == s \ {x}
  <2>6. /\ Cardinality(s) \in Nat /\ Cardinality(r) = Cardinality(s) - 1
        /\ IsFiniteSet(r)
    BY <2>1, <2>2, Without
  <2>7. r \in SUBSET S /\ x \notin r /\ r \cup {x} = s
    BY <2>3
  <2>8. ~Bad(r)
    BY <2>2, <2>6, <2>7
  <2>9. SumFunctionOnSet(f, s) = f[x] + SumFunctionOnSet(f, r) /\ f[x] \in Int
    <3> HIDE DEF r
    <3>1. \A y \in r \cup {x} : f[y] \in Int
      BY <2>3, <2>7
    <3>2. SumFunctionOnSet(f, r \cup {x}) = f[x] + SumFunctionOnSet(f, r)
      BY <2>6, <2>7, <3>1, SumAdd
    <3> QED
      BY <2>7, <3>1, <3>2, Zenon
  <2> QED
    BY <2>3, <2>8, <2>9
<1>2. ~Bad(S)
  BY <1>1
<1> QED
  BY <1>2

\* Sums over disjoint sets.
LEMMA SumDisjoint ==
  ASSUME NEW f, NEW A, NEW B, IsFiniteSet(A), IsFiniteSet(B), A \cap B = {},
         \A y \in A \cup B : f[y] \in Int
  PROVE  SumFunctionOnSet(f, A \cup B) = SumFunctionOnSet(f, A) + SumFunctionOnSet(f, B)
<1> DEFINE Bad(s) == SumFunctionOnSet(f, A \cup s)
                       # SumFunctionOnSet(f, A) + SumFunctionOnSet(f, s)
           C == {s \in SUBSET B : Bad(s)}
<1>1. ASSUME C # {} PROVE FALSE
  <2>1. \A s \in C : IsFiniteSet(s)
    BY FS_Subset
  <2>2. PICK s \in C : \A t \in C : Cardinality(s) <= Cardinality(t)
    <3> HIDE DEF C
    <3> QED
      BY <1>1, <2>1, SmallestSet
  <2>3. s \in SUBSET B /\ Bad(s) /\ IsFiniteSet(s)
    BY <2>1
  <2>4. SumFunctionOnSet(f, A) \in Int
    BY SumType
  <2>5. s # {}
    <3>1. ASSUME s = {} PROVE FALSE
      <4>1. A \cup s = A
        BY <3>1
      <4> QED
        BY <2>3, <2>4, <3>1, <4>1, SumEmpty
    <3> QED
      BY <3>1
  <2>6. PICK x \in s : TRUE
    BY <2>5
  <2> DEFINE r == s \ {x}
             Ar == A \cup r
  <2>7. /\ Cardinality(s) \in Nat /\ Cardinality(r) = Cardinality(s) - 1
        /\ IsFiniteSet(r) /\ IsFiniteSet(Ar)
    BY <2>3, Without, FS_Union, Zenon
  <2>8. /\ r \in SUBSET B /\ x \notin r /\ x \notin Ar /\ r \cup {x} = s
        /\ Ar \cup {x} = A \cup s
        /\ (\A y \in r \cup {x} : f[y] \in Int) /\ (\A y \in Ar \cup {x} : f[y] \in Int)
    BY <2>3
  <2>9. ~Bad(r)
    BY <2>2, <2>7, <2>8
  <2>10. SumFunctionOnSet(f, Ar) = SumFunctionOnSet(f, A) + SumFunctionOnSet(f, r)
    BY <2>9
  <2> HIDE DEF r, Ar
  <2>11. /\ SumFunctionOnSet(f, r \cup {x}) = f[x] + SumFunctionOnSet(f, r)
         /\ SumFunctionOnSet(f, r) \in Int
    BY <2>7, <2>8, SumAdd
  <2>12. SumFunctionOnSet(f, Ar \cup {x}) = f[x] + SumFunctionOnSet(f, Ar)
    BY <2>7, <2>8, SumAdd
  <2>13. f[x] \in Int
    BY <2>8
  <2>14. /\ SumFunctionOnSet(f, s) = f[x] + SumFunctionOnSet(f, r)
         /\ SumFunctionOnSet(f, A \cup s) = f[x] + SumFunctionOnSet(f, Ar)
         /\ SumFunctionOnSet(f, A \cup s) # SumFunctionOnSet(f, A) + SumFunctionOnSet(f, s)
    BY <2>3, <2>8, <2>11, <2>12, Zenon
  <2> HIDE DEF C
  <2> QED
    BY <2>4, <2>10, <2>11, <2>13, <2>14
<1>2. B \in SUBSET B /\ ~Bad(B)
  BY <1>1, Zenon
<1> QED
  BY <1>2

\* The sum depends on the summands only.
LEMMA SumSame ==
  ASSUME NEW f, NEW g, NEW S, IsFiniteSet(S), \A y \in S : f[y] \in Int /\ g[y] = f[y]
  PROVE  SumFunctionOnSet(g, S) = SumFunctionOnSet(f, S)
<1> DEFINE C == {s \in SUBSET S : SumFunctionOnSet(g, s) # SumFunctionOnSet(f, s)}
<1>1. ASSUME C # {} PROVE FALSE
  <2>1. \A s \in C : IsFiniteSet(s)
    BY FS_Subset
  <2>2. PICK s \in C : \A t \in C : Cardinality(s) <= Cardinality(t)
    <3> HIDE DEF C
    <3> QED
      BY <1>1, <2>1, SmallestSet
  <2>3. s \in SUBSET S /\ SumFunctionOnSet(g, s) # SumFunctionOnSet(f, s) /\ IsFiniteSet(s)
    BY <2>1
  <2>4. s # {}
    BY <2>3, SumEmpty
  <2>5. PICK x \in s : TRUE
    BY <2>4
  <2> DEFINE r == s \ {x}
  <2>6. /\ Cardinality(s) \in Nat /\ Cardinality(r) = Cardinality(s) - 1
        /\ IsFiniteSet(r)
    BY <2>3, Without
  <2>7. /\ r \in SUBSET S /\ x \notin r /\ r \cup {x} = s
        /\ (\A y \in r \cup {x} : f[y] \in Int) /\ (\A y \in r \cup {x} : g[y] \in Int)
        /\ f[x] = g[x]
    BY <2>3
  <2>8. SumFunctionOnSet(g, r) = SumFunctionOnSet(f, r)
    BY <2>2, <2>6, <2>7
  <2> HIDE DEF r
  <2>9. /\ SumFunctionOnSet(f, r \cup {x}) = f[x] + SumFunctionOnSet(f, r)
        /\ SumFunctionOnSet(g, r \cup {x}) = g[x] + SumFunctionOnSet(g, r)
    BY <2>6, <2>7, SumAdd
  <2> QED
    BY <2>3, <2>7, <2>8, <2>9
<1>2. S \in SUBSET S /\ S \notin C
  BY <1>1
<1> QED
  BY <1>2

------------------------------------------------------------------------------
(* Items.                                                                  *)

LEMMA AckIs ==
  ASSUME NEW item, IsItem(item)
  PROVE  /\ IsItem(Ack(item)) /\ SameChunk(Ack(item), item) /\ is_acked(Ack(item))
         /\ is_abandoned(Ack(item)) <=> is_abandoned(item)
         /\ ~should_be_retransmitted(Ack(item)) /\ ~is_outstanding(Ack(item))
  BY Zenon DEF IsItem, IsRecord, ItemFields, SameChunk, Ack, is_acked, is_abandoned,
     should_be_retransmitted, is_outstanding, is_nacked

------------------------------------------------------------------------------
(* Counting what is in flight.                                             *)

Unacked(q) == {t \in Tsns(q) : is_outstanding(q.outstanding_data[t])}

Counted(q) ==
  /\ q.unacked_payload_bytes = PayloadBytes(q, Unacked(q))
  /\ q.unacked_packet_bytes = PacketBytes(q, Unacked(q))
  /\ q.unacked_items = Cardinality(Unacked(q))

Marked(q) ==
  /\ q.to_be_retransmitted \cup q.to_be_fast_retransmitted
       = {t \in Tsns(q) : should_be_retransmitted(q.outstanding_data[t])}
  /\ q.to_be_retransmitted \cap q.to_be_fast_retransmitted = {}

Sane(q) == Shape(q) /\ Counted(q) /\ Marked(q)

LEMMA SaneIsConsistent ==
  ASSUME NEW q, Sane(q)
  PROVE  IsConsistent(q)
  BY DEF Sane, Counted, Marked, IsConsistent, Unacked

LEMMA TsnsFinite ==
  ASSUME NEW q, Shape(q), NEW S, S \subseteq Tsns(q)
  PROVE  IsFiniteSet(S) /\ Cardinality(S) \in Nat
<1>1. IsFiniteSet(Tsns(q))
  <2>1. q.last_cumulative_tsn_ack + 1 \in Int /\ q.highest_tsn \in Int
    BY DEF Shape
  <2> QED
    BY <2>1, FS_Interval, Zenon DEF Shape
<1> QED
  BY <1>1, FS_Subset, FS_CardinalityType

LEMMA BytesType ==
  ASSUME NEW q, Shape(q), NEW S, S \subseteq Tsns(q)
  PROVE  PayloadBytes(q, S) \in Int /\ PacketBytes(q, S) \in Int
<1> DEFINE f == [t \in Tsns(q) |-> q.outstanding_data[t].data.size]
           g == [t \in Tsns(q) |-> GetSerializedChunkSize(q.outstanding_data[t])]
<1>1. \A t \in S : f[t] \in Int /\ g[t] \in Int
  BY DEF Shape, IsItem, IsData, GetSerializedChunkSize
<1>2. IsFiniteSet(S)
  BY TsnsFinite
<1>3. PayloadBytes(q, S) = SumFunctionOnSet(f, S) /\ PacketBytes(q, S) = SumFunctionOnSet(g, S)
  BY DEF PayloadBytes, PacketBytes
<1> HIDE DEF f, g
<1> QED
  BY <1>1, <1>2, <1>3, SumType

\* The bytes of two sets of chunks.
LEMMA BytesDisjoint ==
  ASSUME NEW q, Shape(q), NEW A, NEW B, A \cup B \subseteq Tsns(q), A \cap B = {}
  PROVE  /\ PayloadBytes(q, A \cup B) = PayloadBytes(q, A) + PayloadBytes(q, B)
         /\ PacketBytes(q, A \cup B) = PacketBytes(q, A) + PacketBytes(q, B)
         /\ Cardinality(A \cup B) = Cardinality(A) + Cardinality(B)
<1> DEFINE f == [t \in Tsns(q) |-> q.outstanding_data[t].data.size]
           g == [t \in Tsns(q) |-> GetSerializedChunkSize(q.outstanding_data[t])]
<1>1. \A t \in A \cup B : f[t] \in Int /\ g[t] \in Int
  BY DEF Shape, IsItem, IsData, GetSerializedChunkSize
<1>2. IsFiniteSet(A) /\ IsFiniteSet(B)
  BY TsnsFinite
<1>3. \A S : /\ PayloadBytes(q, S) = SumFunctionOnSet(f, S)
             /\ PacketBytes(q, S) = SumFunctionOnSet(g, S)
  BY DEF PayloadBytes, PacketBytes
<1> HIDE DEF f, g
<1>4. SumFunctionOnSet(f, A \cup B) = SumFunctionOnSet(f, A) + SumFunctionOnSet(f, B)
  BY <1>1, <1>2, SumDisjoint
<1>5. SumFunctionOnSet(g, A \cup B) = SumFunctionOnSet(g, A) + SumFunctionOnSet(g, B)
  BY <1>1, <1>2, SumDisjoint
<1>6. Cardinality(A \cup B) = Cardinality(A) + Cardinality(B)
  <2>1. Cardinality(A \cup B) = Cardinality(A) + Cardinality(B) - Cardinality(A \cap B)
    BY <1>2, FS_Union
  <2>2. Cardinality(A \cap B) = 0 /\ Cardinality(A) \in Nat /\ Cardinality(B) \in Nat
    BY <1>2, FS_EmptySet, FS_CardinalityType, Zenon
  <2> QED
    BY <2>1, <2>2
<1> QED
  BY <1>3, <1>4, <1>5, <1>6

\* The same chunks have the same bytes in two states of the queue.
LEMMA BytesSame ==
  ASSUME NEW q, NEW r, Shape(q), Shape(r), NEW S, S \subseteq Tsns(q), S \subseteq Tsns(r),
         \A t \in S : r.outstanding_data[t].data = q.outstanding_data[t].data
  PROVE  PayloadBytes(r, S) = PayloadBytes(q, S) /\ PacketBytes(r, S) = PacketBytes(q, S)
<1> DEFINE f == [t \in Tsns(q) |-> q.outstanding_data[t].data.size]
           g == [t \in Tsns(q) |-> GetSerializedChunkSize(q.outstanding_data[t])]
           f1 == [t \in Tsns(r) |-> r.outstanding_data[t].data.size]
           g1 == [t \in Tsns(r) |-> GetSerializedChunkSize(r.outstanding_data[t])]
<1>1. \A t \in S : f[t] \in Int /\ g[t] \in Int /\ f1[t] = f[t] /\ g1[t] = g[t]
  <2> SUFFICES ASSUME NEW t \in S
               PROVE  f[t] \in Int /\ g[t] \in Int /\ f1[t] = f[t] /\ g1[t] = g[t]
    BY Zenon
  <2>1. q.outstanding_data[t].data.size \in Nat
    BY DEF Shape, IsItem, IsData
  <2> QED
    BY <2>1 DEF GetSerializedChunkSize
<1>2. IsFiniteSet(S)
  BY TsnsFinite
<1>3. /\ PayloadBytes(q, S) = SumFunctionOnSet(f, S) /\ PacketBytes(q, S) = SumFunctionOnSet(g, S)
      /\ PayloadBytes(r, S) = SumFunctionOnSet(f1, S) /\ PacketBytes(r, S) = SumFunctionOnSet(g1, S)
  BY DEF PayloadBytes, PacketBytes
<1> HIDE DEF f, g, f1, g1
<1>4. SumFunctionOnSet(f1, S) = SumFunctionOnSet(f, S)
  BY <1>1, <1>2, SumSame
<1>5. SumFunctionOnSet(g1, S) = SumFunctionOnSet(g, S)
  BY <1>1, <1>2, SumSame
<1> QED
  BY <1>3, <1>4, <1>5

\* Chunks leave the flight.
LEMMA Leave ==
  ASSUME NEW q, NEW r, Shape(q), Shape(r), Counted(q), NEW X, X \subseteq Unacked(q),
         Unacked(r) = Unacked(q) \ X,
         \A t \in Unacked(r) : r.outstanding_data[t].data = q.outstanding_data[t].data,
         r.unacked_payload_bytes = q.unacked_payload_bytes + (-1) * PayloadBytes(q, X),
         r.unacked_packet_bytes = q.unacked_packet_bytes + (-1) * PacketBytes(q, X),
         r.unacked_items = q.unacked_items + (-1) * Cardinality(X)
  PROVE  Counted(r)
<1> DEFINE R == Unacked(q) \ X
<1>1. R \cup X \subseteq Tsns(q) /\ R \cap X = {} /\ R \cup X = Unacked(q) /\ R \subseteq Tsns(q)
      /\ R \subseteq Tsns(r) /\ R = Unacked(r) /\ X \subseteq Tsns(q)
  BY DEF Unacked
<1> HIDE DEF R
<1>2. /\ PayloadBytes(q, Unacked(q)) = PayloadBytes(q, R) + PayloadBytes(q, X)
      /\ PacketBytes(q, Unacked(q)) = PacketBytes(q, R) + PacketBytes(q, X)
      /\ Cardinality(Unacked(q)) = Cardinality(R) + Cardinality(X)
  BY <1>1, BytesDisjoint
<1>3. PayloadBytes(r, R) = PayloadBytes(q, R) /\ PacketBytes(r, R) = PacketBytes(q, R)
  BY <1>1, BytesSame
<1>4. /\ PayloadBytes(q, R) \in Int /\ PacketBytes(q, R) \in Int /\ Cardinality(R) \in Int
      /\ PayloadBytes(q, X) \in Int /\ PacketBytes(q, X) \in Int /\ Cardinality(X) \in Int
  BY <1>1, BytesType, TsnsFinite
<1> QED
  BY <1>1, <1>2, <1>3, <1>4 DEF Counted

\* Chunks come into flight.
LEMMA Enter ==
  ASSUME NEW q, NEW r, Shape(q), Shape(r), Counted(q), NEW X, X \subseteq Tsns(r),
         X \cap Unacked(q) = {}, Unacked(r) = Unacked(q) \cup X,
         \A t \in Unacked(q) : r.outstanding_data[t].data = q.outstanding_data[t].data,
         r.unacked_payload_bytes = q.unacked_payload_bytes + 1 * PayloadBytes(r, X),
         r.unacked_packet_bytes = q.unacked_packet_bytes + 1 * PacketBytes(r, X),
         r.unacked_items = q.unacked_items + 1 * Cardinality(X)
  PROVE  Counted(r)
<1> DEFINE R == Unacked(q)
<1>1. R \cup X \subseteq Tsns(r) /\ R \cap X = {} /\ R \cup X = Unacked(r) /\ R \subseteq Tsns(q)
      /\ R \subseteq Tsns(r) /\ R = Unacked(q)
  BY DEF Unacked
<1> HIDE DEF R
<1>2. /\ PayloadBytes(r, Unacked(r)) = PayloadBytes(r, R) + PayloadBytes(r, X)
      /\ PacketBytes(r, Unacked(r)) = PacketBytes(r, R) + PacketBytes(r, X)
      /\ Cardinality(Unacked(r)) = Cardinality(R) + Cardinality(X)
  BY <1>1, BytesDisjoint
<1>3. PayloadBytes(r, R) = PayloadBytes(q, R) /\ PacketBytes(r, R) = PacketBytes(q, R)
  BY <1>1, BytesSame
<1>4. /\ PayloadBytes(q, R) \in Int /\ PacketBytes(q, R) \in Int /\ Cardinality(R) \in Int
      /\ PayloadBytes(r, X) \in Int /\ PacketBytes(r, X) \in Int /\ Cardinality(X) \in Int
  BY <1>1, BytesType, TsnsFinite
<1> QED
  BY <1>1, <1>2, <1>3, <1>4 DEF Counted

\* The flight stays as it is.
LEMMA Stay ==
  ASSUME NEW q, NEW r, Shape(q), Shape(r), Counted(q), Unacked(r) = Unacked(q),
         \A t \in Unacked(q) : r.outstanding_data[t].data = q.outstanding_data[t].data,
         r.unacked_payload_bytes = q.unacked_payload_bytes,
         r.unacked_packet_bytes = q.unacked_packet_bytes,
         r.unacked_items = q.unacked_items
  PROVE  Counted(r)
<1> DEFINE R == Unacked(q)
<1>1. R \subseteq Tsns(q) /\ R \subseteq Tsns(r) /\ R = Unacked(q) /\ R = Unacked(r)
  BY DEF Unacked
<1> HIDE DEF R
<1>2. PayloadBytes(r, R) = PayloadBytes(q, R) /\ PacketBytes(r, R) = PacketBytes(q, R)
  BY <1>1, BytesSame
<1> QED
  BY <1>1, <1>2 DEF Counted

\* What CountUnacked() does to the record.
LEMMA CountUnackedIs ==
  ASSUME NEW q, Shape(q), NEW tsns, NEW sign
  PROVE  LET r == CountUnacked(q, tsns, sign)
         IN  /\ Frame(r, q, {"unacked_payload_bytes", "unacked_packet_bytes", "unacked_items"})
             /\ r.unacked_payload_bytes = q.unacked_payload_bytes + sign * PayloadBytes(q, tsns)
             /\ r.unacked_packet_bytes = q.unacked_packet_bytes + sign * PacketBytes(q, tsns)
             /\ r.unacked_items = q.unacked_items + sign * Cardinality(tsns)
  BY Zenon DEF Shape, IsRecord, QueueFields, Frame, CountUnacked

------------------------------------------------------------------------------
(* The largest element of a set.                                           *)

LEMMA MaxOf ==
  ASSUME NEW S, S \subseteq Nat, NEW b \in Nat, \A x \in S : x <= b, S # {}
  PROVE  Max(S) \in S /\ \A x \in S : x <= Max(S)
<1> DEFINE T == {b - x : x \in S}
<1>1. T \subseteq Nat /\ T # {}
  <2>1. PICK x \in S : TRUE
    BY Zenon
  <2>2. b - x \in T
    OBVIOUS
  <2> QED
    BY <2>2
<1>2. PICK d \in T : \A y \in T : d <= y
  <2> HIDE DEF T
  <2> QED
    BY <1>1, LeastNatural, Zenon
<1>3. PICK m \in S : d = b - m
  OBVIOUS
<1>4. \A x \in S : m >= x
  <2> TAKE x \in S
  <2>1. b - x \in T
    OBVIOUS
  <2>2. b - m <= b - x
    BY <1>2, <1>3, <2>1, Zenon
  <2> QED
    BY <2>2
<1>5. Max(S) \in S /\ \A x \in S : Max(S) >= x
  BY <1>3, <1>4, Zenon DEF Max
<1> QED
  BY <1>5

LEMMA MinOf ==
  ASSUME NEW S, S \subseteq Nat, S # {}
  PROVE  Min(S) \in S /\ \A x \in S : Min(S) <= x
<1>1. PICK m \in S : \A y \in S : m <= y
  BY LeastNatural, Zenon
<1> QED
  BY <1>1, Zenon DEF Min

LEMMA MinOfTwo ==
  ASSUME NEW a \in Int, NEW b \in Int
  PROVE  Min({a, b}) = IF a <= b THEN a ELSE b
<1> DEFINE m == IF a <= b THEN a ELSE b
<1>1. m \in {a, b} /\ \A x \in {a, b} : m <= x
  OBVIOUS
<1>2. \A n \in {a, b} : (\A x \in {a, b} : n <= x) => n = m
  OBVIOUS
<1> HIDE DEF m
<1>3. Min({a, b}) \in {a, b} /\ \A x \in {a, b} : Min({a, b}) <= x
  BY <1>1, Zenon DEF Min
<1> QED
  BY <1>2, <1>3 DEF m

------------------------------------------------------------------------------
(* Abandoning messages.                                                    *)

\* From q to r the messages ms were abandoned: all their chunks, what was left of
\* them in the send queue, and for this a placeholder at the end.
Abandons(r, q, ms) ==
  /\ r.last_cumulative_tsn_ack = q.last_cumulative_tsn_ack
  /\ q.highest_tsn <= r.highest_tsn
  /\ \A m \in ms : \E t \in Tsns(q) : q.outstanding_data[t].message_id = m
  /\ \A t \in Tsns(q) :
       /\ SameChunk(r.outstanding_data[t], q.outstanding_data[t])
       /\ is_abandoned(r.outstanding_data[t]) <=>
            is_abandoned(q.outstanding_data[t]) \/ q.outstanding_data[t].message_id \in ms
  /\ \A t \in Tsns(r) : t \notin Tsns(q) =>
       /\ is_abandoned(r.outstanding_data[t])
       /\ ~r.outstanding_data[t].lifecycle_id
       /\ r.outstanding_data[t].message_id \in ms
       /\ Unsent(q, r.outstanding_data[t].message_id)
  /\ DOMAIN r.send_queue = DOMAIN q.send_queue \ ms
  /\ \A m \in DOMAIN q.send_queue \ ms : r.send_queue[m] = q.send_queue[m]
  /\ DOMAIN r.ended = DOMAIN q.ended
  /\ \A m \in DOMAIN q.ended :
       r.ended[m] = IF m \in ms /\ Unsent(q, m) THEN Append(q.ended[m], "Expired")
                    ELSE q.ended[m]

AbandonFields == {"highest_tsn", "outstanding_data", "to_be_fast_retransmitted",
                  "to_be_retransmitted", "send_queue", "ended"}

\* AbandonAllFor() keeps the bookkeeping right, whichever chunks it is called for.
LEMMA AbandonAllForIs ==
  \A q, tsns :
       /\ Sane(q)
       /\ tsns \subseteq Tsns(q)
    => LET r == AbandonAllFor(q, tsns)
       IN  /\ Sane(r) /\ Frame(r, q, AbandonFields)
           /\ Abandons(r, q, {q.outstanding_data[t].message_id : t \in tsns})
           /\ r.to_be_fast_retransmitted \subseteq q.to_be_fast_retransmitted
<1>1. ASSUME NEW item, IsItem(item)
      PROVE  LET r == [item EXCEPT !.lifecycle = "Abandoned"]
             IN  /\ IsItem(r) /\ SameChunk(r, item) /\ r.ack_state = item.ack_state
                 /\ is_abandoned(r) /\ ~should_be_retransmitted(r)
  BY <1>1 DEF IsItem, IsRecord, ItemFields, SameChunk, is_abandoned,
       should_be_retransmitted, is_nacked
<1>2. ASSUME NEW item, IsItem(item)
      PROVE  LET r == MessageEnd(item)
             IN  /\ IsItem(r) /\ r.message_id = item.message_id /\ ~r.lifecycle_id
                 /\ ~is_outstanding(r) /\ ~should_be_retransmitted(r)
  <2> USE <1>2
  <2> DEFINE data == [item.data EXCEPT !.size = 0, !.is_beginning = FALSE, !.is_end = TRUE]
             new == NewItem(item.message_id, data, 0, FALSE)
  <2>1. IsData(data)
    BY Zenon DEF IsItem, IsData, IsRecord
  <2> HIDE DEF data
  <2>2. IsItem(new) /\ new.message_id = item.message_id /\ new.lifecycle_id = FALSE
    BY <2>1 DEF NewItem, IsItem, IsRecord, ItemFields, should_be_retransmitted
  <2> HIDE DEF new
  <2> QED
    BY <2>2, AckIs, Zenon DEF MessageEnd, data, new, SameChunk
\* The k-th element of a set.
<1>3. ASSUME NEW S, NEW b \in Nat, S \subseteq 1..b, NEW k \in 1..Cardinality(S)
      PROVE  \E u \in S : Cardinality({v \in S : v <= u}) = k
  <2> USE <1>3
  <2> DEFINE Below(n) == {v \in S : v <= n}
             T == {n \in Nat : Cardinality(Below(n)) >= k}
  <2>1. \A v \in S : v \in Nat /\ 1 <= v /\ v <= b
    OBVIOUS
  <2>2. IsFiniteSet(S)
    <3>1. IsFiniteSet(1..b)
      BY FS_Interval
    <3> QED
      BY <3>1, FS_Subset, Zenon
  <2>3. \A n \in Nat : IsFiniteSet(Below(n)) /\ Cardinality(Below(n)) \in Nat
    BY <2>2, FS_Subset, FS_CardinalityType
  <2>4. b \in T
    <3>1. Below(b) = S
      BY <2>1, Zenon
    <3>2. Cardinality(S) >= k
      BY <2>2, FS_CardinalityType
    <3> QED
      BY <3>1, <3>2
  <2>5. PICK n \in T : \A y \in T : n <= y
    <3> HIDE DEF T
    <3>1. T \subseteq Nat
      BY DEF T
    <3> QED
      BY <2>4, <3>1, LeastNatural, Zenon
  <2>6. n # 0
    <3>1. \A v \in S : ~(v <= 0)
      BY <2>1
    <3>2. Below(0) = {}
      BY <3>1, Zenon
    <3>3. Cardinality(Below(0)) = 0
      BY <3>2, FS_EmptySet
    <3> QED
      BY <3>3
  <2>7. n - 1 \in Nat /\ n - 1 \notin T
    <3> HIDE DEF T
    <3>1. n \in Nat
      BY DEF T
    <3>2. ~(n <= n - 1)
      BY <3>1
    <3> QED
      BY <2>5, <2>6, <3>1, <3>2
  <2>8. Cardinality(Below(n - 1)) < k
    <3>1. ~(Cardinality(Below(n - 1)) >= k)
      BY <2>7
    <3>2. Cardinality(Below(n - 1)) \in Nat
      BY <2>3, <2>7, Zenon
    <3> HIDE DEF Below
    <3> QED
      BY <3>1, <3>2
  <2>9. n \in Nat
    OBVIOUS
  <2>10. n \in S
    <3> SUFFICES ASSUME n \notin S PROVE FALSE
      OBVIOUS
    <3>1. \A v \in S : v <= n <=> v <= n - 1
      BY <2>1, <2>9, <2>6
    <3>2. Below(n) = Below(n - 1)
      BY <3>1, Zenon
    <3> QED
      BY <2>3, <2>5, <2>7, <2>8, <3>2
  <2>11. Cardinality(Below(n)) = Cardinality(Below(n - 1)) + 1
    <3>1. \A v \in S : v <= n <=> v <= n - 1 \/ v = n
      BY <2>1, <2>9
    <3>2. n <= n /\ ~(n <= n - 1)
      BY <2>9
    <3>3. Below(n) = Below(n - 1) \cup {n} /\ n \notin Below(n - 1)
      BY <2>10, <3>1, <3>2, Zenon
    <3> QED
      BY <2>3, <2>7, <3>3, FS_AddElement, Zenon
  <2>12. Cardinality(Below(n)) = k
    <3>1. Cardinality(Below(n)) >= k
      BY <2>5
    <3> HIDE DEF Below
    <3> QED
      BY <2>3, <2>7, <2>8, <2>11, <3>1
  <2> QED
    BY <2>10, <2>12, Zenon
<1>4. ASSUME NEW q, Shape(q), NEW tsns, tsns \subseteq Tsns(q)
      PROVE  LET r == AddMessageEnds(q, tsns)
             IN  /\ Frame(r, q, {"highest_tsn", "outstanding_data"})
                 /\ Shape(r) /\ q.highest_tsn <= r.highest_tsn
                 /\ \A t \in Tsns(q) : r.outstanding_data[t] = q.outstanding_data[t]
                 /\ \A t \in Tsns(r) : t \notin Tsns(q) =>
                      /\ ~r.outstanding_data[t].lifecycle_id
                      /\ ~is_outstanding(r.outstanding_data[t])
                      /\ ~should_be_retransmitted(r.outstanding_data[t])
                      /\ Unsent(q, r.outstanding_data[t].message_id)
                      /\ \E u \in tsns : r.outstanding_data[t].message_id
                                            = q.outstanding_data[u].message_id
  <2> USE <1>4
  <2> DEFINE od == q.outstanding_data
             unsent == {t \in tsns : /\ Unsent(q, od[t].message_id)
                                     /\ \A u \in tsns : u < t =>
                                          od[u].message_id # od[t].message_id}
             last == q.highest_tsn + Cardinality(unsent)
             Cause(t) == CHOOSE u \in unsent :
                           Cardinality({v \in unsent : v <= u}) = t - q.highest_tsn
             new == [t \in (q.last_cumulative_tsn_ack + 1)..last |->
                       IF t <= q.highest_tsn THEN od[t] ELSE MessageEnd(od[Cause(t)])]
             r == AddMessageEnds(q, tsns)
  <2>1. unsent \subseteq Tsns(q) /\ unsent \subseteq tsns
    OBVIOUS
  <2>2. Cardinality(unsent) \in Nat
    BY <2>1, TsnsFinite
  <2>3. r = [q EXCEPT !.highest_tsn = last, !.outstanding_data = new]
    BY DEF AddMessageEnds
  <2>4. ASSUME NEW t \in (q.highest_tsn + 1)..last
        PROVE  Cause(t) \in unsent
    <3> DEFINE k == t - q.highest_tsn
    <3>1. q.highest_tsn \in Nat /\ unsent \subseteq 1..q.highest_tsn
      BY <2>1 DEF Shape
    <3>2. k \in 1..Cardinality(unsent)
      BY <2>2, <3>1
    <3> HIDE DEF unsent, k
    <3>3. \E u \in unsent : Cardinality({v \in unsent : v <= u}) = k
      BY <3>1, <3>2, <1>3, Zenon
    <3> QED
      BY <3>3, Zenon DEF k
  <2>5. ASSUME NEW t \in (q.highest_tsn + 1)..last
        PROVE  /\ IsItem(new[t])
               /\ new[t].message_id = od[Cause(t)].message_id /\ ~new[t].lifecycle_id
               /\ ~is_outstanding(new[t]) /\ ~should_be_retransmitted(new[t])
    <3>1. new[t] = MessageEnd(od[Cause(t)])
      <4> HIDE DEF last, Cause
      <4>1. t \in (q.last_cumulative_tsn_ack + 1)..last /\ ~(t <= q.highest_tsn)
        BY <2>2, SMTT(20) DEF Shape, last
      <4> QED
        BY <4>1
    <3>2. IsItem(od[Cause(t)])
      BY <2>1, <2>4, Zenon DEF Shape
    <3> HIDE DEF new, Cause
    <3> QED
      BY <3>1, <3>2, <1>2
  <2>6. \A t \in Tsns(q) : new[t] = od[t]
    <3>1. last \in Nat /\ q.highest_tsn <= last
      BY <2>2 DEF Shape
    <3> HIDE DEF last, Cause, unsent
    <3>2. ASSUME NEW t \in Tsns(q)
          PROVE  t \in (q.last_cumulative_tsn_ack + 1)..last /\ t <= q.highest_tsn
      BY <3>1 DEF Shape
    <3> QED
      BY <3>2, Zenon
  <2>7. DOMAIN new = (q.last_cumulative_tsn_ack + 1)..last /\ IsRecord(new)
    <3> HIDE DEF last, Cause
    <3> QED
      BY DEF IsRecord
  <2>8. \A t \in DOMAIN new : t \notin Tsns(q) => t \in (q.highest_tsn + 1)..last
    <3> HIDE DEF new
    <3>1. last \in Int
      BY <2>2 DEF Shape
    <3> HIDE DEF last
    <3> QED
      BY <2>7, <3>1 DEF Shape
  <2>9. last \in Nat /\ q.highest_tsn <= last
    BY <2>2 DEF Shape
  <2>10. \A t \in (q.highest_tsn + 1)..last :
            Cause(t) \in tsns /\ Unsent(q, od[Cause(t)].message_id)
    <3> HIDE DEF Cause
    <3> QED
      BY <2>4
  <2> HIDE DEF unsent, last, Cause, new
  <2>11. /\ Frame(r, q, {"highest_tsn", "outstanding_data"})
         /\ r.highest_tsn = last /\ r.outstanding_data = new
    BY <2>3, Zenon DEF Frame, IsRecord, Shape, QueueFields
  <2> HIDE DEF r
  <2>12. Shape(r)
    <3>1. \A t \in Tsns(r) : IsItem(r.outstanding_data[t])
      BY <2>5, <2>6, <2>7, <2>8, <2>11 DEF Shape, Tsns
    <3> QED
      BY <2>7, <2>9, <2>11, <3>1 DEF Shape, Frame, QueueFields, Tsns
  <2>13. \A t \in Tsns(r) : t \notin Tsns(q) =>
             /\ ~r.outstanding_data[t].lifecycle_id
             /\ ~is_outstanding(r.outstanding_data[t])
             /\ ~should_be_retransmitted(r.outstanding_data[t])
             /\ Unsent(q, r.outstanding_data[t].message_id)
             /\ \E u \in tsns : r.outstanding_data[t].message_id
                                   = q.outstanding_data[u].message_id
    BY <2>5, <2>8, <2>10, <2>11 DEF Tsns
  <2> QED
    BY <2>6, <2>9, <2>11, <2>12, <2>13 DEF r
<1>5. ASSUME NEW q, Shape(q), NEW ms
      PROVE  LET r == Discard(q, ms)
             IN  /\ Frame(r, q, {"send_queue", "ended"})
                 /\ DOMAIN r.send_queue = DOMAIN q.send_queue \ ms
                 /\ \A m \in DOMAIN q.send_queue \ ms : r.send_queue[m] = q.send_queue[m]
                 /\ DOMAIN r.ended = DOMAIN q.ended
                 /\ \A m \in DOMAIN q.ended :
                      r.ended[m] = IF m \in ms /\ Unsent(q, m) THEN Append(q.ended[m], "Expired")
                                   ELSE q.ended[m]
  <2> USE <1>5
  <2> DEFINE sq == Restrict(q.send_queue, DOMAIN q.send_queue \ ms)
             en == [m \in DOMAIN q.ended |->
                      IF m \in ms /\ Unsent(q, m) THEN Append(q.ended[m], "Expired")
                      ELSE q.ended[m]]
             r == Discard(q, ms)
  <2>1. r = [q EXCEPT !.send_queue = sq, !.ended = en]
    BY DEF Discard
  <2>2. DOMAIN sq = DOMAIN q.send_queue \ ms
        /\ \A m \in DOMAIN q.send_queue \ ms : sq[m] = q.send_queue[m]
    BY DEF Restrict
  <2>3. DOMAIN en = DOMAIN q.ended
        /\ \A m \in DOMAIN q.ended :
             en[m] = IF m \in ms /\ Unsent(q, m) THEN Append(q.ended[m], "Expired")
                     ELSE q.ended[m]
    OBVIOUS
  <2> HIDE DEF sq, en
  <2>4. Frame(r, q, {"send_queue", "ended"}) /\ r.send_queue = sq /\ r.ended = en
    BY <2>1, Zenon DEF Frame, IsRecord, Shape, QueueFields
  <2> QED
    BY <2>2, <2>3, <2>4
<1>  SUFFICES ASSUME NEW q, Sane(q), NEW tsns, tsns \subseteq Tsns(q)
              PROVE  LET r == AbandonAllFor(q, tsns)
                     IN  /\ Sane(r) /\ Frame(r, q, AbandonFields)
                         /\ Abandons(r, q, {q.outstanding_data[t].message_id : t \in tsns})
                         /\ r.to_be_fast_retransmitted \subseteq q.to_be_fast_retransmitted
  BY Zenon
<1> DEFINE ms == {q.outstanding_data[t].message_id : t \in tsns}
           chunks == {t \in Tsns(q) : q.outstanding_data[t].message_id \in ms}
           a == AddMessageEnds(q, tsns)
           d == Discard(a, ms)
           od == [t \in DOMAIN d.outstanding_data |->
                    IF d.outstanding_data[t].message_id \in ms
                    THEN [d.outstanding_data[t] EXCEPT !.lifecycle = "Abandoned"]
                    ELSE d.outstanding_data[t]]
           r == AbandonAllFor(q, tsns)
<1>6. r = [d EXCEPT !.to_be_fast_retransmitted = @ \ chunks,
                    !.to_be_retransmitted = @ \ chunks,
                    !.outstanding_data = od]
  BY DEF AbandonAllFor
<1>7. Shape(q)
  BY DEF Sane
<1>8. /\ Frame(a, q, {"highest_tsn", "outstanding_data"})
      /\ Shape(a) /\ q.highest_tsn <= a.highest_tsn
      /\ \A t \in Tsns(q) : a.outstanding_data[t] = q.outstanding_data[t]
      /\ \A t \in Tsns(a) : t \notin Tsns(q) =>
           /\ ~a.outstanding_data[t].lifecycle_id
           /\ ~is_outstanding(a.outstanding_data[t])
           /\ ~should_be_retransmitted(a.outstanding_data[t])
           /\ Unsent(q, a.outstanding_data[t].message_id)
           /\ \E u \in tsns : a.outstanding_data[t].message_id
                                 = q.outstanding_data[u].message_id
  BY <1>7, <1>4
<1>9. \A t \in Tsns(a) : t \notin Tsns(q) => a.outstanding_data[t].message_id \in ms
  BY <1>8
<1>10. \A m \in ms : \E t \in Tsns(q) : q.outstanding_data[t].message_id = m
  OBVIOUS
<1> HIDE DEF a, ms
<1>11. /\ Frame(d, a, {"send_queue", "ended"})
       /\ DOMAIN d.send_queue = DOMAIN a.send_queue \ ms
       /\ \A m \in DOMAIN a.send_queue \ ms : d.send_queue[m] = a.send_queue[m]
       /\ DOMAIN d.ended = DOMAIN a.ended
       /\ \A m \in DOMAIN a.ended :
            d.ended[m] = IF m \in ms /\ Unsent(a, m) THEN Append(a.ended[m], "Expired")
                         ELSE a.ended[m]
  BY <1>8, <1>5
<1> HIDE DEF d
<1>12. /\ Frame(d, q, {"highest_tsn", "outstanding_data", "send_queue", "ended"})
       /\ QueueFields \subseteq DOMAIN d
       /\ d.outstanding_data = a.outstanding_data /\ d.highest_tsn = a.highest_tsn
       /\ a.send_queue = q.send_queue /\ a.ended = q.ended
  BY <1>7, <1>8, <1>11 DEF Frame, QueueFields, Shape
<1>13. /\ IsRecord(od) /\ DOMAIN od = Tsns(a)
       /\ \A t \in Tsns(a) :
            od[t] = IF a.outstanding_data[t].message_id \in ms
                    THEN [a.outstanding_data[t] EXCEPT !.lifecycle = "Abandoned"]
                    ELSE a.outstanding_data[t]
  BY <1>12 DEF IsRecord, Tsns
<1> HIDE DEF od, chunks
<1>14. /\ Frame(r, d, {"to_be_fast_retransmitted", "to_be_retransmitted", "outstanding_data"})
       /\ r.to_be_fast_retransmitted = d.to_be_fast_retransmitted \ chunks
       /\ r.to_be_retransmitted = d.to_be_retransmitted \ chunks
       /\ r.outstanding_data = od
  BY <1>6, <1>12, Zenon DEF Frame, IsRecord, QueueFields
<1> HIDE DEF r
<1>15. /\ Frame(r, q, AbandonFields)
      /\ r.to_be_fast_retransmitted = q.to_be_fast_retransmitted \ chunks
      /\ r.to_be_retransmitted = q.to_be_retransmitted \ chunks
      /\ r.outstanding_data = od /\ r.highest_tsn = a.highest_tsn
      /\ r.last_cumulative_tsn_ack = q.last_cumulative_tsn_ack
      /\ a.last_cumulative_tsn_ack = q.last_cumulative_tsn_ack
      /\ r.send_queue = d.send_queue /\ r.ended = d.ended
      /\ r.unacked_payload_bytes = q.unacked_payload_bytes
      /\ r.unacked_packet_bytes = q.unacked_packet_bytes
      /\ r.unacked_items = q.unacked_items
  BY <1>7, <1>8, <1>12, <1>14 DEF Frame, QueueFields, AbandonFields, Shape
<1>16. \A t \in Tsns(a) :
        /\ IsItem(od[t]) /\ SameChunk(od[t], a.outstanding_data[t])
        /\ od[t].ack_state = a.outstanding_data[t].ack_state
        /\ is_abandoned(od[t]) <=> \/ is_abandoned(a.outstanding_data[t])
                                   \/ a.outstanding_data[t].message_id \in ms
        /\ should_be_retransmitted(od[t]) <=>
             /\ should_be_retransmitted(a.outstanding_data[t])
             /\ a.outstanding_data[t].message_id \notin ms
  <2> TAKE t \in Tsns(a)
  <2>1. IsItem(a.outstanding_data[t])
    BY <1>8 DEF Shape
  <2>2. CASE a.outstanding_data[t].message_id \in ms
    <3>1. od[t] = [a.outstanding_data[t] EXCEPT !.lifecycle = "Abandoned"]
      BY <1>13, <2>2
    <3> QED
      BY <2>1, <2>2, <3>1, <1>1
  <2>3. CASE a.outstanding_data[t].message_id \notin ms
    <3>1. od[t] = a.outstanding_data[t]
      BY <1>13, <2>3
    <3> QED
      BY <2>1, <2>3, <3>1 DEF SameChunk
  <2> QED
    BY <2>2, <2>3
<1>17. Tsns(r) = Tsns(a) /\ Tsns(q) \subseteq Tsns(r)
  BY <1>7, <1>8, <1>13, <1>15 DEF Tsns, Shape
<1>18. Shape(r)
  BY <1>7, <1>8, <1>13, <1>15, <1>16, <1>17, Zenon DEF Shape, Frame
<1>19. Abandons(r, q, ms)
  BY <1>8, <1>9, <1>10, <1>11, <1>12, <1>15, <1>16, <1>17, SMTT(20) DEF Abandons, SameChunk, Unsent
<1>20. Unacked(r) = Unacked(q)
       /\ \A t \in Unacked(q) : r.outstanding_data[t].data = q.outstanding_data[t].data
  BY <1>8, <1>15, <1>16, <1>17 DEF Unacked, SameChunk, is_outstanding
<1>21. Counted(r)
  BY <1>7, <1>15, <1>18, <1>20, Stay DEF Sane
<1>22. Marked(r)
  <2>1. \A t \in Tsns(r) : should_be_retransmitted(r.outstanding_data[t]) <=>
          t \in Tsns(q) /\ should_be_retransmitted(q.outstanding_data[t]) /\ t \notin chunks
    BY <1>8, <1>15, <1>16, <1>17 DEF chunks
  <2>2. /\ q.to_be_retransmitted \cup q.to_be_fast_retransmitted
             = {t \in Tsns(q) : should_be_retransmitted(q.outstanding_data[t])}
        /\ q.to_be_retransmitted \cap q.to_be_fast_retransmitted = {}
    BY DEF Sane, Marked
  <2> QED
    BY <1>15, <1>17, <2>1, <2>2, Zenon DEF Marked
<1> QED
  BY <1>15, <1>18, <1>19, <1>21, <1>22 DEF Sane, r, ms

------------------------------------------------------------------------------
(* SACKs.                                                                  *)

FlightFields == {"unacked_payload_bytes", "unacked_packet_bytes", "unacked_items",
                 "to_be_fast_retransmitted", "to_be_retransmitted", "outstanding_data"}

\* The record of a queue in which some items were exchanged for others of the
\* same chunk.
Touched(r, q) ==
  /\ Frame(r, q, FlightFields)
  /\ IsRecord(r.outstanding_data) /\ Tsns(r) = Tsns(q)
  /\ \A t \in Tsns(q) : /\ IsItem(r.outstanding_data[t])
                        /\ SameChunk(r.outstanding_data[t], q.outstanding_data[t])

LEMMA TouchedShape ==
  ASSUME NEW q, Shape(q), NEW r, Touched(r, q)
  PROVE  /\ Shape(r) /\ r.last_cumulative_tsn_ack = q.last_cumulative_tsn_ack
         /\ r.highest_tsn = q.highest_tsn
         /\ r.send_queue = q.send_queue /\ r.ended = q.ended
  BY DEF Touched, Frame, FlightFields, Shape, QueueFields

LEMMA TouchedAbandons ==
  ASSUME NEW q, Shape(q), NEW r, Touched(r, q),
         \A t \in Tsns(q) : is_abandoned(r.outstanding_data[t]) <=>
                              is_abandoned(q.outstanding_data[t])
  PROVE  Abandons(r, q, {})
  BY TouchedShape DEF Abandons, Touched, Shape

\* Chunks that are no longer in flight, whatever else becomes of them.
Exchanged(r, q, tsns, od, rtx, fast) ==
  r = [NotUnacked(q, tsns) EXCEPT !.outstanding_data = od, !.to_be_retransmitted = rtx,
                                  !.to_be_fast_retransmitted = fast]

LEMMA NotUnackedIs ==
  ASSUME NEW q, Sane(q), NEW tsns, tsns \subseteq Tsns(q), NEW od,
         NEW rtx, NEW fast, NEW r,
         Exchanged(r, q, tsns, od, rtx, fast),
         IsRecord(od), DOMAIN od = Tsns(q),
         \A t \in Tsns(q) : IsItem(od[t]) /\ SameChunk(od[t], q.outstanding_data[t]),
         \A t \in tsns : ~is_outstanding(od[t]),
         \A t \in Tsns(q) \ tsns : od[t] = q.outstanding_data[t],
         rtx \cup fast = {t \in Tsns(q) : should_be_retransmitted(od[t])},
         rtx \cap fast = {}
  PROVE  /\ Sane(r) /\ Touched(r, q)
         /\ r.outstanding_data = od /\ r.to_be_fast_retransmitted = fast
         /\ r.to_be_retransmitted = rtx
<1> DEFINE X == {t \in tsns : is_outstanding(q.outstanding_data[t])}
           c == CountUnacked(q, X, -1)
<1>1. Shape(q) /\ Counted(q)
  BY DEF Sane
<1>2. r = [c EXCEPT !.outstanding_data = od, !.to_be_retransmitted = rtx,
                    !.to_be_fast_retransmitted = fast]
  BY DEF NotUnacked, Exchanged
<1>3. /\ Frame(c, q, {"unacked_payload_bytes", "unacked_packet_bytes", "unacked_items"})
      /\ c.unacked_payload_bytes = q.unacked_payload_bytes + (-1) * PayloadBytes(q, X)
      /\ c.unacked_packet_bytes = q.unacked_packet_bytes + (-1) * PacketBytes(q, X)
      /\ c.unacked_items = q.unacked_items + (-1) * Cardinality(X)
  BY <1>1, CountUnackedIs
<1>4. X \subseteq Unacked(q)
  BY DEF Unacked
<1>5. Unacked(q) \ X = {t \in Tsns(q) : is_outstanding(od[t])}
  BY DEF Unacked
<1> HIDE DEF X, c
<1>6. /\ Frame(r, q, FlightFields) /\ r.outstanding_data = od
      /\ r.to_be_retransmitted = rtx /\ r.to_be_fast_retransmitted = fast
      /\ r.unacked_payload_bytes = c.unacked_payload_bytes
      /\ r.unacked_packet_bytes = c.unacked_packet_bytes
      /\ r.unacked_items = c.unacked_items
  BY <1>1, <1>2, <1>3, Zenon DEF Frame, IsRecord, FlightFields, Shape, QueueFields
<1>7. Touched(r, q)
  BY <1>6 DEF Touched, Tsns
<1>8. Shape(r)
  BY <1>1, <1>7, TouchedShape
<1>9. Unacked(r) = Unacked(q) \ X
      /\ \A t \in Unacked(r) : r.outstanding_data[t].data = q.outstanding_data[t].data
  BY <1>5, <1>6, <1>7, Zenon DEF Unacked, Touched, SameChunk
<1>10. Counted(r)
  BY <1>1, <1>3, <1>4, <1>6, <1>8, <1>9, Leave
<1>11. Marked(r)
  BY <1>6, <1>7 DEF Marked, Touched
<1> QED
  BY <1>6, <1>7, <1>8, <1>10, <1>11 DEF Sane

\* The events of a message whose last chunk is removed, and of any other.
Removes(r, q, cumulative_tsn_ack) ==
  /\ DOMAIN r.ended = DOMAIN q.ended
  /\ \A m \in DOMAIN q.ended :
       \/ /\ r.ended[m] = q.ended[m]
          /\ \A t \in Tsns(q) : /\ t <= cumulative_tsn_ack
                                /\ q.outstanding_data[t].message_id = m
                                => ~q.outstanding_data[t].lifecycle_id
       \/ \E t \in Tsns(q) :
            /\ t <= cumulative_tsn_ack
            /\ q.outstanding_data[t].message_id = m /\ q.outstanding_data[t].lifecycle_id
            /\ r.ended[m] = Append(q.ended[m], IF is_abandoned(q.outstanding_data[t])
                                               THEN "Expired" ELSE "Delivered")

\* What remains are chunks beyond the cumulative acknowledgement, as they were.
Remains(r, q, cum) ==
  \A t \in Tsns(r) : /\ t \in Tsns(q) /\ t > cum
                     /\ r.outstanding_data[t] = q.outstanding_data[t]

NackFields == AbandonFields \cup FlightFields

LEMMA NackItemsIs ==
  \A q, tsns, now, fast :
       /\ Sane(q)
       /\ tsns \subseteq Tsns(q)
       /\ fast \in BOOLEAN
    => LET r == NackItems(q, tsns, now, fast).q
       IN  /\ Sane(r) /\ Frame(r, q, NackFields)
           /\ \E ms : Abandons(r, q, ms)
           /\ ~fast => r.to_be_fast_retransmitted \subseteq q.to_be_fast_retransmitted
<1>1. ASSUME NEW item, IsItem(item), NEW now
      PROVE  LET r == Nack(item, now)
             IN  /\ IsItem(r.item) /\ SameChunk(r.item, item) /\ ~is_outstanding(r.item)
                 /\ r.action = "Nothing" => r.item.lifecycle = item.lifecycle
                 /\ r.action = "Retransmit" => /\ should_be_retransmitted(r.item)
                                               /\ ~is_abandoned(item)
                                               /\ ~should_be_retransmitted(item)
                 /\ r.action = "Abandon" => /\ is_abandoned(r.item)
                                            /\ ~should_be_retransmitted(item)
                 /\ r.action \in {"Nothing", "Retransmit", "Abandon"}
  BY <1>1, Zenon DEF Nack, IsItem, IsRecord, ItemFields, SameChunk, is_outstanding, is_abandoned,
       should_be_retransmitted, is_nacked
\* Abandoning messages after the items of chunks were exchanged.
<1>2. ASSUME NEW q, Shape(q), NEW n, Touched(n, q), NEW r, NEW ms, Abandons(r, n, ms),
             Frame(r, n, AbandonFields),
             \A t \in Tsns(q) : is_abandoned(n.outstanding_data[t]) =>
                is_abandoned(q.outstanding_data[t]) \/ q.outstanding_data[t].message_id \in ms,
             \A t \in Tsns(q) : is_abandoned(q.outstanding_data[t]) =>
                is_abandoned(n.outstanding_data[t])
      PROVE  Abandons(r, q, ms) /\ Frame(r, q, NackFields)
  <2> USE <1>2
  <2>1. /\ Shape(n) /\ n.last_cumulative_tsn_ack = q.last_cumulative_tsn_ack
        /\ n.highest_tsn = q.highest_tsn /\ Tsns(n) = Tsns(q)
        /\ n.send_queue = q.send_queue /\ n.ended = q.ended
        /\ \A t \in Tsns(q) : SameChunk(n.outstanding_data[t], q.outstanding_data[t])
    BY TouchedShape, Zenon DEF Touched
  <2>2. Abandons(r, q, ms)
    <3>1. \A t \in Tsns(q) : /\ SameChunk(r.outstanding_data[t], q.outstanding_data[t])
                             /\ n.outstanding_data[t].message_id = q.outstanding_data[t].message_id
      BY <2>1 DEF Abandons, SameChunk
    <3>2. \A t \in Tsns(q) : is_abandoned(r.outstanding_data[t]) <=>
            is_abandoned(q.outstanding_data[t]) \/ q.outstanding_data[t].message_id \in ms
      BY <2>1, <3>1 DEF Abandons
    <3> QED
      BY <2>1, <3>1, <3>2 DEF Abandons, Unsent
  <2>3. Frame(r, q, NackFields)
    BY DEF Touched, Frame, NackFields
  <2> QED
    BY <2>2, <2>3
<1>  SUFFICES ASSUME NEW q, Sane(q), NEW tsns, tsns \subseteq Tsns(q), NEW now, NEW fast \in BOOLEAN
              PROVE  LET r == NackItems(q, tsns, now, fast).q
                     IN  /\ Sane(r) /\ Frame(r, q, NackFields)
                         /\ \E ms : Abandons(r, q, ms)
                         /\ ~fast => r.to_be_fast_retransmitted \subseteq q.to_be_fast_retransmitted
  OBVIOUS
<1> DEFINE nack == [t \in tsns |-> Nack(q.outstanding_data[t], now)]
           With(action) == {t \in tsns : nack[t].action = action}
           retransmit == With("Retransmit")
           abandon == With("Abandon")
           od == [t \in Tsns(q) |-> IF t \in tsns THEN nack[t].item ELSE q.outstanding_data[t]]
           rtx == IF fast THEN q.to_be_retransmitted ELSE q.to_be_retransmitted \cup retransmit
           fst == IF fast THEN q.to_be_fast_retransmitted \cup retransmit
                  ELSE q.to_be_fast_retransmitted
           u == NotUnacked(q, tsns)
           n == [u EXCEPT !.outstanding_data = od, !.to_be_fast_retransmitted = fst,
                          !.to_be_retransmitted = rtx]
           r == NackItems(q, tsns, now, fast).q
<1>3. Shape(q)
  BY DEF Sane
<1>4. Frame(u, q, {"unacked_payload_bytes", "unacked_packet_bytes", "unacked_items"})
  BY <1>3, CountUnackedIs DEF NotUnacked
<1>5. /\ u.outstanding_data = q.outstanding_data
      /\ u.to_be_fast_retransmitted = q.to_be_fast_retransmitted
      /\ u.to_be_retransmitted = q.to_be_retransmitted
      /\ IsRecord(u) /\ QueueFields \subseteq DOMAIN u
  BY <1>3, <1>4 DEF Frame, Shape, QueueFields
<1>6. r = AbandonAllFor(n, abandon)
  BY <1>5 DEF NackItems, ApplyNacks, Tsns
<1>7. \A t \in Tsns(q) : IsItem(q.outstanding_data[t])
  BY <1>3 DEF Shape
<1>8. \A t \in tsns : nack[t] = Nack(q.outstanding_data[t], now)
  BY Zenon
<1>9. \A t \in tsns :
         /\ IsItem(nack[t].item) /\ SameChunk(nack[t].item, q.outstanding_data[t])
         /\ ~is_outstanding(nack[t].item)
         /\ nack[t].action = "Nothing" => nack[t].item.lifecycle = q.outstanding_data[t].lifecycle
         /\ nack[t].action = "Retransmit" => /\ should_be_retransmitted(nack[t].item)
                                             /\ ~is_abandoned(q.outstanding_data[t])
                                             /\ ~should_be_retransmitted(q.outstanding_data[t])
         /\ nack[t].action = "Abandon" => /\ is_abandoned(nack[t].item)
                                          /\ ~should_be_retransmitted(q.outstanding_data[t])
         /\ nack[t].action \in {"Nothing", "Retransmit", "Abandon"}
  <2> TAKE t \in tsns
  <2> HIDE DEF nack
  <2>1. IsItem(q.outstanding_data[t]) /\ nack[t] = Nack(q.outstanding_data[t], now)
    BY <1>7, <1>8
  <2> QED
    BY <2>1, <1>1, SMTT(20)
<1>10. /\ IsRecord(od) /\ DOMAIN od = Tsns(q)
       /\ \A t \in tsns : od[t] = nack[t].item
       /\ \A t \in Tsns(q) \ tsns : od[t] = q.outstanding_data[t]
  <2> HIDE DEF nack
  <2> QED
    BY DEF IsRecord
<1> HIDE DEF nack, od
<1>11. \A t \in Tsns(q) : IsItem(od[t]) /\ SameChunk(od[t], q.outstanding_data[t])
  BY <1>7, <1>9, <1>10 DEF SameChunk
<1>12. \A t \in tsns : ~is_outstanding(od[t])
  BY <1>9, <1>10
<1>13. rtx \cup fst = {t \in Tsns(q) : should_be_retransmitted(od[t])}
  <2>1. q.to_be_retransmitted \cup q.to_be_fast_retransmitted
          = {t \in Tsns(q) : should_be_retransmitted(q.outstanding_data[t])}
    BY DEF Sane, Marked
  <2>2. rtx \cup fst = q.to_be_retransmitted \cup q.to_be_fast_retransmitted \cup retransmit
    OBVIOUS
  <2>3. \A t \in Tsns(q) : should_be_retransmitted(od[t]) <=>
          should_be_retransmitted(q.outstanding_data[t]) \/ t \in retransmit
    <3> TAKE t \in Tsns(q)
    <3>1. CASE t \in tsns
      BY <1>9, <1>10, <3>1 DEF should_be_retransmitted, is_abandoned
    <3>2. CASE t \notin tsns
      BY <1>10, <3>2
    <3> QED
      BY <3>1, <3>2
  <2>4. retransmit \subseteq Tsns(q)
    OBVIOUS
  <2> HIDE DEF rtx, fst, retransmit
  <2> QED
    BY <2>1, <2>2, <2>3, <2>4
<1>14. rtx \cap fst = {}
  <2>1. /\ q.to_be_retransmitted \cup q.to_be_fast_retransmitted
             = {t \in Tsns(q) : should_be_retransmitted(q.outstanding_data[t])}
        /\ q.to_be_retransmitted \cap q.to_be_fast_retransmitted = {}
    BY DEF Sane, Marked
  <2>2. \A t \in retransmit : ~should_be_retransmitted(q.outstanding_data[t])
    BY <1>9
  <2> HIDE DEF retransmit
  <2> QED
    BY <2>1, <2>2
<1>15. /\ \A t \in Tsns(q) : is_abandoned(q.outstanding_data[t]) => is_abandoned(od[t])
       /\ \A t \in Tsns(q) : is_abandoned(od[t]) =>
            is_abandoned(q.outstanding_data[t]) \/ t \in abandon
  <2> SUFFICES ASSUME NEW t \in Tsns(q)
               PROVE  /\ is_abandoned(q.outstanding_data[t]) => is_abandoned(od[t])
                      /\ is_abandoned(od[t]) =>
                           is_abandoned(q.outstanding_data[t]) \/ t \in abandon
    OBVIOUS
  <2>1. CASE t \in tsns
    BY <1>9, <1>10, <2>1 DEF should_be_retransmitted, is_abandoned
  <2>2. CASE t \notin tsns
    BY <1>10, <2>2
  <2> QED
    BY <2>1, <2>2
<1>16. abandon \subseteq Tsns(q)
  OBVIOUS
<1>17. ~fast => fst = q.to_be_fast_retransmitted
  OBVIOUS
<1> HIDE DEF rtx, fst, abandon
<1>18. Exchanged(n, q, tsns, od, rtx, fst)
  <2>1. n = [u EXCEPT !.outstanding_data = od, !.to_be_retransmitted = rtx,
                      !.to_be_fast_retransmitted = fst]
    BY <1>5, Zenon DEF IsRecord, QueueFields
  <2> QED
    BY <2>1, Zenon DEF Exchanged, u
<1> HIDE DEF n, r
<1>19. Sane(n) /\ Touched(n, q) /\ n.outstanding_data = od /\ n.to_be_fast_retransmitted = fst
  BY <1>10, <1>11, <1>12, <1>13, <1>14, <1>18, NotUnackedIs
<1>20. Tsns(n) = Tsns(q)
  BY <1>19 DEF Touched
<1> DEFINE ms == {n.outstanding_data[t].message_id : t \in abandon}
<1>21. /\ Sane(r) /\ Frame(r, n, AbandonFields) /\ Abandons(r, n, ms)
       /\ r.to_be_fast_retransmitted \subseteq n.to_be_fast_retransmitted
  BY <1>6, <1>16, <1>19, <1>20, AbandonAllForIs, Zenon
<1>22. \A t \in abandon : q.outstanding_data[t].message_id \in ms
  <2> TAKE t \in abandon
  <2>1. n.outstanding_data[t].message_id = q.outstanding_data[t].message_id
    BY <1>11, <1>16, <1>19, Zenon DEF SameChunk
  <2> QED
    BY <2>1
<1> HIDE DEF ms
<1>23. Abandons(r, q, ms) /\ Frame(r, q, NackFields)
  BY <1>3, <1>15, <1>19, <1>21, <1>22, <1>2, Zenon
<1> QED
  BY <1>17, <1>19, <1>21, <1>23 DEF r

LEMMA BytesNatural ==
  ASSUME NEW q, Shape(q), NEW S, S \subseteq Tsns(q)
  PROVE  PacketBytes(q, S) \in Int /\ PacketBytes(q, S) >= 0
<1> DEFINE g == [t \in Tsns(q) |-> GetSerializedChunkSize(q.outstanding_data[t])]
<1>1. \A t \in S : g[t] \in Int /\ g[t] >= 0
  <2> TAKE t \in S
  <2>1. q.outstanding_data[t].data.size \in Nat
    BY Zenon DEF Shape, IsItem, IsData
  <2> QED
    BY <2>1 DEF GetSerializedChunkSize
<1>2. IsFiniteSet(S)
  BY TsnsFinite
<1>3. PacketBytes(q, S) = SumFunctionOnSet(g, S)
  BY DEF PacketBytes
<1> HIDE DEF g
<1> QED
  BY <1>1, <1>2, <1>3, SumType

LEMMA InFlight ==
  ASSUME NEW q, Sane(q)
  PROVE  q.unacked_packet_bytes \in Int
<1>1. Shape(q) /\ Unacked(q) \subseteq Tsns(q)
  BY DEF Sane, Unacked
<1> QED
  BY <1>1, BytesType DEF Sane, Counted

\* Abandoning messages does not change what is in flight.
LEMMA AbandonFlight ==
  ASSUME NEW q, QueueFields \subseteq DOMAIN q, NEW tsns
  PROVE  LET r == AbandonAllFor(q, tsns)
         IN  /\ r.unacked_packet_bytes = q.unacked_packet_bytes
             /\ r.to_be_fast_retransmitted \subseteq q.to_be_fast_retransmitted
<1> DEFINE a == AddMessageEnds(q, tsns)
<1>1. /\ DOMAIN a = DOMAIN q /\ a.unacked_packet_bytes = q.unacked_packet_bytes
      /\ a.to_be_fast_retransmitted = q.to_be_fast_retransmitted
  BY Zenon DEF AddMessageEnds, QueueFields
<1> DEFINE ms == {q.outstanding_data[t].message_id : t \in tsns}
           d == Discard(a, ms)
<1> HIDE DEF a, ms
<1>2. /\ DOMAIN d = DOMAIN q /\ d.unacked_packet_bytes = q.unacked_packet_bytes
      /\ d.to_be_fast_retransmitted = q.to_be_fast_retransmitted
  BY <1>1, Zenon DEF Discard, QueueFields
<1> HIDE DEF d
<1> QED
  BY <1>2, Zenon DEF AbandonAllFor, QueueFields, a, ms, d

\* Chunks that are acknowledged or nacked leave the flight.
LEMMA NotUnackedFlight ==
  ASSUME NEW q, Sane(q), NEW tsns, tsns \subseteq Tsns(q)
  PROVE  LET n == NotUnacked(q, tsns)
         IN  /\ DOMAIN n = DOMAIN q
             /\ n.to_be_fast_retransmitted = q.to_be_fast_retransmitted
             /\ n.unacked_packet_bytes \in Int
             /\ n.unacked_packet_bytes <= q.unacked_packet_bytes
<1> DEFINE X == {t \in tsns : is_outstanding(q.outstanding_data[t])}
           n == CountUnacked(q, X, -1)
<1>1. Shape(q) /\ X \subseteq Tsns(q) /\ NotUnacked(q, tsns) = n
  BY Zenon DEF Sane, NotUnacked
<1> HIDE DEF X
<1>2. /\ DOMAIN n = DOMAIN q /\ n.to_be_fast_retransmitted = q.to_be_fast_retransmitted
      /\ n.unacked_packet_bytes = q.unacked_packet_bytes + (-1) * PacketBytes(q, X)
  <2>1. QueueFields \subseteq DOMAIN q
    BY <1>1, Zenon DEF Shape
  <2> QED
    BY <2>1 DEF CountUnacked, QueueFields
<1>3. PacketBytes(q, X) \in Int /\ PacketBytes(q, X) >= 0 /\ q.unacked_packet_bytes \in Int
  BY <1>1, BytesNatural, InFlight
<1> HIDE DEF n
<1> QED
  BY <1>1, <1>2, <1>3

LEMMA NackFlight ==
  ASSUME NEW q, Sane(q), NEW tsns, tsns \subseteq Tsns(q), NEW now, NEW fast \in BOOLEAN
  PROVE  LET n == NackItems(q, tsns, now, fast)
         IN  /\ n.q.unacked_packet_bytes <= q.unacked_packet_bytes
             /\ \/ fast /\ n.has_packet_loss
                \/ n.q.to_be_fast_retransmitted \subseteq q.to_be_fast_retransmitted
<1> DEFINE nack == [t \in tsns |-> Nack(q.outstanding_data[t], now)]
           again == {t \in tsns : nack[t].action = "Retransmit"}
           abandon == {t \in tsns : nack[t].action = "Abandon"}
           u == NotUnacked(q, tsns)
           p == [u EXCEPT
                   !.outstanding_data =
                      [t \in DOMAIN @ |-> IF t \in tsns THEN nack[t].item ELSE @[t]],
                   !.to_be_fast_retransmitted = IF fast THEN @ \cup again ELSE @,
                   !.to_be_retransmitted = IF fast THEN @ ELSE @ \cup again]
           r == AbandonAllFor(p, abandon)
           n == NackItems(q, tsns, now, fast)
<1>1. n = [q |-> r, has_packet_loss |-> again \cup abandon # {}]
  BY Zenon DEF NackItems, ApplyNacks
<1>2. /\ QueueFields \subseteq DOMAIN u
      /\ u.to_be_fast_retransmitted = q.to_be_fast_retransmitted
      /\ u.unacked_packet_bytes <= q.unacked_packet_bytes
  BY NotUnackedFlight, Zenon DEF Sane, Shape
<1> HIDE DEF nack, again, abandon, u
<1>3. /\ DOMAIN p = DOMAIN u /\ p.unacked_packet_bytes = u.unacked_packet_bytes
      /\ (again = {} \/ ~fast) => p.to_be_fast_retransmitted = u.to_be_fast_retransmitted
  BY <1>2, Zenon DEF QueueFields
<1> HIDE DEF p
<1>4. /\ r.unacked_packet_bytes = p.unacked_packet_bytes
      /\ r.to_be_fast_retransmitted \subseteq p.to_be_fast_retransmitted
  BY <1>2, <1>3, AbandonFlight
<1> HIDE DEF r, n
<1>5. n.q = r /\ n.has_packet_loss = (again \cup abandon # {})
  BY <1>1, Zenon
<1>6. n.q.unacked_packet_bytes <= q.unacked_packet_bytes
  BY <1>2, <1>3, <1>4, <1>5, Zenon
<1>7. \/ fast /\ n.has_packet_loss
      \/ n.q.to_be_fast_retransmitted \subseteq q.to_be_fast_retransmitted
  BY <1>2, <1>3, <1>4, <1>5
<1> QED
  BY <1>6, <1>7 DEF n

LEMMA ExpireFlight ==
  ASSUME NEW q, Sane(q), NEW lapsed
  PROVE  ExpireOutstandingChunks(q, lapsed).unacked_packet_bytes = q.unacked_packet_bytes
<1>1. QueueFields \subseteq DOMAIN q
  BY Zenon DEF Sane, Shape
<1>2. \E tsns : ExpireOutstandingChunks(q, lapsed) = AbandonAllFor(q, tsns)
  BY Zenon DEF ExpireOutstandingChunks
<1> QED
  BY <1>1, <1>2, AbandonFlight, Zenon

LEMMA NackAllFlight ==
  ASSUME NEW q, Sane(q)
  PROVE  NackAll(q).unacked_packet_bytes <= q.unacked_packet_bytes
<1> DEFINE tsns == {t \in Tsns(q) : ~is_acked(q.outstanding_data[t])}
<1>1. tsns \subseteq Tsns(q) /\ NackAll(q) = NackItems(q, tsns, TRUE, FALSE).q
  BY DEF NackAll
<1> HIDE DEF tsns
<1> QED
  BY <1>1, NackFlight, Zenon

\* A SACK takes from the flight only, and has chunks sent again at once only on
\* a loss, outside fast recovery.
Lighter(h, q, recovering) ==
  /\ h.q.unacked_packet_bytes <= q.unacked_packet_bytes
  /\ h.q.to_be_fast_retransmitted # {} => h.has_packet_loss /\ ~recovering

RemoveFields == {"last_cumulative_tsn_ack", "outstanding_data", "ended",
                 "stream_reset_breakpoint_tsns"}

\* A SACK first acknowledges, then removes, then has messages abandoned.
Sacked(r, q, cum) ==
  \E a, m, ms :
    /\ Sane(a) /\ Touched(a, q) /\ Abandons(a, q, {})
    /\ Sane(m) /\ Frame(m, a, RemoveFields) /\ Removes(m, a, cum)
    /\ m.last_cumulative_tsn_ack = cum
    /\ Remains(m, a, cum)
    /\ Sane(r) /\ Frame(r, m, NackFields) /\ Abandons(r, m, ms)

LEMMA HandleSackChunkIs ==
  \A q, cum, gap, b, recovering :
       /\ Sane(q)
       /\ q.to_be_fast_retransmitted = {}
       /\ cum \in q.last_cumulative_tsn_ack..q.highest_tsn
       /\ b \in Nat
       /\ gap \subseteq 0..b
       /\ recovering \in BOOLEAN
    => LET h == HandleSackChunk(q, cum, gap, recovering)
       IN  Sacked(h.q, q, cum) /\ h.bytes_acked \in Int /\ Lighter(h, q, recovering)
<1>1. ASSUME NEW q, Sane(q), q.to_be_fast_retransmitted = {}, NEW tsns, tsns \subseteq Tsns(q)
      PROVE  LET r == AckChunks(q, tsns)
             IN  /\ Sane(r) /\ Touched(r, q) /\ Abandons(r, q, {})
                 /\ r.to_be_fast_retransmitted = {}
                 /\ \A t \in tsns : is_acked(r.outstanding_data[t])
                 /\ \A t \in Tsns(q) \ tsns : r.outstanding_data[t] = q.outstanding_data[t]
  <2> USE <1>1
  <2> DEFINE od == [t \in Tsns(q) |-> IF t \in tsns THEN Ack(q.outstanding_data[t])
                                      ELSE q.outstanding_data[t]]
             rtx == q.to_be_retransmitted \
                      {t \in tsns : should_be_retransmitted(q.outstanding_data[t])}
             n == NotUnacked(q, tsns)
             fast == {}
             r == AckChunks(q, tsns)
  <2>1. Shape(q)
    BY DEF Sane
  <2>2. Frame(n, q, {"unacked_payload_bytes", "unacked_packet_bytes", "unacked_items"})
    BY <2>1, CountUnackedIs DEF NotUnacked
  <2>3. r = [n EXCEPT !.to_be_retransmitted = rtx, !.outstanding_data = od]
    BY <2>1, <2>2, Zenon DEF AckChunks, Frame, Shape, QueueFields, Tsns
  <2>4. n.to_be_fast_retransmitted = {} /\ IsRecord(n) /\ QueueFields \subseteq DOMAIN n
    BY <2>1, <2>2 DEF Frame, Shape, QueueFields
  <2> HIDE DEF n, rtx, od
  <2>5. Exchanged(r, q, tsns, od, rtx, fast)
    <3>1. r = [n EXCEPT !.outstanding_data = od, !.to_be_retransmitted = rtx,
                        !.to_be_fast_retransmitted = fast]
      BY <2>3, <2>4, Zenon DEF IsRecord, QueueFields
    <3> QED
      BY <3>1, Zenon DEF Exchanged, n
  <2>6. \A t \in Tsns(q) : IsItem(q.outstanding_data[t])
    BY <2>1 DEF Shape
  <2>7. /\ IsRecord(od) /\ DOMAIN od = Tsns(q)
        /\ \A t \in tsns : od[t] = Ack(q.outstanding_data[t])
        /\ \A t \in Tsns(q) \ tsns : od[t] = q.outstanding_data[t]
    BY DEF od, IsRecord
  <2>8. \A t \in Tsns(q) : /\ IsItem(od[t]) /\ SameChunk(od[t], q.outstanding_data[t])
                           /\ is_abandoned(od[t]) <=> is_abandoned(q.outstanding_data[t])
    BY <2>6, <2>7, AckIs DEF SameChunk
  <2>9. \A t \in tsns : ~is_outstanding(od[t]) /\ is_acked(od[t])
                        /\ ~should_be_retransmitted(od[t])
    BY <2>6, <2>7, AckIs
  <2>10. rtx \cup fast = {t \in Tsns(q) : should_be_retransmitted(od[t])}
    <3>1. q.to_be_retransmitted \cup {}
            = {t \in Tsns(q) : should_be_retransmitted(q.outstanding_data[t])}
      BY DEF Sane, Marked
    <3> QED
      BY <2>7, <2>9, <3>1 DEF rtx
  <2>11. fast = {} /\ rtx \cap fast = {}
    BY Zenon
  <2> HIDE DEF r, fast
  <2>12. /\ Sane(r) /\ Touched(r, q)
         /\ r.outstanding_data = od /\ r.to_be_fast_retransmitted = fast
    BY <2>5, <2>7, <2>8, <2>9, <2>10, <2>11, NotUnackedIs, SMTT(20)
  <2>13. Abandons(r, q, {})
    BY <2>1, <2>8, <2>12, TouchedAbandons, Zenon
  <2> QED
    BY <2>7, <2>9, <2>11, <2>12, <2>13 DEF r
<1>2. ASSUME NEW q, Sane(q), NEW cum, cum \in q.last_cumulative_tsn_ack..q.highest_tsn,
             \A t \in Tsns(q) : t <= cum => is_acked(q.outstanding_data[t])
      PROVE  LET r == RemoveAcked(q, cum)
             IN  /\ Sane(r) /\ Removes(r, q, cum)
                 /\ Frame(r, q, {"last_cumulative_tsn_ack", "outstanding_data", "ended",
                                 "stream_reset_breakpoint_tsns"})
                 /\ r.last_cumulative_tsn_ack = cum
                 /\ Remains(r, q, cum)
  <2> USE <1>2
  <2> DEFINE removed == {t \in Tsns(q) : t <= cum}
             outcome(t) == IF is_abandoned(q.outstanding_data[t]) THEN "Expired" ELSE "Delivered"
             EndOf(m) == {t \in removed : /\ q.outstanding_data[t].lifecycle_id
                                          /\ q.outstanding_data[t].message_id = m}
             last == Max({q.last_cumulative_tsn_ack} \cup removed)
             od == [t \in (last + 1)..q.highest_tsn |-> q.outstanding_data[t]]
             en == [m \in DOMAIN q.ended |->
                      IF EndOf(m) = {} THEN q.ended[m]
                      ELSE Append(q.ended[m], outcome(CHOOSE t \in EndOf(m) : TRUE))]
             breakpoints == {t \in q.stream_reset_breakpoint_tsns : t > cum + 1}
             r == RemoveAcked(q, cum)
  <2>1. r = [q EXCEPT !.last_cumulative_tsn_ack = last, !.outstanding_data = od, !.ended = en,
                      !.stream_reset_breakpoint_tsns = breakpoints]
    BY DEF RemoveAcked
  <2>2. Shape(q) /\ Counted(q) /\ Marked(q)
    BY DEF Sane
  <2>3. cum \in Nat /\ cum <= q.highest_tsn /\ q.last_cumulative_tsn_ack <= cum
    BY <2>2 DEF Shape
  <2>4. last = cum
    <3> DEFINE S == {q.last_cumulative_tsn_ack} \cup removed
    <3>1. S \subseteq Nat /\ S # {} /\ \A x \in S : x <= cum
      BY <2>2, <2>3 DEF Shape
    <3>2. cum \in S
      BY <2>2, <2>3 DEF Shape
    <3> HIDE DEF S
    <3>3. Max(S) \in S /\ \A x \in S : x <= Max(S)
      BY <2>3, <3>1, MaxOf, Zenon
    <3>4. Max(S) \in Nat /\ Max(S) <= cum /\ cum <= Max(S)
      BY <3>1, <3>2, <3>3, Zenon
    <3>5. Max(S) = cum
      BY <2>3, <3>4
    <3> QED
      BY <3>5 DEF S
  <2> HIDE DEF last
  <2>5. /\ IsRecord(od) /\ DOMAIN od = (cum + 1)..q.highest_tsn
        /\ \A t \in DOMAIN od : od[t] = q.outstanding_data[t]
    BY <2>4 DEF IsRecord
  <2>6. DOMAIN en = DOMAIN q.ended
    BY SMTT(20)
  <2>7. ASSUME NEW m \in DOMAIN q.ended
        PROVE  \/ /\ en[m] = q.ended[m]
                  /\ \A t \in Tsns(q) : /\ t <= cum
                                        /\ q.outstanding_data[t].message_id = m
                                        => ~q.outstanding_data[t].lifecycle_id
               \/ \E t \in Tsns(q) :
                    /\ t <= cum
                    /\ q.outstanding_data[t].message_id = m /\ q.outstanding_data[t].lifecycle_id
                    /\ en[m] = Append(q.ended[m], IF is_abandoned(q.outstanding_data[t])
                                                  THEN "Expired" ELSE "Delivered")
    <3>1. CASE EndOf(m) = {}
      <4>1. en[m] = q.ended[m]
        BY <3>1
      <4>2. \A t \in Tsns(q) : /\ t <= cum
                               /\ q.outstanding_data[t].message_id = m
                               => ~q.outstanding_data[t].lifecycle_id
        BY <3>1, ZenonT(30)
      <4> QED
        BY <4>1, <4>2, Zenon
    <3>2. CASE EndOf(m) # {}
      <4> DEFINE t == CHOOSE t \in EndOf(m) : TRUE
      <4>1. t \in EndOf(m)
        BY <3>2, Zenon
      <4>2. en[m] = Append(q.ended[m], outcome(t))
        BY <3>2, Zenon
      <4> HIDE DEF t
      <4> QED
        BY <4>1, <4>2, Zenon
    <3> QED
      BY <3>1, <3>2, Zenon
  <2> HIDE DEF od, en, breakpoints
  <2>8. /\ Frame(r, q, {"last_cumulative_tsn_ack", "outstanding_data", "ended",
                        "stream_reset_breakpoint_tsns"})
        /\ r.last_cumulative_tsn_ack = cum /\ r.outstanding_data = od /\ r.ended = en
    BY <2>1, <2>2, <2>4, ZenonT(30) DEF Frame, IsRecord, Shape, QueueFields
  <2> HIDE DEF r
  <2>9. /\ r.highest_tsn = q.highest_tsn
        /\ r.unacked_payload_bytes = q.unacked_payload_bytes
        /\ r.unacked_packet_bytes = q.unacked_packet_bytes
        /\ r.unacked_items = q.unacked_items
        /\ r.to_be_retransmitted = q.to_be_retransmitted
        /\ r.to_be_fast_retransmitted = q.to_be_fast_retransmitted
    BY <2>2, <2>8 DEF Frame, Shape, QueueFields
  <2>10. Removes(r, q, cum)
    BY <2>6, <2>7, <2>8 DEF Removes
  <2>11. \A t \in Tsns(r) : /\ t \in Tsns(q) /\ t > cum
                            /\ r.outstanding_data[t] = q.outstanding_data[t]
    BY <2>2, <2>3, <2>5, <2>8 DEF Shape, Tsns
  <2>12. Shape(r)
    BY <2>2, <2>3, <2>5, <2>8, <2>9, <2>11 DEF Shape, Frame, Tsns
  <2>13. \A t \in Tsns(q) : t \in Tsns(r) \/ is_acked(q.outstanding_data[t])
    BY <2>2, <2>3, <2>5, <2>8 DEF Shape, Tsns
  <2>14. \A t \in Tsns(q) : is_acked(q.outstanding_data[t]) =>
           ~is_outstanding(q.outstanding_data[t]) /\ ~should_be_retransmitted(q.outstanding_data[t])
    BY <2>2 DEF Shape, IsItem, is_acked, is_outstanding, is_nacked
  <2>15. Unacked(r) = Unacked(q)
         /\ \A t \in Unacked(q) : r.outstanding_data[t].data = q.outstanding_data[t].data
    BY <2>11, <2>13, <2>14 DEF Unacked
  <2>16. Counted(r)
    BY <2>2, <2>9, <2>12, <2>15, Stay
  <2>17. Marked(r)
    BY <2>2, <2>9, <2>11, <2>13, <2>14 DEF Marked
  <2>18. Remains(r, q, cum)
    BY <2>11, Zenon DEF Remains
  <2> QED
    BY <2>8, <2>10, <2>18, <2>12, <2>16, <2>17 DEF Sane, r
<1>  SUFFICES ASSUME NEW q, Sane(q), q.to_be_fast_retransmitted = {},
                     NEW cum, cum \in q.last_cumulative_tsn_ack..q.highest_tsn,
                     NEW gap, NEW b \in Nat, gap \subseteq 0..b, NEW recovering \in BOOLEAN
              PROVE  LET h == HandleSackChunk(q, cum, gap, recovering)
                     IN  Sacked(h.q, q, cum) /\ h.bytes_acked \in Int /\ Lighter(h, q, recovering)
  BY ZenonT(30)
<1> DEFINE newly == NewlyAcked(q, cum, gap)
           a == AckChunks(q, newly)
           m == RemoveAcked(a, cum)
           top == Max({cum} \cup newly)
           nacked == ToNack(m, cum, gap, top, recovering)
           h == HandleSackChunk(q, cum, gap, recovering)
           r == h.q
<1>3. Shape(q)
  BY DEF Sane
<1>4. newly \subseteq Tsns(q)
      /\ \A t \in Tsns(q) : t <= cum => t \in newly \/ is_acked(q.outstanding_data[t])
  BY DEF NewlyAcked
<1> HIDE DEF newly
<1>5. /\ Sane(a) /\ Touched(a, q) /\ Abandons(a, q, {}) /\ a.to_be_fast_retransmitted = {}
      /\ \A t \in newly : is_acked(a.outstanding_data[t])
      /\ \A t \in Tsns(q) \ newly : a.outstanding_data[t] = q.outstanding_data[t]
  BY <1>4, <1>1
<1>6. h = AckInfo(NackItems(m, nacked, FALSE, ~recovering), PacketBytes(q, newly))
  BY DEF HandleSackChunk, NackBetweenAckBlocks, newly
<1>7. a.unacked_packet_bytes <= q.unacked_packet_bytes
       /\ a.unacked_packet_bytes \in Int /\ q.unacked_packet_bytes \in Int
  <2> DEFINE n == NotUnacked(q, newly)
  <2>1. DOMAIN n = DOMAIN q /\ n.unacked_packet_bytes <= q.unacked_packet_bytes
    BY <1>4, NotUnackedFlight, Zenon
  <2>2. QueueFields \subseteq DOMAIN q
    BY <1>3, Zenon DEF Shape
  <2> HIDE DEF n
  <2>3. a.unacked_packet_bytes = n.unacked_packet_bytes
    BY <2>1, <2>2, Zenon DEF AckChunks, QueueFields, n
  <2> QED
    BY <1>5, <2>1, <2>3, InFlight, Zenon
<1> HIDE DEF a
<1>8. /\ Tsns(a) = Tsns(q) /\ a.highest_tsn = q.highest_tsn
      /\ a.last_cumulative_tsn_ack = q.last_cumulative_tsn_ack
  BY <1>3, <1>5, TouchedShape DEF Touched
<1>9. \A t \in Tsns(a) : t <= cum => is_acked(a.outstanding_data[t])
  BY <1>4, <1>5, <1>8
<1>10. /\ Sane(m) /\ Removes(m, a, cum) /\ Frame(m, a, RemoveFields)
      /\ m.last_cumulative_tsn_ack = cum
      /\ Remains(m, a, cum)
  BY <1>5, <1>8, <1>9, <1>2, Zenon DEF RemoveFields
<1> HIDE DEF m
<1>11. /\ m.highest_tsn = a.highest_tsn /\ m.unacked_packet_bytes = a.unacked_packet_bytes
       /\ m.to_be_fast_retransmitted = a.to_be_fast_retransmitted
  BY <1>3, <1>5, <1>10, Zenon DEF Frame, Touched, Shape, QueueFields, Sane, RemoveFields
<1>12. nacked \subseteq Tsns(m)
  <2>1. /\ cum \in Nat /\ q.highest_tsn \in Nat /\ cum <= q.highest_tsn
        /\ \A t \in newly : t \in Nat /\ t <= q.highest_tsn
    BY <1>3, <1>4 DEF Shape
  <2>2. top \in Nat /\ top <= q.highest_tsn
    <3> DEFINE S == {cum} \cup newly
    <3>1. S \subseteq Nat /\ S # {} /\ \A x \in S : x <= q.highest_tsn
      BY <2>1
    <3> HIDE DEF S
    <3>2. Max(S) \in S
      BY <2>1, <3>1, MaxOf, Zenon
    <3> QED
      BY <3>1, <3>2 DEF S
  <2> HIDE DEF top
  <2>3. ~(cum > m.last_cumulative_tsn_ack)
    BY <1>10, <2>1
  <2> DEFINE block == Max({cum} \cup gap)
  <2>4. block \in Nat
    <3> DEFINE S == {cum} \cup gap
               c == cum + b
    <3>1. S \subseteq Nat /\ S # {} /\ c \in Nat /\ \A x \in S : x <= c
      <4>1. c \in Nat /\ cum <= c /\ cum \in Nat
        BY <2>1
      <4>2. \A x \in gap : x \in Nat /\ x <= c
        BY <2>1
      <4> HIDE DEF c
      <4> QED
        BY <4>1, <4>2, Zenon
    <3> HIDE DEF S, c
    <3>2. Max(S) \in S
      BY <3>1, MaxOf, Zenon
    <3> QED
      BY <3>1, <3>2, Zenon DEF S
  <2> HIDE DEF block
  <2>5. nacked \subseteq {t \in (cum + 1)..block : t <= top}
    BY <2>3 DEF ToNack, block
  <2>6. Tsns(m) = (cum + 1)..q.highest_tsn
    BY <1>8, <1>10, <1>11 DEF Sane, Shape
  <2> QED
    BY <2>1, <2>2, <2>4, <2>5, <2>6
<1> HIDE DEF nacked
<1> DEFINE n == NackItems(m, nacked, FALSE, ~recovering)
<1>13. Sane(n.q) /\ Frame(n.q, m, NackFields) /\ \E ms : Abandons(n.q, m, ms)
  BY <1>10, <1>12, NackItemsIs, Zenon
<1>14. /\ n.q.unacked_packet_bytes <= m.unacked_packet_bytes
       /\ \/ ~recovering /\ n.has_packet_loss
          \/ n.q.to_be_fast_retransmitted \subseteq m.to_be_fast_retransmitted
  BY <1>10, <1>12, NackFlight, Zenon
<1>15. r = n.q /\ h.bytes_acked = PacketBytes(q, newly) /\ h.has_packet_loss = n.has_packet_loss
  BY <1>6 DEF AckInfo
<1> HIDE DEF h, n
<1>16. Lighter(h, q, recovering)
  <2>1. n.q.unacked_packet_bytes \in Int
    BY <1>13, InFlight
  <2>2. h.q.unacked_packet_bytes <= q.unacked_packet_bytes
    BY <1>11, <1>15, <1>7, <1>14, <2>1
  <2>3. h.q.to_be_fast_retransmitted # {} => h.has_packet_loss /\ ~recovering
    BY <1>5, <1>11, <1>15, <1>14
  <2> QED
    BY <2>2, <2>3, Zenon DEF Lighter
<1>17. PacketBytes(q, newly) \in Int
  BY <1>3, <1>4, BytesType
<1>18. PICK ms : Abandons(r, m, ms)
  BY <1>13, <1>15
<1>19. Sacked(r, q, cum)
  <2>1. Sane(r) /\ Frame(r, m, NackFields)
    BY <1>13, <1>15, SMTT(20)
  <2> QED
    BY <1>5, <1>10, <1>18, <2>1, Zenon DEF Sacked
<1> QED
  BY <1>15, <1>17, <1>19, <1>16, Zenon DEF h

------------------------------------------------------------------------------
(* Retransmission, expiry, T3-rtx.                                         *)

\* Chunks that waited to be retransmitted come into flight again.
Resent(r, q, tsns, rtx, fast) ==
  r = [Retransmit(q, tsns) EXCEPT !.to_be_retransmitted = rtx,
                                  !.to_be_fast_retransmitted = fast]

LEMMA RetransmitIs ==
  \A q, tsns, rtx, fast, r :
       /\ Sane(q)
       /\ tsns \subseteq q.to_be_retransmitted \cup q.to_be_fast_retransmitted
       /\ Resent(r, q, tsns, rtx, fast)
       /\ rtx \cup fast = (q.to_be_retransmitted \cup q.to_be_fast_retransmitted) \ tsns
       /\ rtx \cap fast = {}
    => /\ Sane(r) /\ Touched(r, q) /\ Abandons(r, q, {})
       /\ r.to_be_fast_retransmitted = fast /\ tsns \subseteq Tsns(q)
       /\ \A t \in tsns : ~is_abandoned(r.outstanding_data[t])
<1>1. ASSUME NEW item, IsItem(item)
      PROVE  LET r == MarkAsRetransmitted(item)
             IN  /\ IsItem(r) /\ SameChunk(r, item) /\ is_outstanding(r)
                 /\ ~is_abandoned(r) /\ ~should_be_retransmitted(r)
  BY <1>1, Zenon DEF IsItem, IsRecord, ItemFields, SameChunk, MarkAsRetransmitted, is_abandoned,
       should_be_retransmitted, is_outstanding, is_nacked
<1>  SUFFICES ASSUME NEW q, Sane(q), NEW tsns,
                     tsns \subseteq q.to_be_retransmitted \cup q.to_be_fast_retransmitted,
                     NEW rtx, NEW fast, NEW r,
                     Resent(r, q, tsns, rtx, fast),
                     rtx \cup fast = (q.to_be_retransmitted \cup q.to_be_fast_retransmitted) \ tsns,
                     rtx \cap fast = {}
              PROVE  /\ Sane(r) /\ Touched(r, q) /\ Abandons(r, q, {})
                     /\ r.to_be_fast_retransmitted = fast /\ tsns \subseteq Tsns(q)
                     /\ \A t \in tsns : ~is_abandoned(r.outstanding_data[t])
  OBVIOUS
<1> DEFINE od == [t \in Tsns(q) |-> IF t \in tsns THEN MarkAsRetransmitted(q.outstanding_data[t])
                                    ELSE q.outstanding_data[t]]
           p == [q EXCEPT !.outstanding_data = od]
           c == CountUnacked(p, tsns, 1)
<1>2. Shape(q) /\ Counted(q)
      /\ q.to_be_retransmitted \cup q.to_be_fast_retransmitted
           = {t \in Tsns(q) : should_be_retransmitted(q.outstanding_data[t])}
  BY DEF Sane, Marked
<1>3. /\ tsns \subseteq Tsns(q)
      /\ \A t \in tsns : should_be_retransmitted(q.outstanding_data[t])
  BY <1>2
<1>4. \A t \in tsns : ~is_outstanding(q.outstanding_data[t]) /\ ~is_abandoned(q.outstanding_data[t])
  BY <1>2, <1>3 DEF Shape, IsItem, should_be_retransmitted, is_nacked, is_outstanding, is_abandoned
<1>5. r = [c EXCEPT !.to_be_retransmitted = rtx, !.to_be_fast_retransmitted = fast]
  BY DEF Resent, Retransmit, Tsns
<1>6. /\ IsRecord(od) /\ DOMAIN od = Tsns(q)
      /\ \A t \in tsns : od[t] = MarkAsRetransmitted(q.outstanding_data[t])
      /\ \A t \in Tsns(q) \ tsns : od[t] = q.outstanding_data[t]
  BY <1>3 DEF IsRecord
<1> HIDE DEF od
<1>7. /\ \A t \in Tsns(q) : IsItem(od[t]) /\ SameChunk(od[t], q.outstanding_data[t])
      /\ \A t \in tsns : /\ is_outstanding(od[t]) /\ ~is_abandoned(od[t])
                         /\ ~should_be_retransmitted(od[t])
  BY <1>2, <1>3, <1>6, <1>1 DEF Shape, SameChunk
<1>8. Frame(p, q, {"outstanding_data"}) /\ p.outstanding_data = od
  BY <1>2, Zenon DEF Frame, IsRecord, Shape, QueueFields
<1> HIDE DEF p
<1>9. Touched(p, q)
  BY <1>6, <1>7, <1>8, Zenon DEF Touched, Frame, FlightFields, Tsns
<1>10. Shape(p)
  BY <1>2, <1>9, TouchedShape, Zenon
<1>11. /\ Frame(c, p, {"unacked_payload_bytes", "unacked_packet_bytes", "unacked_items"})
       /\ c.unacked_payload_bytes = p.unacked_payload_bytes + 1 * PayloadBytes(p, tsns)
       /\ c.unacked_packet_bytes = p.unacked_packet_bytes + 1 * PacketBytes(p, tsns)
       /\ c.unacked_items = p.unacked_items + 1 * Cardinality(tsns)
  BY <1>10, CountUnackedIs
<1> HIDE DEF c
<1>12. /\ Frame(r, q, FlightFields) /\ r.outstanding_data = od
       /\ r.to_be_retransmitted = rtx /\ r.to_be_fast_retransmitted = fast
       /\ r.unacked_payload_bytes = c.unacked_payload_bytes
       /\ r.unacked_packet_bytes = c.unacked_packet_bytes
       /\ r.unacked_items = c.unacked_items
       /\ p.unacked_payload_bytes = q.unacked_payload_bytes
       /\ p.unacked_packet_bytes = q.unacked_packet_bytes
       /\ p.unacked_items = q.unacked_items
  BY <1>2, <1>5, <1>8, <1>11, Zenon DEF Frame, IsRecord, FlightFields, Shape, QueueFields
<1>13. Touched(r, q)
  BY <1>6, <1>7, <1>12, Zenon DEF Touched, Tsns
<1>14. Shape(r) /\ Tsns(r) = Tsns(q) /\ Tsns(p) = Tsns(q)
  BY <1>2, <1>9, <1>13, TouchedShape, Zenon DEF Touched
<1>15. PayloadBytes(r, tsns) = PayloadBytes(p, tsns) /\ PacketBytes(r, tsns) = PacketBytes(p, tsns)
  <2>1. /\ tsns \subseteq Tsns(p) /\ tsns \subseteq Tsns(r)
        /\ \A t \in tsns : r.outstanding_data[t].data = p.outstanding_data[t].data
    BY <1>3, <1>8, <1>12, <1>14, Zenon
  <2> QED
    BY <1>10, <1>14, <2>1, BytesSame, Zenon
<1>16. /\ tsns \cap Unacked(q) = {} /\ Unacked(r) = Unacked(q) \cup tsns
       /\ \A t \in Unacked(q) : r.outstanding_data[t].data = q.outstanding_data[t].data
  BY <1>3, <1>4, <1>6, <1>7, <1>12, <1>14 DEF Unacked, SameChunk
<1>17. Counted(r)
  <2>1. /\ r.unacked_payload_bytes = q.unacked_payload_bytes + 1 * PayloadBytes(r, tsns)
        /\ r.unacked_packet_bytes = q.unacked_packet_bytes + 1 * PacketBytes(r, tsns)
        /\ r.unacked_items = q.unacked_items + 1 * Cardinality(tsns)
    BY <1>11, <1>12, <1>15, Zenon
  <2>2. tsns \subseteq Tsns(r)
    BY <1>3, <1>14, Zenon
  <2> QED
    BY <1>2, <1>14, <1>16, <2>1, <2>2, Enter, Zenon
<1>18. Marked(r)
  BY <1>2, <1>6, <1>7, <1>12, <1>14, SMTT(20) DEF Marked
<1>19. \A t \in Tsns(q) : is_abandoned(r.outstanding_data[t]) <=>
                            is_abandoned(q.outstanding_data[t])
  BY <1>4, <1>6, <1>7, <1>12
<1> QED
  BY <1>2, <1>3, <1>7, <1>12, <1>13, <1>14, <1>17, <1>18, <1>19, TouchedAbandons, Zenon DEF Sane

LEMMA RetransmitFields ==
  ASSUME NEW q, Shape(q), NEW tsns
  PROVE  LET r == Retransmit(q, tsns)
         IN  /\ IsRecord(r) /\ QueueFields \subseteq DOMAIN r
             /\ r.to_be_retransmitted = q.to_be_retransmitted
             /\ r.to_be_fast_retransmitted = q.to_be_fast_retransmitted
<1> DEFINE od == [t \in DOMAIN q.outstanding_data |->
                    IF t \in tsns THEN MarkAsRetransmitted(q.outstanding_data[t])
                    ELSE q.outstanding_data[t]]
           p == [q EXCEPT !.outstanding_data = od]
<1>1. Retransmit(q, tsns) = CountUnacked(p, tsns, 1)
  BY DEF Retransmit
<1> HIDE DEF od
<1>2. /\ IsRecord(p) /\ QueueFields \subseteq DOMAIN p
      /\ p.to_be_retransmitted = q.to_be_retransmitted
      /\ p.to_be_fast_retransmitted = q.to_be_fast_retransmitted
  BY DEF Shape, IsRecord, QueueFields
<1> HIDE DEF p
<1> QED
  BY <1>1, <1>2, Zenon DEF CountUnacked, IsRecord, QueueFields

LEMMA GetChunksToBeRetransmittedIs ==
  ASSUME NEW q, Sane(q), q.to_be_fast_retransmitted = {}, NEW max_size
  PROVE  LET g == GetChunksToBeRetransmitted(q, max_size)
         IN  /\ Sane(g.q) /\ Touched(g.q, q) /\ Abandons(g.q, q, {})
             /\ g.q.to_be_fast_retransmitted = {} /\ g.sent \subseteq Tsns(q)
             /\ \A t \in g.sent : ~is_abandoned(g.q.outstanding_data[t])
<1> DEFINE sent == CanFit(q, q.to_be_retransmitted, max_size)
           rtx == q.to_be_retransmitted \ sent
           fast == q.to_be_fast_retransmitted
           u == Retransmit(q, sent)
           r == [u EXCEPT !.to_be_retransmitted = @ \ sent]
           g == GetChunksToBeRetransmitted(q, max_size)
<1>1. sent \subseteq q.to_be_retransmitted
  BY DEF CanFit
<1>2. g = [q |-> r, sent |-> sent]
  BY DEF GetChunksToBeRetransmitted
<1> HIDE DEF sent
<1>3. /\ IsRecord(u) /\ QueueFields \subseteq DOMAIN u
      /\ u.to_be_retransmitted = q.to_be_retransmitted
      /\ u.to_be_fast_retransmitted = q.to_be_fast_retransmitted
  BY RetransmitFields DEF Sane
<1> HIDE DEF u
<1>4. r = [u EXCEPT !.to_be_retransmitted = rtx, !.to_be_fast_retransmitted = fast]
  BY <1>3, Zenon DEF IsRecord, QueueFields
<1>5. Resent(r, q, sent, rtx, fast)
  BY <1>4, Zenon DEF Resent, u
<1>6. /\ sent \subseteq q.to_be_retransmitted \cup q.to_be_fast_retransmitted
      /\ rtx \cup fast = (q.to_be_retransmitted \cup q.to_be_fast_retransmitted) \ sent
      /\ fast = {} /\ rtx \cap fast = {}
  BY <1>1
<1>7. g.q = r /\ g.sent = sent
  BY <1>2
<1> HIDE DEF r, rtx, fast, g
<1> QED
  BY <1>5, <1>6, <1>7, RetransmitIs DEF g

LEMMA GetChunksToBeFastRetransmittedIs ==
  ASSUME NEW q, Sane(q), NEW max_size
  PROVE  LET g == GetChunksToBeFastRetransmitted(q, max_size)
         IN  /\ Sane(g.q) /\ Touched(g.q, q) /\ Abandons(g.q, q, {})
             /\ g.q.to_be_fast_retransmitted = {} /\ g.sent \subseteq Tsns(q)
             /\ \A t \in g.sent : ~is_abandoned(g.q.outstanding_data[t])
<1> DEFINE sent == CanFit(q, q.to_be_fast_retransmitted, max_size)
           u == Retransmit(q, sent)
           rtx == q.to_be_retransmitted \cup (q.to_be_fast_retransmitted \ sent)
           fast == {}
           r == [u EXCEPT !.to_be_retransmitted = @ \cup (q.to_be_fast_retransmitted \ sent),
                          !.to_be_fast_retransmitted = {}]
           g == GetChunksToBeFastRetransmitted(q, max_size)
<1>1. sent \subseteq q.to_be_fast_retransmitted
  BY DEF CanFit
<1>2. g = [q |-> r, sent |-> sent]
  BY DEF GetChunksToBeFastRetransmitted
<1> HIDE DEF sent
<1>3. /\ IsRecord(u) /\ QueueFields \subseteq DOMAIN u
      /\ u.to_be_retransmitted = q.to_be_retransmitted
  BY RetransmitFields DEF Sane
<1> HIDE DEF u
<1>4. r = [u EXCEPT !.to_be_retransmitted = rtx, !.to_be_fast_retransmitted = fast]
  BY <1>3 DEF IsRecord, QueueFields
<1>5. Resent(r, q, sent, rtx, fast)
  BY <1>4, Zenon DEF Resent, u
<1>6. /\ sent \subseteq q.to_be_retransmitted \cup q.to_be_fast_retransmitted
      /\ fast = {} /\ rtx \cap fast = {}
  BY <1>1
<1>7. g.q = r /\ g.sent = sent
  BY <1>2
<1>8. rtx \cup fast = (q.to_be_retransmitted \cup q.to_be_fast_retransmitted) \ sent
  BY <1>1 DEF Sane, Marked
<1> HIDE DEF r, rtx, fast, g
<1> QED
  BY <1>5, <1>6, <1>7, <1>8, RetransmitIs DEF g

LEMMA ExpireOutstandingChunksIs ==
  ASSUME NEW q, Sane(q), NEW lapsed
  PROVE  LET r == ExpireOutstandingChunks(q, lapsed)
         IN  /\ Sane(r) /\ Frame(r, q, AbandonFields) /\ \E ms : Abandons(r, q, ms)
             /\ r.to_be_fast_retransmitted \subseteq q.to_be_fast_retransmitted
<1>1. \E tsns : tsns \subseteq Tsns(q) /\ ExpireOutstandingChunks(q, lapsed) = AbandonAllFor(q, tsns)
  <2> DEFINE Expires(t) == /\ is_nacked(q.outstanding_data[t])
                           /\ ~is_abandoned(q.outstanding_data[t])
                           /\ q.outstanding_data[t].message_id \in lapsed
             Gone(t) == \/ is_abandoned(q.outstanding_data[t])
                        \/ \E u \in Tsns(q) : /\ u <= t /\ Expires(u)
                                              /\ q.outstanding_data[u].message_id
                                                   = q.outstanding_data[t].message_id
             walked == {t \in Tsns(q) : \A u \in Tsns(q) : u < t => Gone(u)}
             tsns == {t \in walked : Expires(t)}
  <2>1. tsns \subseteq Tsns(q)
    BY Zenon
  <2>2. ExpireOutstandingChunks(q, lapsed) = AbandonAllFor(q, tsns)
    BY Zenon DEF ExpireOutstandingChunks
  <2> HIDE DEF tsns
  <2> QED
    BY <2>1, <2>2
<1>2. PICK tsns : tsns \subseteq Tsns(q) /\ ExpireOutstandingChunks(q, lapsed) = AbandonAllFor(q, tsns)
  BY <1>1
<1> DEFINE r == AbandonAllFor(q, tsns)
           ms == {q.outstanding_data[t].message_id : t \in tsns}
<1>3. /\ Sane(r) /\ Frame(r, q, AbandonFields) /\ Abandons(r, q, ms)
      /\ r.to_be_fast_retransmitted \subseteq q.to_be_fast_retransmitted
  BY <1>2, AbandonAllForIs, Zenon
<1> HIDE DEF r, ms
<1> QED
  BY <1>2, <1>3 DEF r

LEMMA NackAllIs ==
  ASSUME NEW q, Sane(q)
  PROVE  LET r == NackAll(q)
         IN  /\ Sane(r) /\ Frame(r, q, NackFields) /\ \E ms : Abandons(r, q, ms)
             /\ r.to_be_fast_retransmitted \subseteq q.to_be_fast_retransmitted
<1> DEFINE tsns == {t \in Tsns(q) : ~is_acked(q.outstanding_data[t])}
<1>1. tsns \subseteq Tsns(q) /\ NackAll(q) = NackItems(q, tsns, TRUE, FALSE).q
  BY DEF NackAll
<1> HIDE DEF tsns
<1> QED
  BY <1>1, NackItemsIs, Zenon

\* The chunk that gets the next TSN, before its message is perhaps abandoned.
Inserted(q, message_id, data, rtx, lifecycle_id) ==
  CountUnacked([q EXCEPT !.highest_tsn = q.highest_tsn + 1,
    !.outstanding_data = [t \in DOMAIN @ \cup {q.highest_tsn + 1} |->
      IF t = q.highest_tsn + 1 THEN NewItem(message_id, data, rtx, lifecycle_id)
      ELSE @[t]]], {q.highest_tsn + 1}, 1)

InsertFields == {"unacked_payload_bytes", "unacked_packet_bytes", "unacked_items",
                 "highest_tsn", "outstanding_data"}

\* From q to r a chunk of the message got the next TSN.
Inserts(r, q, message_id, lifecycle_id) ==
  /\ r.last_cumulative_tsn_ack = q.last_cumulative_tsn_ack
  /\ r.highest_tsn = q.highest_tsn + 1
  /\ Tsns(r) = Tsns(q) \cup {q.highest_tsn + 1}
  /\ \A t \in Tsns(q) : r.outstanding_data[t] = q.outstanding_data[t]
  /\ r.outstanding_data[q.highest_tsn + 1].message_id = message_id
  /\ r.outstanding_data[q.highest_tsn + 1].lifecycle_id = lifecycle_id
  /\ ~is_abandoned(r.outstanding_data[q.highest_tsn + 1])

\* It enters as a, and the message is abandoned if it has expired.
Enters(a, r, q, message_id, lifecycle_id, expired) ==
  /\ Sane(a) /\ Frame(a, q, InsertFields) /\ Inserts(a, q, message_id, lifecycle_id)
  /\ Sane(r) /\ Frame(r, a, AbandonFields)
  /\ Abandons(r, a, IF expired THEN {message_id} ELSE {})
  /\ r.to_be_fast_retransmitted \subseteq q.to_be_fast_retransmitted

LEMMA InsertIs ==
  \A q, message_id, data, rtx, lifecycle_id, expired :
       /\ Sane(q)
       /\ IsData(data)
       /\ expired \in BOOLEAN
    => Enters(Inserted(q, message_id, data, rtx, lifecycle_id),
              Insert(q, message_id, data, rtx, expired, lifecycle_id),
              q, message_id, lifecycle_id, expired)
<1>1. ASSUME NEW message_id, NEW data, IsData(data), NEW rtx, NEW lifecycle_id
      PROVE  LET r == NewItem(message_id, data, rtx, lifecycle_id)
             IN  /\ IsItem(r) /\ is_outstanding(r) /\ ~is_abandoned(r)
                 /\ ~should_be_retransmitted(r)
                 /\ r.message_id = message_id /\ r.data = data /\ r.lifecycle_id = lifecycle_id
  BY <1>1, Zenon DEF NewItem, IsItem, IsRecord, ItemFields, is_outstanding, is_abandoned,
       should_be_retransmitted, is_nacked
<1>2. ASSUME NEW q, Sane(q), NEW message_id, NEW data, IsData(data), NEW rtx, NEW lifecycle_id
      PROVE  LET r == Inserted(q, message_id, data, rtx, lifecycle_id)
             IN  Sane(r) /\ Frame(r, q, InsertFields) /\ Inserts(r, q, message_id, lifecycle_id)
  <2> USE <1>2
  <2> DEFINE tsn == q.highest_tsn + 1
             item == NewItem(message_id, data, rtx, lifecycle_id)
             od == [t \in DOMAIN q.outstanding_data \cup {tsn} |->
                      IF t = tsn THEN item ELSE q.outstanding_data[t]]
             p == [q EXCEPT !.highest_tsn = tsn, !.outstanding_data = od]
             r == Inserted(q, message_id, data, rtx, lifecycle_id)
  <2>1. r = CountUnacked(p, {tsn}, 1)
    BY DEF Inserted
  <2>2. Shape(q) /\ Counted(q) /\ Marked(q)
    BY DEF Sane
  <2>3. /\ IsItem(item) /\ is_outstanding(item) /\ ~is_abandoned(item)
        /\ ~should_be_retransmitted(item)
        /\ item.message_id = message_id /\ item.data = data /\ item.lifecycle_id = lifecycle_id
    BY <1>1
  <2> HIDE DEF item
  <2>4. tsn \notin Tsns(q) /\ tsn \in Nat
        /\ (q.last_cumulative_tsn_ack + 1)..tsn = Tsns(q) \cup {tsn}
    BY <2>2 DEF Shape
  <2>5. /\ IsRecord(od) /\ DOMAIN od = Tsns(q) \cup {tsn} /\ od[tsn] = item
        /\ \A t \in Tsns(q) : od[t] = q.outstanding_data[t]
    <3> HIDE DEF tsn
    <3> QED
      BY <2>4 DEF IsRecord, Tsns
  <2> HIDE DEF od
  <2>6. Frame(p, q, {"highest_tsn", "outstanding_data"}) /\ p.highest_tsn = tsn
        /\ p.outstanding_data = od
    BY <2>2, Zenon DEF Frame, IsRecord, Shape, QueueFields
  <2>7. Shape(p)
    <3> HIDE DEF p
    <3>1. p.last_cumulative_tsn_ack = q.last_cumulative_tsn_ack
      BY <2>2, <2>6, Zenon DEF Frame, Shape, QueueFields
    <3>2. Tsns(p) = (p.last_cumulative_tsn_ack + 1)..p.highest_tsn
      BY <2>4, <2>5, <2>6, <3>1, Zenon DEF Tsns
    <3>3. \A t \in Tsns(p) : IsItem(p.outstanding_data[t])
      BY <2>2, <2>3, <2>5, <2>6 DEF Shape, Tsns
    <3>4. p.last_cumulative_tsn_ack <= p.highest_tsn
      BY <2>2, <2>6, <3>1 DEF Shape
    <3> QED
      BY <2>2, <2>4, <2>5, <2>6, <3>1, <3>2, <3>3, <3>4, Zenon DEF Shape, Frame
  <2> HIDE DEF p
  <2>8. /\ Frame(r, p, {"unacked_payload_bytes", "unacked_packet_bytes", "unacked_items"})
        /\ r.unacked_payload_bytes = p.unacked_payload_bytes + 1 * PayloadBytes(p, {tsn})
        /\ r.unacked_packet_bytes = p.unacked_packet_bytes + 1 * PacketBytes(p, {tsn})
        /\ r.unacked_items = p.unacked_items + 1 * Cardinality({tsn})
    BY <2>1, <2>7, CountUnackedIs
  <2> HIDE DEF r
  <2>9. /\ Frame(r, q, InsertFields) /\ r.highest_tsn = tsn /\ r.outstanding_data = od
        /\ r.last_cumulative_tsn_ack = q.last_cumulative_tsn_ack
        /\ p.last_cumulative_tsn_ack = q.last_cumulative_tsn_ack
        /\ r.to_be_retransmitted = q.to_be_retransmitted
        /\ r.to_be_fast_retransmitted = q.to_be_fast_retransmitted
        /\ p.unacked_payload_bytes = q.unacked_payload_bytes
        /\ p.unacked_packet_bytes = q.unacked_packet_bytes
        /\ p.unacked_items = q.unacked_items
    BY <2>2, <2>6, <2>8, Zenon DEF Frame, InsertFields, Shape, QueueFields
  <2>10. Shape(r) /\ Tsns(r) = Tsns(q) \cup {tsn} /\ Tsns(p) = Tsns(r)
    BY <2>5, <2>6, <2>7, <2>8, <2>9, Zenon DEF Shape, Frame, Tsns
  <2>11. Inserts(r, q, message_id, lifecycle_id)
    BY <2>3, <2>5, <2>9, <2>10, Zenon DEF Inserts
  <2>12. PayloadBytes(r, {tsn}) = PayloadBytes(p, {tsn}) /\ PacketBytes(r, {tsn}) = PacketBytes(p, {tsn})
    <3>1. {tsn} \subseteq Tsns(p) /\ {tsn} \subseteq Tsns(r)
          /\ \A t \in {tsn} : r.outstanding_data[t].data = p.outstanding_data[t].data
      BY <2>6, <2>9, <2>10, Zenon
    <3> QED
      BY <2>7, <2>10, <3>1, BytesSame
  <2>13. Counted(r)
    <3>1. /\ r.unacked_payload_bytes = q.unacked_payload_bytes + 1 * PayloadBytes(r, {tsn})
          /\ r.unacked_packet_bytes = q.unacked_packet_bytes + 1 * PacketBytes(r, {tsn})
          /\ r.unacked_items = q.unacked_items + 1 * Cardinality({tsn})
      BY <2>8, <2>9, <2>12, SMTT(20)
    <3> HIDE DEF tsn
    <3>2. /\ \A t \in Tsns(q) : r.outstanding_data[t] = q.outstanding_data[t]
          /\ r.outstanding_data[tsn] = item
      BY <2>5, <2>9, Zenon
    <3>3. Unacked(q) \subseteq Tsns(q) /\ tsn \notin Unacked(q)
      BY <2>4, Zenon DEF Unacked
    <3>4. Unacked(r) = Unacked(q) \cup {tsn}
      BY <2>3, <2>10, <3>2, <3>3 DEF Unacked
    <3>5. /\ {tsn} \subseteq Tsns(r) /\ {tsn} \cap Unacked(q) = {}
          /\ \A t \in Unacked(q) : r.outstanding_data[t].data = q.outstanding_data[t].data
      BY <2>10, <3>2, <3>3
    <3> QED
      BY <2>2, <2>10, <3>1, <3>4, <3>5, Enter
  <2>14. Marked(r)
    BY <2>2, <2>3, <2>4, <2>5, <2>9, <2>10 DEF Marked
  <2> QED
    BY <2>9, <2>10, <2>11, <2>13, <2>14 DEF Sane, r
<1>3. ASSUME NEW q, Shape(q)
      PROVE  Abandons(q, q, {}) /\ Frame(q, q, {})
  BY <1>3 DEF Abandons, SameChunk, Shape, Frame, IsRecord
<1>  SUFFICES ASSUME NEW q, Sane(q), NEW message_id, NEW data, IsData(data), NEW rtx,
                     NEW lifecycle_id, NEW expired \in BOOLEAN
              PROVE  Enters(Inserted(q, message_id, data, rtx, lifecycle_id),
                            Insert(q, message_id, data, rtx, expired, lifecycle_id),
                            q, message_id, lifecycle_id, expired)
  BY Zenon
<1> DEFINE a == Inserted(q, message_id, data, rtx, lifecycle_id)
           r == Insert(q, message_id, data, rtx, expired, lifecycle_id)
           tsn == q.highest_tsn + 1
<1>4. Sane(a) /\ Frame(a, q, InsertFields) /\ Inserts(a, q, message_id, lifecycle_id)
  BY <1>2
<1>5. r = IF expired THEN AbandonAllFor(a, {tsn}) ELSE a
  BY Zenon DEF Insert, Inserted
<1> HIDE DEF a
<1>6. a.to_be_fast_retransmitted = q.to_be_fast_retransmitted
  BY <1>4, SMTT(20) DEF Sane, Shape, Frame, InsertFields, QueueFields
<1>7. CASE ~expired
  <2>1. r = a
    BY <1>5, <1>7
  <2>2. Abandons(a, a, {}) /\ Frame(a, a, {})
    BY <1>4, <1>3 DEF Sane
  <2>3. Frame(a, a, AbandonFields)
    BY <2>2, SMTT(20) DEF Frame
  <2> QED
    BY <1>4, <1>6, <1>7, <2>1, <2>2, <2>3, Zenon DEF Enters, a
<1>8. CASE expired
  <2> DEFINE S == {tsn}
             ms == {a.outstanding_data[t].message_id : t \in S}
  <2>1. r = AbandonAllFor(a, S) /\ S \subseteq Tsns(a)
    BY <1>4, <1>5, <1>8 DEF Inserts
  <2>2. ms = {message_id}
    BY <1>4 DEF Inserts
  <2> HIDE DEF r, S
  <2>3. /\ Sane(r) /\ Frame(r, a, AbandonFields) /\ Abandons(r, a, ms)
        /\ r.to_be_fast_retransmitted \subseteq a.to_be_fast_retransmitted
    BY <1>4, <2>1, AbandonAllForIs, Zenon
  <2> QED
    BY <1>4, <1>6, <1>8, <2>2, <2>3, Zenon DEF Enters, a, r
<1> QED
  BY <1>7, <1>8, Zenon

------------------------------------------------------------------------------
(* What sending adds to the flight.                                        *)

LEMMA BytesOfOne ==
  ASSUME NEW q, Shape(q), NEW t \in Tsns(q)
  PROVE  /\ PacketBytes(q, {t}) = GetSerializedChunkSize(q.outstanding_data[t])
         /\ GetSerializedChunkSize(q.outstanding_data[t]) \in Nat
<1> DEFINE g == [u \in Tsns(q) |-> GetSerializedChunkSize(q.outstanding_data[u])]
<1>1. g[t] \in Nat /\ g[t] = GetSerializedChunkSize(q.outstanding_data[t])
  <2>1. q.outstanding_data[t].data.size \in Nat
    BY Zenon DEF Shape, IsItem, IsData
  <2> QED
    BY <2>1 DEF GetSerializedChunkSize
<1>2. IsFiniteSet({}) /\ t \notin {} /\ {} \cup {t} = {t}
  BY FS_EmptySet
<1>3. PacketBytes(q, {t}) = SumFunctionOnSet(g, {t})
  BY DEF PacketBytes
<1> HIDE DEF g
<1>4. /\ SumFunctionOnSet(g, {} \cup {t}) = g[t] + SumFunctionOnSet(g, {})
      /\ SumFunctionOnSet(g, {}) = 0
  <2>1. \A y \in {} \cup {t} : g[y] \in Int
    BY <1>1
  <2> QED
    BY <1>2, <2>1, SumAdd, SumEmpty, Zenon
<1> QED
  BY <1>1, <1>2, <1>3, <1>4

\* What is left of a packet of max_size after each TSN, from low to n.
Fits(f, q, chunks, t) == t \in chunks /\ GetSerializedChunkSize(q.outstanding_data[t]) <= f[t - 1]
IsLeft(f, q, chunks, max_size, n) ==
  f = [t \in q.last_cumulative_tsn_ack..n |->
         IF t = q.last_cumulative_tsn_ack THEN max_size
         ELSE IF Fits(f, q, chunks, t)
              THEN f[t - 1] - GetSerializedChunkSize(q.outstanding_data[t])
         ELSE f[t - 1]]

LEMMA LeftExists ==
  ASSUME NEW q, Shape(q), NEW chunks, NEW max_size
  PROVE  \E f : IsLeft(f, q, chunks, max_size, q.highest_tsn)
<1> DEFINE low == q.last_cumulative_tsn_ack
           Size(t) == GetSerializedChunkSize(q.outstanding_data[t])
           Next1(f, t) == IF Fits(f, q, chunks, t) THEN f[t - 1] - Size(t) ELSE f[t - 1]
           T == {k \in Nat : k >= low /\ ~\E f : IsLeft(f, q, chunks, max_size, k)}
<1>1. low \in Nat /\ q.highest_tsn \in Nat /\ low <= q.highest_tsn
  BY DEF Shape
<1>2. ASSUME T # {} PROVE FALSE
  <2>1. PICK k \in T : \A j \in T : k <= j
    BY <1>2, LeastNatural, Zenon
  <2>2. k \in Nat /\ k >= low /\ ~\E f : IsLeft(f, q, chunks, max_size, k)
    OBVIOUS
  <2>3. CASE k = low
    <3> DEFINE f == [i \in low..low |-> max_size]
    <3>1. IsLeft(f, q, chunks, max_size, low)
      BY <1>1 DEF IsLeft
    <3> QED
      BY <2>2, <2>3, <3>1
  <2>4. CASE k # low
    <3>1. k - 1 \in Nat /\ k - 1 >= low /\ k - 1 \notin T
      <4> HIDE DEF T
      <4> QED
        BY <1>1, <2>1, <2>2, <2>4
    <3>2. PICK f : IsLeft(f, q, chunks, max_size, k - 1)
      BY <3>1, Zenon
    <3> DEFINE g == [i \in low..k |-> IF i = k THEN Next1(f, k) ELSE f[i]]
    <3>3. \A i \in low..k : g[i] = IF i = low THEN max_size ELSE Next1(g, i)
      <4> TAKE i \in low..k
      <4>1. i \in Int /\ i >= low /\ i <= k
        BY <1>1, <2>2
      <4>2. CASE i = k
        <5>1. g[k] = Next1(f, k) /\ g[k - 1] = f[k - 1] /\ k # low
          BY <1>1, <2>2, <2>4, <3>1
        <5> HIDE DEF g
        <5> QED
          BY <4>2, <5>1, Zenon DEF Fits
      <4>3. CASE i # k
        <5>1. i \in low..(k - 1) /\ g[i] = f[i]
          BY <1>1, <2>2, <4>1, <4>3
        <5>2. f[i] = IF i = low THEN max_size ELSE Next1(f, i)
          BY <3>2, <5>1, Zenon DEF IsLeft
        <5>3. i # low => g[i - 1] = f[i - 1]
          BY <1>1, <2>2, <4>1, <4>3
        <5> HIDE DEF g
        <5> QED
          BY <5>1, <5>2, <5>3, Zenon DEF Fits
      <4> QED
        BY <4>2, <4>3
    <3>4. g = [i \in low..k |-> IF i = low THEN max_size ELSE Next1(g, i)]
      <4>1. g = [i \in low..k |-> g[i]]
        OBVIOUS
      <4> HIDE DEF g
      <4> QED
        BY <3>3, <4>1, Zenon
    <3>5. IsLeft(g, q, chunks, max_size, k)
      <4> HIDE DEF g
      <4> QED
        BY <3>4, Zenon DEF IsLeft
    <3> QED
      BY <2>2, <3>5
  <2> QED
    BY <2>3, <2>4
<1> HIDE DEF T
<1>3. q.highest_tsn \notin T
  BY <1>2
<1> QED
  BY <1>1, <1>3 DEF T

\* The chunks that CanFit() chooses fill the packet at most.
LEMMA CanFitBytes ==
  ASSUME NEW q, Shape(q), NEW chunks, chunks \subseteq Tsns(q), NEW max_size \in Int
  PROVE  LET bytes == PacketBytes(q, CanFit(q, chunks, max_size))
         IN  bytes \in Int /\ (bytes <= max_size \/ bytes = 0)
<1> DEFINE low == q.last_cumulative_tsn_ack
           high == q.highest_tsn
           Size(t) == GetSerializedChunkSize(q.outstanding_data[t])
           left == CHOOSE f : IsLeft(f, q, chunks, max_size, high)
           sent == CanFit(q, chunks, max_size)
           upto(k) == {t \in sent : t <= k}
           Full(k) == /\ left[k] \in Int /\ (left[k] >= 0 \/ left[k] = max_size)
                      /\ PacketBytes(q, upto(k)) = max_size - left[k]
           T == {k \in low..high : ~Full(k)}
<1>1. low \in Nat /\ high \in Nat /\ low <= high /\ Tsns(q) = (low + 1)..high
  BY DEF Shape
<1>2. IsLeft(left, q, chunks, max_size, high)
  BY LeftExists, Zenon
<1>3. sent = {t \in chunks : left[t] # left[t - 1]}
  BY Zenon DEF CanFit, IsLeft, Fits
<1> HIDE DEF left
<1>4. \A k \in low..high :
        left[k] = IF k = low THEN max_size
                  ELSE IF k \in chunks /\ Size(k) <= left[k - 1] THEN left[k - 1] - Size(k)
                  ELSE left[k - 1]
  BY <1>2, Zenon DEF IsLeft, Fits
<1>5. sent \subseteq Tsns(q)
  BY <1>3
<1> HIDE DEF sent
<1>6. ASSUME T # {} PROVE FALSE
  <2>1. PICK k \in T : \A j \in T : k <= j
    <3>1. T \subseteq Nat
      BY <1>1
    <3> HIDE DEF T
    <3> QED
      BY <1>6, <3>1, LeastNatural, Zenon
  <2>2. k \in low..high /\ ~Full(k) /\ k \in Nat
    BY <1>1
  <2>3. CASE k = low
    <3>1. upto(k) = {}
      BY <1>1, <1>5, <2>3
    <3>2. left[k] = max_size
      BY <1>4, <2>2, <2>3, Zenon
    <3>3. PacketBytes(q, {}) = 0
      BY SumEmpty DEF PacketBytes
    <3> QED
      BY <2>2, <3>1, <3>2, <3>3
  <2>4. CASE k # low
    <3>1. \A t \in sent : (t <= k <=> t <= k - 1 \/ t = k) /\ ~(k <= k - 1)
      <4>1. \A t \in sent : t \in Int
        BY <1>1, <1>5
      <4> QED
        BY <2>2, <4>1
    <3>2. k - 1 \in low..high /\ k - 1 \notin T /\ k \in Tsns(q) /\ k - 1 \in Int
      <4> HIDE DEF T
      <4> QED
        BY <1>1, <2>1, <2>2, <2>4
    <3>3. Full(k - 1)
      BY <3>2, Zenon
    <3>4. PacketBytes(q, {k}) = Size(k) /\ Size(k) \in Nat
      BY <3>2, BytesOfOne
    <3>5. CASE k \in sent
      <4>1. left[k] = left[k - 1] - Size(k) /\ Size(k) <= left[k - 1]
        BY <1>3, <1>4, <2>2, <2>4, <3>5, Zenon DEF sent
      <4>2. upto(k) = upto(k - 1) \cup {k} /\ upto(k - 1) \cap {k} = {}
            /\ upto(k - 1) \cup {k} \subseteq Tsns(q)
        BY <1>5, <3>1, <3>2, <3>5, Zenon
      <4> HIDE DEF upto, Size
      <4>3. PacketBytes(q, upto(k - 1) \cup {k}) = PacketBytes(q, upto(k - 1)) + PacketBytes(q, {k})
        <5> DEFINE A == upto(k - 1)
                   B == {k}
        <5>1. A \cup B \subseteq Tsns(q) /\ A \cap B = {}
          BY <4>2, Zenon
        <5> HIDE DEF A, B
        <5>2. PacketBytes(q, A \cup B) = PacketBytes(q, A) + PacketBytes(q, B)
          BY <5>1, BytesDisjoint, SMTT(20)
        <5> QED
          BY <5>2, Zenon DEF A, B
      <4> QED
        BY <2>2, <3>3, <3>4, <4>1, <4>2, <4>3
    <3>6. CASE k \notin sent
      <4>1. left[k] = left[k - 1]
        <5>1. k \in chunks => left[k] = left[k - 1]
          BY <1>3, <3>6, Zenon DEF sent
        <5>2. k \notin chunks => left[k] = left[k - 1]
          BY <1>4, <2>2, <2>4, Zenon
        <5> QED
          BY <5>1, <5>2, Zenon
      <4>2. upto(k) = upto(k - 1)
        BY <3>1, <3>6, Zenon
      <4> HIDE DEF upto
      <4> QED
        BY <2>2, <3>3, <4>1, <4>2, Zenon
    <3> QED
      BY <3>5, <3>6
  <2> QED
    BY <2>3, <2>4
<1> HIDE DEF T
<1>7. Full(high)
  <2>1. high \in low..high /\ high \notin T
    BY <1>1, <1>6
  <2> QED
    BY <2>1, Zenon DEF T
<1>8. upto(high) = sent
  BY <1>1, <1>5
<1> HIDE DEF upto
<1>9. PacketBytes(q, sent) = max_size - left[high]
  BY <1>7, <1>8, Zenon
<1> QED
  BY <1>7, <1>9 DEF sent

\* Chunks that are sent again come into flight again.
LEMMA RetransmitFlight ==
  ASSUME NEW q, Sane(q), NEW tsns, tsns \subseteq Tsns(q)
  PROVE  Retransmit(q, tsns).unacked_packet_bytes
           = q.unacked_packet_bytes + PacketBytes(q, tsns)
<1> DEFINE od == [t \in DOMAIN q.outstanding_data |->
                    IF t \in tsns THEN MarkAsRetransmitted(q.outstanding_data[t])
                    ELSE q.outstanding_data[t]]
           p == [q EXCEPT !.outstanding_data = od]
<1>1. Shape(q) /\ QueueFields \subseteq DOMAIN q /\ \A t \in Tsns(q) : IsItem(q.outstanding_data[t])
  BY Zenon DEF Sane, Shape
<1>2. ASSUME NEW item, IsItem(item) PROVE MarkAsRetransmitted(item).data = item.data
  BY <1>2, Zenon DEF MarkAsRetransmitted, IsItem, ItemFields
<1>3. Retransmit(q, tsns) = CountUnacked(p, tsns, 1)
  BY Zenon DEF Retransmit
<1>4. DOMAIN od = Tsns(q) /\ \A t \in Tsns(q) : od[t].data = q.outstanding_data[t].data
  BY <1>1, <1>2, Zenon DEF Tsns
<1> HIDE DEF od
<1>5. /\ DOMAIN p = DOMAIN q /\ p.outstanding_data = od
      /\ p.unacked_packet_bytes = q.unacked_packet_bytes
  BY <1>1, Zenon DEF QueueFields
<1> HIDE DEF p
<1>6. PacketBytes(p, tsns) = PacketBytes(q, tsns)
  <2> DEFINE f(x) == [t \in Tsns(x) |-> GetSerializedChunkSize(x.outstanding_data[t])]
  <2>1. Tsns(p) = Tsns(q)
        /\ \A t \in Tsns(q) : GetSerializedChunkSize(p.outstanding_data[t])
                                = GetSerializedChunkSize(q.outstanding_data[t])
    BY <1>4, <1>5, Zenon DEF Tsns, GetSerializedChunkSize
  <2>2. f(p) = f(q)
    BY <2>1, Zenon
  <2> QED
    BY <2>2, Zenon DEF PacketBytes
<1>7. CountUnacked(p, tsns, 1).unacked_packet_bytes = p.unacked_packet_bytes + 1 * PacketBytes(p, tsns)
  BY <1>1, <1>5, Zenon DEF CountUnacked, QueueFields
<1>8. q.unacked_packet_bytes \in Int /\ PacketBytes(q, tsns) \in Int
  BY <1>1, InFlight, BytesType, Zenon
<1>9. 1 * PacketBytes(q, tsns) = PacketBytes(q, tsns)
  BY <1>8
<1> QED
  BY <1>3, <1>5, <1>6, <1>7, <1>9, Zenon

LEMMA RetransmittedFlight ==
  ASSUME NEW q, Sane(q), NEW max_size \in Int
  PROVE  LET g == GetChunksToBeRetransmitted(q, max_size)
             bytes == PacketBytes(q, g.sent)
         IN  /\ g.q.unacked_packet_bytes = q.unacked_packet_bytes + bytes
             /\ bytes \in Int /\ (bytes <= max_size \/ bytes = 0)
<1> DEFINE sent == CanFit(q, q.to_be_retransmitted, max_size)
           u == Retransmit(q, sent)
           g == GetChunksToBeRetransmitted(q, max_size)
<1>1. Shape(q) /\ q.to_be_retransmitted \subseteq Tsns(q)
  BY DEF Sane, Marked
<1>2. sent \subseteq q.to_be_retransmitted
  BY Zenon DEF CanFit
<1>3. PacketBytes(q, sent) \in Int /\ (PacketBytes(q, sent) <= max_size \/ PacketBytes(q, sent) = 0)
  BY <1>1, CanFitBytes, Zenon
<1>4. g = [q |-> [u EXCEPT !.to_be_retransmitted = @ \ sent], sent |-> sent]
  BY Zenon DEF GetChunksToBeRetransmitted
<1> HIDE DEF sent
<1>5. QueueFields \subseteq DOMAIN u
      /\ u.unacked_packet_bytes = q.unacked_packet_bytes + PacketBytes(q, sent)
  BY <1>1, <1>2, RetransmitFields, RetransmitFlight, Zenon
<1> DEFINE v == [u EXCEPT !.to_be_retransmitted = @ \ sent]
<1> HIDE DEF u, g
<1>6. v.unacked_packet_bytes = u.unacked_packet_bytes
  BY <1>5, Zenon DEF QueueFields
<1> HIDE DEF v
<1>7. g.sent = sent /\ g.q = v
  BY <1>4, Zenon DEF v
<1> QED
  BY <1>3, <1>5, <1>6, <1>7, Zenon DEF g

LEMMA FastRetransmittedFlight ==
  ASSUME NEW q, Sane(q), NEW max_size \in Nat
  PROVE  GetChunksToBeFastRetransmitted(q, max_size).q.unacked_packet_bytes
           <= q.unacked_packet_bytes + max_size
<1> DEFINE sent == CanFit(q, q.to_be_fast_retransmitted, max_size)
           u == Retransmit(q, sent)
           left == q.to_be_fast_retransmitted \ sent
           g == GetChunksToBeFastRetransmitted(q, max_size)
<1>1. Shape(q) /\ q.to_be_fast_retransmitted \subseteq Tsns(q)
  BY DEF Sane, Marked
<1>2. sent \subseteq q.to_be_fast_retransmitted
  BY Zenon DEF CanFit
<1>3. PacketBytes(q, sent) \in Int /\ (PacketBytes(q, sent) <= max_size \/ PacketBytes(q, sent) = 0)
  BY <1>1, CanFitBytes
<1>4. g = [q |-> [u EXCEPT !.to_be_retransmitted = @ \cup left, !.to_be_fast_retransmitted = {}],
           sent |-> sent]
  BY Zenon DEF GetChunksToBeFastRetransmitted
<1> HIDE DEF sent, left
<1>5. QueueFields \subseteq DOMAIN u
      /\ u.unacked_packet_bytes = q.unacked_packet_bytes + PacketBytes(q, sent)
  BY <1>1, <1>2, RetransmitFields, RetransmitFlight, Zenon
<1> DEFINE v == [u EXCEPT !.to_be_retransmitted = @ \cup left, !.to_be_fast_retransmitted = {}]
<1> HIDE DEF u, g
<1>6. v.unacked_packet_bytes = u.unacked_packet_bytes
  BY <1>5, Zenon DEF QueueFields
<1> HIDE DEF v
<1>7. g.q = v
  BY <1>4, Zenon DEF v
<1>8. q.unacked_packet_bytes \in Int
  BY InFlight
<1>9. g.q.unacked_packet_bytes <= q.unacked_packet_bytes + max_size
  BY <1>3, <1>5, <1>6, <1>7, <1>8
<1> QED
  BY <1>9 DEF g

\* A new chunk takes its header and its data.
LEMMA InsertFlight ==
  ASSUME NEW q, Sane(q), NEW message_id, NEW data, IsData(data), NEW rtx,
         NEW expired \in BOOLEAN, NEW lifecycle_id
  PROVE  Insert(q, message_id, data, rtx, expired, lifecycle_id).unacked_packet_bytes
           = q.unacked_packet_bytes + (data_chunk_header_size + data.size)
<1> DEFINE tsn == q.highest_tsn + 1
           item == NewItem(message_id, data, rtx, lifecycle_id)
           od == [t \in DOMAIN q.outstanding_data \cup {tsn} |->
                    IF t = tsn THEN item ELSE q.outstanding_data[t]]
           p == [q EXCEPT !.highest_tsn = tsn, !.outstanding_data = od]
           a == CountUnacked(p, {tsn}, 1)
           r == Insert(q, message_id, data, rtx, expired, lifecycle_id)
<1>1. QueueFields \subseteq DOMAIN q /\ q.unacked_packet_bytes \in Int
  BY InFlight, Zenon DEF Sane, Shape
<1>2. r = IF expired THEN AbandonAllFor(a, {tsn}) ELSE a
  BY Zenon DEF Insert
<1>3. a = Inserted(q, message_id, data, rtx, lifecycle_id)
  BY Zenon DEF Inserted
<1>4. Sane(a)
  BY <1>3, InsertIs, Zenon DEF Enters
<1>5. item.data = data
  BY Zenon DEF NewItem
<1> HIDE DEF item, tsn
<1>6. tsn \in DOMAIN od /\ od[tsn] = item
  BY Zenon
<1> HIDE DEF od
<1>7. DOMAIN p = DOMAIN q /\ p.outstanding_data = od /\ p.unacked_packet_bytes = q.unacked_packet_bytes
  BY <1>1, Zenon DEF QueueFields
<1> HIDE DEF p
<1>8. /\ QueueFields \subseteq DOMAIN a
      /\ a.unacked_packet_bytes = q.unacked_packet_bytes + 1 * PacketBytes(p, {tsn})
      /\ a.outstanding_data = od
  BY <1>1, <1>7, Zenon DEF CountUnacked, QueueFields
<1> HIDE DEF a
<1>9. PacketBytes(p, {tsn}) = PacketBytes(a, {tsn})
  BY <1>7, <1>8, Zenon DEF PacketBytes, Tsns
<1>10. tsn \in Tsns(a) /\ Shape(a) /\ a.outstanding_data[tsn] = item
  BY <1>4, <1>6, <1>8, Zenon DEF Tsns, Sane
<1>11. PacketBytes(a, {tsn}) = data_chunk_header_size + data.size
  BY <1>5, <1>10, BytesOfOne, Zenon DEF GetSerializedChunkSize
<1>12. data_chunk_header_size + data.size \in Int
  BY DEF IsData
<1>13. a.unacked_packet_bytes = q.unacked_packet_bytes + (data_chunk_header_size + data.size)
  BY <1>1, <1>8, <1>9, <1>11, <1>12
<1>14. AbandonAllFor(a, {tsn}).unacked_packet_bytes = a.unacked_packet_bytes
  BY <1>8, AbandonFlight, Zenon
<1> QED
  BY <1>2, <1>13, <1>14, Zenon
==============================================================================
