-------------------------- MODULE DataTrackerProofs --------------------------
(***************************************************************************)
(* The blocks of a DataTracker stay in order, TSNs are unwrapped to the    *)
(* numbers the peer gave them, SACKs are sent in time, and the tracker     *)
(* implements the set of TSNs it stands for: for every limit, every window *)
(* and any number of chunks.                                               *)
(***************************************************************************)
EXTENDS DataTracker, WellFoundedInduction, TLAPS

Blocks == [first : Int, last : Int]

\* BlocksInOrder, of any blocks above a cumulative TSN.
InOrder(blocks, cum) ==
  \A i \in 1..Len(blocks) :
    /\ blocks[i].first <= blocks[i].last
    /\ blocks[i].first > cum + 1
    /\ \A j \in 1..(i - 1) : blocks[j].last + 1 < blocks[i].first

\* The blocks have this TSN.
Has(blocks, tsn) ==
  \E i \in 1..Len(blocks) : blocks[i].first <= tsn /\ tsn <= blocks[i].last

\* No block reaches beyond top.
UpTo(blocks, top) == \A i \in 1..Len(blocks) : blocks[i].last <= top

------------------------------------------------------------------------------
(* Numbers and sequences.                                                  *)

\* The length and the elements of sequences.
LEMMA LenIs ==
  ASSUME NEW S, NEW seq \in Seq(S)
  PROVE  Len(seq) \in Nat /\ seq \in [1..Len(seq) -> S] /\ DOMAIN seq = 1..Len(seq)
  OBVIOUS

LEMMA ConcatIs ==
  ASSUME NEW S, NEW a \in Seq(S), NEW b \in Seq(S)
  PROVE  /\ a \o b \in Seq(S) /\ Len(a \o b) = Len(a) + Len(b)
         /\ \A i \in 1..(Len(a) + Len(b)) :
              (a \o b)[i] = IF i <= Len(a) THEN a[i] ELSE b[i - Len(a)]
  OBVIOUS

\* A set of natural numbers has a least element: how a loop that counts knows
\* where it stops.
LEMMA LeastNatural ==
  ASSUME NEW T, T \subseteq Nat, T # {}
  PROVE  \E x \in T : \A y \in T : x <= y
<1> DEFINE R == OpToRel(<, Nat)
<1>1. IsWellFoundedOn(R, Nat)
  BY NatLessThanWellFounded, Zenon
<1>2. \A y, x \in Nat : y < x => <<y, x>> \in R
  BY Zenon DEF OpToRel
<1> HIDE DEF R
<1>3. PICK x \in T : \A y \in T : ~(<<y, x>> \in R)
  BY <1>1, WFMin, Zenon
<1>4. ASSUME NEW y \in T PROVE x <= y
  <2>1. x \in Nat /\ y \in Nat
    OBVIOUS
  <2>2. ~(y < x)
    BY <1>2, <1>3, <2>1, Zenon
  <2> QED
    BY <2>1, <2>2
<1> QED
  BY <1>4

\* Division with remainder.
LEMMA Division ==
  ASSUME NEW m \in Nat \ {0}, NEW x \in Int
  PROVE  /\ x % m \in 0..(m - 1)
         /\ x \div m \in Int
         /\ x = m * (x \div m) + (x % m)
  BY SMT

\* What the operations on sequences do to the elements.
LEMMA EmptyIs ==
  ASSUME NEW S
  PROVE  /\ <<>> \in Seq(S) /\ Len(<<>>) = 0
         /\ \A s \in Seq(S) : s # <<>> => Len(s) \in Nat \ {0}
  OBVIOUS

LEMMA ElementIs ==
  ASSUME NEW S, NEW s \in Seq(S), NEW n \in 1..Len(s)
  PROVE  s[n] \in S
  OBVIOUS

LEMMA AppendIs ==
  ASSUME NEW S, NEW s \in Seq(S), NEW e \in S
  PROVE  /\ Append(s, e) \in Seq(S) /\ Len(Append(s, e)) = Len(s) + 1
         /\ \A i \in 1..Len(s) : Append(s, e)[i] = s[i]
         /\ Append(s, e)[Len(s) + 1] = e
  OBVIOUS

LEMMA ExceptIs ==
  ASSUME NEW S, NEW s \in Seq(S), NEW i \in 1..Len(s), NEW e \in S
  PROVE  /\ [s EXCEPT ![i] = e] \in Seq(S) /\ Len([s EXCEPT ![i] = e]) = Len(s)
         /\ \A j \in 1..Len(s) : [s EXCEPT ![i] = e][j] = IF j = i THEN e ELSE s[j]
  OBVIOUS

LEMMA TailIs ==
  ASSUME NEW S, NEW s \in Seq(S), s # <<>>
  PROVE  /\ Tail(s) \in Seq(S) /\ Len(Tail(s)) = Len(s) - 1
         /\ \A i \in 1..Len(Tail(s)) : Tail(s)[i] = s[i + 1]
  OBVIOUS

LEMMA SubSeqTail ==
  ASSUME NEW S, NEW s \in Seq(S), NEW m \in 1..Len(s), NEW n \in m..Len(s)
  PROVE  /\ Head(SubSeq(s, m, n)) = s[m] /\ Tail(SubSeq(s, m, n)) = SubSeq(s, m + 1, n)
  OBVIOUS

\* A part of a sequence, element by element.
LEMMA Part ==
  ASSUME NEW S, NEW s \in Seq(S), NEW m \in 1..(Len(s) + 1), NEW n \in Nat,
         n <= Len(s), m <= n + 1
  PROVE  /\ SubSeq(s, m, n) \in Seq(S)
         /\ Len(SubSeq(s, m, n)) = n - m + 1
         /\ \A k \in 1..(n - m + 1) : SubSeq(s, m, n)[k] = s[m + k - 1]
<1>1. m \in Int /\ n \in Int
  OBVIOUS
<1>2. \A k \in m..n : s[k] \in S
  OBVIOUS
<1>3. /\ SubSeq(s, m, n) \in Seq(S)
      /\ Len(SubSeq(s, m, n)) = IF m <= n THEN n - m + 1 ELSE 0
      /\ \A k \in 1..(n - m + 1) : SubSeq(s, m, n)[k] = s[m + k - 1]
  BY <1>1, <1>2, SMT
<1> QED
  BY <1>1, <1>3

\* Three sequences, one after the other.
LEMMA Joined ==
  ASSUME NEW S, NEW a \in Seq(S), NEW b \in Seq(S), NEW c \in Seq(S)
  PROVE  /\ a \o b \o c \in Seq(S)
         /\ Len(a \o b \o c) = Len(a) + Len(b) + Len(c)
         /\ \A k \in 1..(Len(a) + Len(b) + Len(c)) :
              (a \o b \o c)[k] =
                IF k <= Len(a) THEN a[k]
                ELSE IF k <= Len(a) + Len(b) THEN b[k - Len(a)]
                ELSE c[k - Len(a) - Len(b)]
<1> DEFINE d == a \o b
<1>1. /\ d \in Seq(S) /\ Len(d) = Len(a) + Len(b)
      /\ \A k \in 1..(Len(a) + Len(b)) :
           d[k] = IF k <= Len(a) THEN a[k] ELSE b[k - Len(a)]
  BY ConcatIs
<1> HIDE DEF d
<1> d \in Seq(S)
  BY <1>1
<1>2. /\ d \o c \in Seq(S) /\ Len(d \o c) = Len(d) + Len(c)
      /\ \A k \in 1..(Len(d) + Len(c)) :
           (d \o c)[k] = IF k <= Len(d) THEN d[k] ELSE c[k - Len(d)]
  BY ConcatIs
<1>3. Len(a) \in Nat /\ Len(b) \in Nat /\ Len(c) \in Nat
  BY LenIs
<1>4. ASSUME NEW k \in 1..(Len(a) + Len(b) + Len(c))
      PROVE  (d \o c)[k] = IF k <= Len(a) THEN a[k]
                           ELSE IF k <= Len(a) + Len(b) THEN b[k - Len(a)]
                           ELSE c[k - Len(a) - Len(b)]
  <2>1. k \in 1..(Len(d) + Len(c))
    BY <1>1
  <2>2. (d \o c)[k] = IF k <= Len(d) THEN d[k] ELSE c[k - Len(d)]
    BY <1>2, <2>1
  <2>3. CASE k <= Len(a) + Len(b)
    <3>1. k \in 1..(Len(a) + Len(b))
      BY <2>3
    <3>2. d[k] = IF k <= Len(a) THEN a[k] ELSE b[k - Len(a)]
      BY <1>1, <3>1
    <3> QED
      BY <1>1, <1>3, <2>2, <2>3, <3>2
  <2>4. CASE ~(k <= Len(a) + Len(b))
    <3>1. k - Len(d) = k - Len(a) - Len(b)
      BY <1>1, <1>3
    <3> QED
      BY <1>1, <1>3, <2>2, <2>4, <3>1
  <2> QED
    BY <2>3, <2>4, Zenon
<1> QED
  BY <1>1, <1>2, <1>3, <1>4 DEF d

\* r is s with mid in the place of its elements i..(m - 1).
IsReplaced(r, s, mid, i, m) ==
  /\ Len(r) = (i - 1) + Len(mid) + (Len(s) - m + 1)
  /\ \A k \in 1..(i - 1) : r[k] = s[k]
  /\ \A k \in 1..Len(mid) : r[i - 1 + k] = mid[k]
  /\ \A k \in m..Len(s) : r[k + (i - 1) + Len(mid) - (m - 1)] = s[k]

LEMMA Replaced ==
  ASSUME NEW S, NEW s \in Seq(S), NEW mid \in Seq(S), NEW i \in 1..(Len(s) + 1),
         NEW m \in 1..(Len(s) + 1)
  PROVE  LET r == SubSeq(s, 1, i - 1) \o mid \o SubSeq(s, m, Len(s))
         IN  r \in Seq(S) /\ IsReplaced(r, s, mid, i, m)
<1> DEFINE a == SubSeq(s, 1, i - 1)
           c == SubSeq(s, m, Len(s))
           r == a \o mid \o c
           l == Len(mid)
<1>1. Len(s) \in Nat /\ l \in Nat /\ i - 1 \in Nat /\ i \in Int /\ m \in Int
  BY LenIs
<1>2. /\ a \in Seq(S) /\ Len(a) = i - 1
      /\ \A k \in 1..(i - 1) : a[k] = s[k]
  <2>1. 1 \in 1..(Len(s) + 1) /\ i - 1 <= Len(s) /\ 1 <= (i - 1) + 1 /\ (i - 1) - 1 + 1 = i - 1
    BY <1>1
  <2>2. /\ a \in Seq(S) /\ Len(a) = (i - 1) - 1 + 1
        /\ \A k \in 1..((i - 1) - 1 + 1) : a[k] = s[1 + k - 1]
    BY <1>1, <2>1, Part
  <2>3. \A k \in 1..(i - 1) : 1 + k - 1 = k
    BY <1>1
  <2> QED
    BY <2>1, <2>2, <2>3
<1>3. /\ c \in Seq(S) /\ Len(c) = Len(s) - m + 1
      /\ \A k \in 1..(Len(s) - m + 1) : c[k] = s[m + k - 1]
  <2>1. Len(s) <= Len(s) /\ m <= Len(s) + 1
    BY <1>1
  <2> QED
    BY <1>1, <2>1, Part
<1> HIDE DEF a, c
<1> a \in Seq(S) /\ c \in Seq(S)
  BY <1>2, <1>3
<1>4. /\ r \in Seq(S) /\ Len(r) = Len(a) + l + Len(c)
      /\ \A k \in 1..(Len(a) + l + Len(c)) :
           r[k] = IF k <= Len(a) THEN a[k]
                  ELSE IF k <= Len(a) + l THEN mid[k - Len(a)]
                  ELSE c[k - Len(a) - l]
  BY Joined
<1> HIDE DEF r
<1>5. ASSUME NEW k \in 1..(i - 1) PROVE r[k] = s[k]
  <2>1. k \in 1..(Len(a) + l + Len(c)) /\ k <= Len(a)
    BY <1>1, <1>2, <1>3
  <2> QED
    BY <1>2, <1>4, <2>1, Zenon
<1>6. ASSUME NEW k \in 1..l PROVE r[i - 1 + k] = mid[k]
  <2>1. /\ i - 1 + k \in 1..(Len(a) + l + Len(c)) /\ ~(i - 1 + k <= Len(a))
        /\ i - 1 + k <= Len(a) + l /\ (i - 1 + k) - Len(a) = k
    BY <1>1, <1>2, <1>3
  <2> QED
    BY <1>4, <2>1, Zenon
<1>7. ASSUME NEW k \in m..Len(s) PROVE r[k + (i - 1) + l - (m - 1)] = s[k]
  <2> DEFINE p == k + (i - 1) + l - (m - 1)
  <2>1. /\ p \in 1..(Len(a) + l + Len(c)) /\ ~(p <= Len(a)) /\ ~(p <= Len(a) + l)
        /\ p - Len(a) - l = k - m + 1
        /\ k - m + 1 \in 1..(Len(s) - m + 1) /\ m + (k - m + 1) - 1 = k
    BY <1>1, <1>2, <1>3
  <2> HIDE DEF p
  <2>2. r[p] = c[k - m + 1]
    BY <1>4, <2>1, Zenon
  <2>3. c[k - m + 1] = s[k]
    BY <1>3, <2>1, Zenon
  <2> QED
    BY <2>2, <2>3 DEF p
<1> QED
  BY <1>1, <1>2, <1>3, <1>4, <1>5, <1>6, <1>7, Zenon DEF r, a, c, IsReplaced

------------------------------------------------------------------------------
(* AdditionalTsnBlocks.                                                    *)

IsLowerBound(it, blocks, tsn) ==
  /\ it \in 1..(Len(blocks) + 1)
  /\ \A j \in 1..(it - 1) : blocks[j].last < tsn
  /\ it <= Len(blocks) => blocks[it].last >= tsn

\* The binary search finds the first block that does not end before tsn.
LEMMA LowerBoundIs ==
  ASSUME NEW blocks \in Seq(Blocks), NEW tsn \in Int
  PROVE  IsLowerBound(LowerBound(blocks, tsn), blocks, tsn)
<1> DEFINE T == {i \in 1..(Len(blocks) + 1) :
                   i <= Len(blocks) => blocks[i].last >= tsn}
<1>1. Len(blocks) \in Nat
  BY LenIs
<1>2. T \subseteq Nat /\ Len(blocks) + 1 \in T
  BY <1>1
<1>3. PICK i \in T : \A j \in T : i <= j
  BY <1>2, LeastNatural, Zenon
<1>4. ASSUME NEW j \in 1..(i - 1) PROVE blocks[j].last < tsn
  <2>1. j \in 1..Len(blocks) /\ j \notin T
    BY <1>1, <1>3
  <2>2. blocks[j] \in Blocks
    BY <2>1, ElementIs
  <2>3. blocks[j].last \in Int
    BY <2>2 DEF Blocks
  <2>4. ~(blocks[j].last >= tsn)
    BY <1>1, <2>1
  <2> QED
    BY <2>3, <2>4
<1>5. /\ i \in 1..(Len(blocks) + 1)
      /\ \A j \in 1..(i - 1) : blocks[j].last < tsn
      /\ i <= Len(blocks) => blocks[i].last >= tsn
  BY <1>3, <1>4
<1> QED
  BY <1>5, Zenon DEF LowerBound, IsLowerBound

\* Every element of the blocks is a block.
LEMMA BlockType ==
  ASSUME NEW blocks \in Seq(Blocks), NEW i \in 1..Len(blocks)
  PROVE  /\ blocks[i] \in Blocks
         /\ blocks[i].first \in Int /\ blocks[i].last \in Int
         /\ blocks[i] = Block(blocks[i].first, blocks[i].last)
<1>1. blocks[i] \in Blocks
  BY ElementIs
<1> QED
  BY <1>1 DEF Blocks, Block

LEMMA BlockExcept ==
  ASSUME NEW b \in Blocks, NEW tsn \in Int
  PROVE  /\ [b EXCEPT !.first = tsn] = Block(tsn, b.last)
         /\ [b EXCEPT !.last = tsn] = Block(b.first, tsn)
  BY DEF Blocks, Block

\* r has the TSNs of the blocks and tsn, and is as well ordered.
Added(r, blocks, tsn, cum) ==
  /\ r \in Seq(Blocks)
  /\ InOrder(r, cum)
  /\ \A x \in Int : Has(r, x) <=> Has(blocks, x) \/ x = tsn
  /\ \A top \in Int : UpTo(blocks, top) /\ tsn <= top => UpTo(r, top)

\* In r one block, r[i], stands for tsn and for the blocks i..(i + d).
Splice(r, i, d, blocks, tsn, cum) ==
  /\ \A k \in 1..(i - 1) : r[k] = blocks[k]
  /\ \A k \in (i + 1)..Len(r) : r[k] = blocks[k + d]
  /\ r[i].first <= r[i].last /\ r[i].first > cum + 1
  /\ \A k \in 1..(i - 1) : blocks[k].last + 1 < r[i].first
  /\ \A k \in (i + 1 + d)..Len(blocks) : r[i].last + 1 < blocks[k].first
  /\ \A x \in Int :
       r[i].first <= x /\ x <= r[i].last
         <=> \/ x = tsn
             \/ \E k \in i..(i + d) : blocks[k].first <= x /\ x <= blocks[k].last

LEMMA Spliced ==
  ASSUME NEW blocks \in Seq(Blocks), NEW cum \in Int, InOrder(blocks, cum),
         NEW tsn \in Int, NEW r \in Seq(Blocks), NEW d \in {-1, 0, 1},
         NEW i \in 1..Len(r), Len(r) = Len(blocks) - d,
         Splice(r, i, d, blocks, tsn, cum)
  PROVE  Added(r, blocks, tsn, cum)
<1>1. Len(blocks) \in Nat /\ Len(r) \in Nat /\ i \in Int /\ d \in Int
  BY LenIs
<1>2. /\ \A k \in 1..Len(blocks) : blocks[k].first \in Int /\ blocks[k].last \in Int
      /\ \A k \in 1..Len(r) : r[k].first \in Int /\ r[k].last \in Int
  BY BlockType
<1>3. ASSUME NEW m \in 1..Len(r)
      PROVE  /\ r[m].first <= r[m].last /\ r[m].first > cum + 1
             /\ \A j \in 1..(m - 1) : r[j].last + 1 < r[m].first
  <2>1. CASE m < i
    <3>1. m \in 1..Len(blocks) /\ m \in 1..(i - 1) /\ 1..(m - 1) \subseteq 1..(i - 1)
      BY <1>1, <2>1
    <3> QED
      BY <3>1 DEF InOrder, Splice
  <2>2. CASE m = i
    <3>1. ASSUME NEW j \in 1..(i - 1) PROVE r[j].last + 1 < r[i].first
      BY <3>1, SMTT(30) DEF Splice
    <3> QED
      BY <2>2, <3>1 DEF Splice
  <2>3. CASE m > i
    <3>1. /\ m + d \in 1..Len(blocks) /\ m + d \in (i + 1 + d)..Len(blocks)
          /\ m \in (i + 1)..Len(r)
      BY <1>1, <2>3
    <3>2. /\ m + d \in 1..Len(blocks) /\ m + d \in (i + 1 + d)..Len(blocks)
          /\ r[m] = blocks[m + d]
      BY <3>1 DEF Splice
    <3>3. ASSUME NEW j \in 1..(m - 1) PROVE r[j].last + 1 < r[m].first
      <4>1. CASE j < i
        <5>1. j \in 1..((m + d) - 1) /\ j \in 1..(i - 1)
          BY <1>1, <2>3, <4>1
        <5> QED
          BY <3>2, <5>1 DEF InOrder, Splice
      <4>2. CASE j = i
        BY <1>1, <3>2, <4>2, Zenon DEF Splice
      <4>3. CASE j > i
        <5>1. j + d \in 1..((m + d) - 1) /\ j \in (i + 1)..Len(r)
          BY <1>1, <2>3, <4>3
        <5>2. r[j] = blocks[j + d]
          BY <5>1 DEF Splice
        <5> QED
          BY <3>2, <5>1, <5>2, Zenon DEF InOrder
      <4> QED
        BY <1>1, <4>1, <4>2, <4>3
    <3> QED
      BY <3>2, <3>3 DEF InOrder
  <2> QED
    BY <1>1, <2>1, <2>2, <2>3
<1>4. ASSUME NEW x \in Int PROVE Has(r, x) <=> Has(blocks, x) \/ x = tsn
  <2>1. ASSUME NEW m \in 1..Len(r), r[m].first <= x, x <= r[m].last
        PROVE  Has(blocks, x) \/ x = tsn
    <3>1. CASE m < i
      <4>1. m \in 1..Len(blocks) /\ r[m] = blocks[m]
        BY <1>1, <3>1 DEF Splice
      <4> QED
        BY <2>1, <4>1 DEF Has
    <3>2. CASE m = i
      <4>1. CASE x # tsn
        <5>1. PICK k \in i..(i + d) : blocks[k].first <= x /\ x <= blocks[k].last
          BY <2>1, <3>2, <4>1, SMTT(30) DEF Splice
        <5>2. k \in 1..Len(blocks)
          BY <1>1
        <5> QED
          BY <5>1, <5>2 DEF Has
      <4> QED
        BY <4>1
    <3>3. CASE m > i
      <4>1. m + d \in 1..Len(blocks) /\ m \in (i + 1)..Len(r)
        BY <1>1, <3>3
      <4>2. m + d \in 1..Len(blocks) /\ r[m] = blocks[m + d]
        BY <4>1 DEF Splice
      <4> QED
        BY <2>1, <4>2 DEF Has
    <3> QED
      BY <1>1, <3>1, <3>2, <3>3
  <2>2. ASSUME NEW k \in 1..Len(blocks), blocks[k].first <= x, x <= blocks[k].last
        PROVE  Has(r, x)
    <3>1. CASE k < i
      <4>1. k \in 1..Len(r) /\ r[k] = blocks[k]
        BY <1>1, <3>1 DEF Splice
      <4> QED
        BY <2>2, <4>1 DEF Has
    <3>2. CASE k \in i..(i + d)
      <4>1. r[i].first <= x /\ x <= r[i].last
        BY <2>2, <3>2 DEF Splice
      <4> QED
        BY <4>1 DEF Has
    <3>3. CASE k > i + d /\ ~(k < i)
      <4>1. k - d \in (i + 1)..Len(r) /\ k - d \in 1..Len(r) /\ (k - d) + d = k
        BY <1>1, <3>3
      <4>2. r[k - d] = blocks[k]
        BY <4>1 DEF Splice
      <4> QED
        BY <2>2, <4>1, <4>2 DEF Has
    <3> QED
      BY <1>1, <3>1, <3>2, <3>3
  <2>3. x = tsn => Has(r, x)
    BY DEF Has, Splice
  <2> QED
    BY <2>1, <2>2, <2>3, Zenon DEF Has
<1>5. ASSUME NEW top \in Int, UpTo(blocks, top), tsn <= top PROVE UpTo(r, top)
  <2>1. ASSUME NEW m \in 1..Len(r) PROVE r[m].last <= top
    <3>1. Has(r, r[m].last)
      BY <1>2, <1>3, SMTT(30) DEF Has
    <3>2. r[m].last \in Int /\ (Has(blocks, r[m].last) \/ r[m].last = tsn)
      BY <1>2, <1>4, <3>1
    <3> QED
      BY <1>2, <1>5, <3>2, SMTT(30) DEF Has, UpTo
  <2> QED
    BY <2>1 DEF UpTo
<1>6. InOrder(r, cum)
  BY <1>3, Zenon DEF InOrder
<1> QED
  BY <1>4, <1>5, <1>6 DEF Added

\* A block that grows.
LEMMA Grown ==
  ASSUME NEW blocks \in Seq(Blocks), NEW cum \in Int, InOrder(blocks, cum),
         NEW tsn \in Int, NEW i \in 1..Len(blocks), NEW nb \in Blocks,
         nb.first <= nb.last, nb.first > cum + 1,
         \A k \in 1..(i - 1) : blocks[k].last + 1 < nb.first,
         \A k \in (i + 1)..Len(blocks) : nb.last + 1 < blocks[k].first,
         \A x \in Int :
           nb.first <= x /\ x <= nb.last
             <=> x = tsn \/ (blocks[i].first <= x /\ x <= blocks[i].last)
  PROVE  Added([blocks EXCEPT ![i] = nb], blocks, tsn, cum)
<1> DEFINE r == [blocks EXCEPT ![i] = nb]
<1>1. /\ r \in Seq(Blocks) /\ Len(r) = Len(blocks)
      /\ \A j \in 1..Len(blocks) : r[j] = IF j = i THEN nb ELSE blocks[j]
  BY ExceptIs
<1>2. Len(blocks) \in Nat /\ i \in Int
  BY LenIs
<1> HIDE DEF r
<1>3. r[i] = nb
  BY <1>1
<1>4. ASSUME NEW k \in 1..(i - 1) PROVE r[k] = blocks[k]
  BY <1>1, <1>2
<1>5. ASSUME NEW k \in (i + 1)..Len(r) PROVE r[k] = blocks[k + 0]
  BY <1>1, <1>2
<1>6. i..(i + 0) = {i} /\ i + 1 + 0 = i + 1
  BY <1>2
<1>7. Splice(r, i, 0, blocks, tsn, cum)
  BY <1>3, <1>4, <1>5, <1>6 DEF Splice
<1>8. 0 \in {-1, 0, 1} /\ i \in 1..Len(r) /\ Len(r) = Len(blocks) - 0
  BY <1>1, <1>2
<1> QED
  BY <1>1, <1>7, <1>8, Spliced, Zenon DEF r

\* Add() takes tsn, and leaves the blocks alone just when they have it.
LEMMA AddRight ==
  ASSUME NEW blocks \in Seq(Blocks), NEW cum \in Int, InOrder(blocks, cum),
         NEW tsn \in Int, tsn > cum + 1
  PROVE  /\ Added(Add(blocks, tsn), blocks, tsn, cum)
         /\ Has(blocks, tsn) => Add(blocks, tsn) = blocks
<1> DEFINE it == LowerBound(blocks, tsn - 1)
           n == Len(blocks)
           before == SubSeq(blocks, 1, it - 1)
           after == SubSeq(blocks, it + 1, n)
<1>1. n \in Nat
  BY LenIs
<1>2. IsLowerBound(it, blocks, tsn - 1)
  <2>1. tsn - 1 \in Int
    OBVIOUS
  <2> QED
    BY <2>1, LowerBoundIs
<1>3. /\ it \in 1..(n + 1)
      /\ \A j \in 1..(it - 1) : blocks[j].last < tsn - 1
      /\ it <= n => blocks[it].last >= tsn - 1
  BY <1>2 DEF IsLowerBound
<1>4. \A k \in 1..n : blocks[k].first \in Int /\ blocks[k].last \in Int
  BY BlockType
<1> HIDE DEF it
<1>5. Block(tsn, tsn) \in Blocks
  BY DEF Block, Blocks
<1>6. CASE it > n
  <2> DEFINE r == Append(blocks, Block(tsn, tsn))
  <2>1. /\ r \in Seq(Blocks) /\ Len(r) = n + 1 /\ r[n + 1] = Block(tsn, tsn)
        /\ \A k \in 1..n : r[k] = blocks[k]
    BY <1>5, AppendIs
  <2>2. it = n + 1
    BY <1>1, <1>3, <1>6
  <2> HIDE DEF r
  <2>3. r[n + 1].first = tsn /\ r[n + 1].last = tsn
    BY <2>1 DEF Block
  <2>4. ASSUME NEW k \in 1..n PROVE blocks[k].last + 1 < tsn
    BY <1>1, <1>3, <1>4, <2>2
  <2>5. Splice(r, n + 1, -1, blocks, tsn, cum)
    BY <1>1, <2>1, <2>3, <2>4 DEF Splice
  <2>6. Added(r, blocks, tsn, cum)
    BY <1>1, <2>1, <2>5, Spliced
  <2>7. ~Has(blocks, tsn)
    BY <1>1, <1>4, <2>4 DEF Has
  <2> QED
    BY <1>6, <2>6, <2>7 DEF Add, it, r
<1>7. CASE it <= n
  <2> DEFINE b == blocks[it]
  <2>1. /\ it \in 1..n /\ b \in Blocks /\ b.first \in Int /\ b.last \in Int
        /\ b.last >= tsn - 1 /\ b.first <= b.last /\ b.first > cum + 1
    BY <1>1, <1>3, <1>7, BlockType DEF InOrder
  <2>2. ASSUME NEW k \in 1..(it - 1) PROVE blocks[k].last + 1 < tsn /\ k \in 1..n
    BY <1>1, <1>3, <1>4, <2>1
  <2>3. ASSUME NEW k \in (it + 1)..n PROVE k \in 1..n /\ b.last + 1 < blocks[k].first
    <3>1. k \in 1..n /\ it \in 1..(k - 1)
      BY <1>1, <2>1
    <3> QED
      BY <3>1 DEF InOrder
  <2>4. ASSUME NEW k \in 1..(it - 1) PROVE blocks[k].last + 1 < b.first
    BY <2>1 DEF InOrder
  <2>5. ~(it > Len(blocks))
    BY <1>1, <2>1
  <2>6. after \in Seq(Blocks) /\ Len(after) = n - it
    BY <1>1, <2>1, Part
  <2>7. ASSUME it + 1 \in 1..n
        PROVE  /\ after # <<>> /\ Head(after) = blocks[it + 1]
               /\ Tail(after) = SubSeq(blocks, it + 2, n)
    <3>1. n \in (it + 1)..n /\ (it + 1) + 1 = it + 2
      BY <1>1, <2>1, <2>7
    <3>2. Head(after) = blocks[it + 1] /\ Tail(after) = SubSeq(blocks, it + 2, n)
      BY <2>7, <3>1, SubSeqTail, Zenon
    <3>3. Len(after) # 0
      BY <1>1, <2>1, <2>6, <2>7
    <3> QED
      BY <3>2, <3>3, EmptyIs, Zenon
  <2> HIDE DEF b
  <2>8. CASE tsn >= b.first /\ tsn <= b.last
    <3>1. Has(blocks, tsn)
      BY <2>1, <2>8 DEF Has, b
    <3>2. Added(blocks, blocks, tsn, cum)
      BY <3>1 DEF Added
    <3>3. Add(blocks, tsn) = blocks
      BY <1>1, <2>1, <2>8 DEF Add, it, b
    <3> QED
      BY <3>2, <3>3
  <2>9. CASE ~(tsn >= b.first /\ tsn <= b.last)
    <3>1. ~Has(blocks, tsn)
      <4> SUFFICES ASSUME NEW k \in 1..n, blocks[k].first <= tsn, tsn <= blocks[k].last
                   PROVE  FALSE
        BY DEF Has
      <4>1. k \in Int /\ it \in Int /\ blocks[k].first \in Int /\ blocks[k].last \in Int
        BY <1>4, <2>1
      <4>2. CASE k < it
        BY <1>1, <2>1, <2>2, <4>1, <4>2
      <4>3. CASE k = it
        BY <2>9, <4>3 DEF b
      <4>4. CASE k > it
        <5>1. k \in (it + 1)..n
          BY <1>1, <2>1, <4>4
        <5> QED
          BY <2>1, <2>3, <4>1, <5>1
      <4> QED
        BY <4>1, <4>2, <4>3, <4>4
    <3>2. CASE b.last + 1 = tsn
      <4>1. CASE after # <<>> /\ tsn + 1 = Head(after).first
        <5> DEFINE c == blocks[it + 1]
                   nb == Block(b.first, c.last)
                   rest == SubSeq(blocks, it + 2, n)
                   r == before \o <<nb>> \o rest
        <5>1. it + 1 \in 1..n
          <6>1. Len(after) # 0
            BY <2>6, <4>1, EmptyIs
          <6> QED
            BY <1>1, <2>1, <2>6, <6>1
        <5>2. Head(after) = c /\ Tail(after) = rest /\ c.first = tsn + 1
          BY <2>7, <4>1, <5>1, Zenon
        <5>3. c.first \in Int /\ c.last \in Int /\ c.first <= c.last
          BY <1>4, <5>1 DEF InOrder
        <5>4. nb \in Blocks /\ nb.first = b.first /\ nb.last = c.last
          BY <2>1, <5>3 DEF Block, Blocks
        <5>5. ASSUME NEW k \in (it + 2)..n PROVE k \in 1..n /\ c.last + 1 < blocks[k].first
          <6>1. k \in 1..n /\ it + 1 \in 1..(k - 1)
            BY <1>1, <2>1
          <6> QED
            BY <6>1 DEF InOrder
        <5> HIDE DEF nb, c
        <5>6. /\ r \in Seq(Blocks) /\ Len(r) = n - 1 /\ r[it] = nb
              /\ \A k \in 1..(it - 1) : r[k] = blocks[k]
              /\ \A k \in (it + 2)..n : r[k - 1] = blocks[k]
          <6>1. <<nb>> \in Seq(Blocks) /\ Len(<<nb>>) = 1 /\ <<nb>>[1] = nb
            BY <5>4
          <6>2. it \in 1..(n + 1) /\ it + 2 \in 1..(n + 1)
            BY <1>1, <2>1, <5>1
          <6>3. /\ r \in Seq(Blocks) /\ Len(r) = (it - 1) + 1 + (n - (it + 2) + 1)
                /\ \A k \in 1..(it - 1) : r[k] = blocks[k]
                /\ \A k \in 1..1 : r[it - 1 + k] = <<nb>>[k]
                /\ \A k \in (it + 2)..n : r[k + (it - 1) + 1 - ((it + 2) - 1)] = blocks[k]
            <7>1. r \in Seq(Blocks) /\ IsReplaced(r, blocks, <<nb>>, it, it + 2)
              BY <6>1, <6>2, Replaced, Zenon
            <7> QED
              BY <6>1, <7>1, Zenon DEF IsReplaced
          <6>4. it - 1 + 1 = it /\ \A k \in (it + 2)..n : k + (it - 1) + 1 - ((it + 2) - 1) = k - 1
            BY <1>1, <2>1
          <6> HIDE DEF r
          <6> QED
            BY <1>1, <2>1, <6>1, <6>3, <6>4
        <5> HIDE DEF r
        <5>7. Splice(r, it, 1, blocks, tsn, cum)
          <6>1. ASSUME NEW k \in (it + 1)..Len(r) PROVE r[k] = blocks[k + 1]
            <7>1. k + 1 \in (it + 2)..n /\ (k + 1) - 1 = k
              BY <1>1, <2>1, <5>6
            <7> QED
              BY <5>6, <7>1, SMTT(30)
          <6>2. ASSUME NEW x \in Int
                PROVE  nb.first <= x /\ x <= nb.last
                         <=> \/ x = tsn
                             \/ \E k \in it..(it + 1) : blocks[k].first <= x /\ x <= blocks[k].last
            <7>1. it..(it + 1) = {it, it + 1}
              BY <2>1
            <7>2. nb.first <= x /\ x <= nb.last
                    <=> \/ x = tsn \/ (b.first <= x /\ x <= b.last)
                        \/ (c.first <= x /\ x <= c.last)
              BY <2>1, <3>2, <5>2, <5>3, <5>4, SMTT(30)
            <7> QED
              BY <7>1, <7>2, Zenon DEF b, c
          <6>3. it + 1 + 1 = it + 2
            BY <2>1
          <6>4. nb.first <= nb.last /\ nb.first > cum + 1
            BY <2>1, <3>2, <5>2, <5>3, <5>4, SMTT(30)
          <6> QED
            BY <2>4, <5>4, <5>5, <5>6, <6>1, <6>2, <6>3, <6>4 DEF Splice
        <5>8. Added(r, blocks, tsn, cum)
          <6>1. 1 \in {-1, 0, 1} /\ it \in 1..Len(r) /\ Len(r) = n - 1
            BY <1>1, <2>1, <5>1, <5>6
          <6> QED
            BY <5>6, <5>7, <6>1, Spliced
        <5>9. Add(blocks, tsn) = r
          BY <2>5, <2>9, <3>2, <4>1, <5>2, Zenon DEF Add, it, b, r, nb
        <5> QED
          BY <3>1, <5>8, <5>9
      <4>2. CASE ~(after # <<>> /\ tsn + 1 = Head(after).first)
        <5> DEFINE nb == Block(b.first, tsn)
        <5>1. nb \in Blocks /\ nb.first = b.first /\ nb.last = tsn
          BY <2>1 DEF Block, Blocks
        <5> HIDE DEF nb
        <5>2. ASSUME NEW k \in (it + 1)..n PROVE tsn + 1 < blocks[k].first
          <6>1. /\ k \in 1..n /\ it \in Int /\ k \in Int /\ it + 1 \in 1..n
                /\ blocks[k].first \in Int /\ blocks[it + 1].last \in Int
                /\ blocks[it + 1].first \in Int
            BY <1>1, <1>4, <2>1
          <6>2. after # <<>> /\ Head(after) = blocks[it + 1]
            BY <2>7, <6>1
          <6>3. tsn + 1 < blocks[it + 1].first
            <7>1. b.last + 1 < blocks[it + 1].first
              BY <1>1, <2>1, <2>3, <6>1
            <7>2. tsn + 1 # blocks[it + 1].first
              BY <4>2, <6>2, Zenon
            <7> QED
              BY <2>1, <3>2, <6>1, <7>1, <7>2, SMTT(30)
          <6>4. CASE k = it + 1
            BY <6>3, <6>4
          <6>5. CASE k > it + 1
            <7>1. it + 1 \in 1..(k - 1)
              BY <6>1, <6>5
            <7>2. /\ blocks[it + 1].last + 1 < blocks[k].first
                  /\ blocks[it + 1].first <= blocks[it + 1].last
              BY <6>1, <7>1 DEF InOrder
            <7> QED
              BY <6>1, <6>3, <7>2
          <6> QED
            BY <6>1, <6>4, <6>5
        <5>3. Added([blocks EXCEPT ![it] = nb], blocks, tsn, cum)
          <6>1. \A x \in Int : nb.first <= x /\ x <= nb.last
                  <=> x = tsn \/ (blocks[it].first <= x /\ x <= blocks[it].last)
            BY <2>1, <3>2, <5>1 DEF b
          <6>2. /\ nb.first <= nb.last /\ nb.first > cum + 1
                /\ \A k \in 1..(it - 1) : blocks[k].last + 1 < nb.first
                /\ \A k \in (it + 1)..n : nb.last + 1 < blocks[k].first
            <7>1. nb.first <= nb.last /\ nb.first > cum + 1
              BY <2>1, <3>2, <5>1
            <7> QED
              BY <2>4, <5>1, <5>2, <7>1
          <6> QED
            BY <2>1, <5>1, <6>1, <6>2, Grown, Zenon
        <5>4. [blocks EXCEPT ![it].last = tsn] = [blocks EXCEPT ![it] = nb]
          <6>1. [blocks[it] EXCEPT !.last = tsn] = nb
            BY <2>1, BlockExcept, Zenon DEF nb, b
          <6> QED
            BY <6>1, Zenon
        <5>5. Add(blocks, tsn) = [blocks EXCEPT ![it].last = tsn]
          BY <2>5, <2>9, <3>2, <4>2, Zenon DEF Add, it, b
        <5> QED
          BY <3>1, <5>3, <5>4, <5>5
      <4> QED
        BY <4>1, <4>2, Zenon
    <3>3. CASE b.last + 1 # tsn /\ b.first = tsn + 1
      <4> DEFINE nb == Block(tsn, b.last)
      <4>1. nb \in Blocks /\ nb.first = tsn /\ nb.last = b.last
        BY <2>1 DEF Block, Blocks
      <4> HIDE DEF nb
      <4>2. Added([blocks EXCEPT ![it] = nb], blocks, tsn, cum)
        <5>1. \A x \in Int : nb.first <= x /\ x <= nb.last
                <=> x = tsn \/ (blocks[it].first <= x /\ x <= blocks[it].last)
          BY <2>1, <3>3, <4>1 DEF b
        <5>2. /\ nb.first <= nb.last /\ nb.first > cum + 1
              /\ \A k \in 1..(it - 1) : blocks[k].last + 1 < nb.first
              /\ \A k \in (it + 1)..n : nb.last + 1 < blocks[k].first
          BY <2>1, <2>2, <2>3, <3>3, <4>1
        <5> QED
          BY <2>1, <4>1, <5>1, <5>2, Grown, Zenon
      <4>3. [blocks EXCEPT ![it].first = tsn] = [blocks EXCEPT ![it] = nb]
        <5>1. [blocks[it] EXCEPT !.first = tsn] = nb
          BY <2>1, BlockExcept, Zenon DEF nb, b
        <5> QED
          BY <5>1, Zenon
      <4>4. Add(blocks, tsn) = [blocks EXCEPT ![it].first = tsn]
        BY <1>1, <2>1, <2>9, <3>3 DEF Add, it, b
      <4> QED
        BY <3>1, <4>2, <4>3, <4>4
    <3>4. CASE b.last + 1 # tsn /\ b.first # tsn + 1
      <4> DEFINE nb == Block(tsn, tsn)
                 mid == <<nb, b>>
                 r == before \o mid \o after
      <4>1. nb \in Blocks /\ nb.first = tsn /\ nb.last = tsn
        BY DEF Block, Blocks
      <4> HIDE DEF nb
      <4>2. mid \in Seq(Blocks) /\ Len(mid) = 2 /\ mid[1] = nb /\ mid[2] = b
        BY <2>1, <4>1
      <4> HIDE DEF mid
      <4>3. it \in 1..(n + 1) /\ it + 1 \in 1..(n + 1)
        BY <1>1, <2>1, SMTT(30)
      <4>4. /\ r \in Seq(Blocks) /\ Len(r) = (it - 1) + 2 + (n - (it + 1) + 1)
            /\ \A k \in 1..(it - 1) : r[k] = blocks[k]
            /\ \A k \in 1..2 : r[it - 1 + k] = mid[k]
            /\ \A k \in (it + 1)..n : r[k + (it - 1) + 2 - ((it + 1) - 1)] = blocks[k]
        <5>1. r \in Seq(Blocks) /\ IsReplaced(r, blocks, mid, it, it + 1)
          BY <4>2, <4>3, Replaced
        <5> QED
          BY <4>2, <5>1, Zenon DEF IsReplaced
      <4> HIDE DEF r
      <4>5. /\ Len(r) = n + 1 /\ r[it] = nb /\ r[it + 1] = b
            /\ \A k \in (it + 1)..n : r[k + 1] = blocks[k]
        <5>1. /\ it - 1 + 1 = it /\ it - 1 + 2 = it + 1 /\ 1 \in 1..2 /\ 2 \in 1..2
              /\ \A k \in (it + 1)..n : k + (it - 1) + 2 - ((it + 1) - 1) = k + 1
          BY <1>1, <2>1
        <5> QED
          BY <1>1, <2>1, <4>2, <4>4, <5>1
      <4>6. ASSUME NEW k \in (it + 1)..Len(r) PROVE r[k] = blocks[k + (-1)]
        <5>1. /\ k + (-1) \in it..n /\ k = (k + (-1)) + 1
              /\ k + (-1) # it => k + (-1) \in (it + 1)..n
          BY <1>1, <2>1, <4>5
        <5> QED
          BY <4>5, <5>1 DEF b
      <4>7. ASSUME NEW k \in (it + 1 + (-1))..n PROVE tsn + 1 < blocks[k].first
        <5>1. k \in Int /\ it \in Int /\ tsn + 1 < b.first
          BY <2>1, <2>9, <3>4
        <5>2. CASE k = it
          BY <5>1, <5>2 DEF b
        <5>3. CASE k # it
          <6>1. k \in (it + 1)..n
            BY <1>1, <5>1, <5>3
          <6> QED
            BY <1>4, <2>1, <2>3, <5>1, <6>1, SMTT(30)
        <5> QED
          BY <5>2, <5>3
      <4>8. it..(it + (-1)) = {}
        BY <2>1
      <4>9. \A x \in Int : tsn <= x /\ x <= tsn <=> x = tsn
        OBVIOUS
      <4>10. Splice(r, it, -1, blocks, tsn, cum)
        BY <2>2, <4>1, <4>4, <4>5, <4>6, <4>7, <4>8, <4>9, SMTT(30) DEF Splice
      <4>11. Added(r, blocks, tsn, cum)
        <5>1. -1 \in {-1, 0, 1} /\ it \in 1..Len(r) /\ Len(r) = n - (-1)
          BY <1>1, <2>1, <4>5
        <5> QED
          BY <4>4, <4>10, <5>1, Spliced
      <4>12. Add(blocks, tsn) = r
        BY <2>5, <2>9, <3>4, Zenon DEF Add, it, b, r, nb, mid
      <4> QED
        BY <3>1, <4>11, <4>12
    <3> QED
      BY <3>2, <3>3, <3>4
  <2> QED
    BY <2>8, <2>9
<1> QED
  BY <1>1, <1>3, <1>6, <1>7

\* The blocks right after the cumulative TSN has moved, before FillGap: one may
\* follow it directly, and that one may be empty.
AlmostInOrder(blocks, cum) ==
  \A i \in 1..Len(blocks) :
    /\ blocks[i].first > cum
    /\ \/ blocks[i].first <= blocks[i].last
       \/ blocks[i].first = cum + 1 /\ blocks[i].last = cum
    /\ \A j \in 1..(i - 1) : blocks[j].last + 1 < blocks[i].first

\* EraseTo() drops no TSN above tsn.
LEMMA EraseToRight ==
  ASSUME NEW blocks \in Seq(Blocks), NEW cum \in Int, InOrder(blocks, cum),
         NEW tsn \in Int, tsn > cum
  PROVE  /\ EraseTo(blocks, tsn) \in Seq(Blocks)
         /\ AlmostInOrder(EraseTo(blocks, tsn), tsn)
         /\ \A x \in Int : x > tsn => (Has(EraseTo(blocks, tsn), x) <=> Has(blocks, x))
         /\ \A top \in Int : UpTo(blocks, top) => UpTo(EraseTo(blocks, tsn), top)
<1> DEFINE it == LowerBound(blocks, tsn)
           n == Len(blocks)
           rest == SubSeq(blocks, it, n)
<1>1. n \in Nat
  BY LenIs
<1>2. /\ it \in 1..(n + 1)
      /\ \A j \in 1..(it - 1) : blocks[j].last < tsn
      /\ it <= n => blocks[it].last >= tsn
  BY LowerBoundIs, Zenon DEF IsLowerBound
<1>3. \A k \in 1..n : blocks[k].first \in Int /\ blocks[k].last \in Int
  BY BlockType
<1> HIDE DEF it
<1>4. /\ rest \in Seq(Blocks) /\ Len(rest) = n - it + 1
      /\ \A k \in 1..(n - it + 1) : rest[k] = blocks[it + k - 1]
  <2>1. n <= n /\ it <= n + 1
    BY <1>1, <1>2
  <2> QED
    BY <1>1, <1>2, <2>1, Part
<1> HIDE DEF rest
<1>5. ASSUME NEW r \in Seq(Blocks), Len(r) = n - it + 1,
             \A k \in 2..(n - it + 1) : r[k] = blocks[it + k - 1],
             it <= n => /\ r[1].last = blocks[it].last
                        /\ r[1].first = IF tsn >= blocks[it].first THEN tsn + 1
                                        ELSE blocks[it].first
      PROVE  /\ AlmostInOrder(r, tsn)
             /\ \A x \in Int : x > tsn => (Has(r, x) <=> Has(blocks, x))
             /\ \A top \in Int : UpTo(blocks, top) => UpTo(r, top)
  <2>1. it \in Int /\ n \in Int /\ it >= 1
    BY <1>1, <1>2
  <2>2. ASSUME NEW k \in 1..Len(r)
        PROVE  /\ it + k - 1 \in 1..n /\ k \in Int
               /\ r[k].first \in Int /\ r[k].last \in Int
               /\ r[k].last = blocks[it + k - 1].last
               /\ k = 1 => /\ it + k - 1 = it /\ it \in 1..n
                           /\ blocks[it].last >= tsn
                           /\ r[k].first = IF tsn >= blocks[it].first THEN tsn + 1
                                           ELSE blocks[it].first
               /\ k # 1 => r[k].first = blocks[it + k - 1].first
    <3>1. it + k - 1 \in 1..n /\ k \in Int /\ (k # 1 => k \in 2..(n - it + 1)) /\ it <= n
      BY <1>5, <2>1
    <3>2. k = 1 => it + k - 1 = it /\ it \in 1..n
      BY <2>1, <3>1
    <3>3. r[k].first \in Int /\ r[k].last \in Int
      BY BlockType
    <3> QED
      BY <1>2, <1>5, <3>1, <3>2, <3>3
  <2>3. ASSUME NEW k \in 1..Len(r)
        PROVE  /\ r[k].first > tsn
               /\ \/ r[k].first <= r[k].last
                  \/ r[k].first = tsn + 1 /\ r[k].last = tsn
               /\ \A j \in 1..(k - 1) : r[j].last + 1 < r[k].first
    <3>1. CASE k = 1
      <4>1. /\ blocks[it].first \in Int /\ blocks[it].last \in Int
            /\ blocks[it].first <= blocks[it].last
        BY <1>3, <2>2, <3>1 DEF InOrder
      <4>2. 1..(k - 1) = {}
        BY <3>1
      <4> QED
        BY <2>2, <3>1, <4>1, <4>2, SMTT(30)
    <3>2. CASE k # 1
      <4>1. /\ it \in 1..((it + k - 1) - 1) /\ it \in 1..n
            /\ blocks[it].last \in Int /\ blocks[it].last >= tsn
        BY <1>2, <1>3, <2>1, <2>2, <3>2
      <4>2. /\ blocks[it].last + 1 < r[k].first
            /\ r[k].first <= r[k].last
        BY <2>2, <3>2, <4>1, SMTT(30) DEF InOrder
      <4>3. ASSUME NEW j \in 1..(k - 1) PROVE r[j].last + 1 < r[k].first
        <5>1. j \in 1..Len(r) /\ it + j - 1 \in 1..((it + k - 1) - 1)
          BY <1>1, <1>5, <2>1, <2>2
        <5> QED
          BY <2>2, <3>2, <5>1, Zenon DEF InOrder
      <4> QED
        BY <2>2, <4>1, <4>2, <4>3, SMTT(30)
    <3> QED
      BY <3>1, <3>2
  <2>4. ASSUME NEW x \in Int, x > tsn, Has(r, x) PROVE Has(blocks, x)
    <3>1. PICK k \in 1..Len(r) : r[k].first <= x /\ x <= r[k].last
      BY <2>4 DEF Has
    <3>2. blocks[it + k - 1].first <= x /\ x <= blocks[it + k - 1].last
      <4>1. CASE k = 1
        BY <1>3, <2>2, <2>4, <3>1, <4>1
      <4>2. CASE k # 1
        BY <2>2, <3>1, <4>2
      <4> QED
        BY <4>1, <4>2
    <3> QED
      BY <2>2, <3>2 DEF Has
  <2>5. ASSUME NEW x \in Int, x > tsn, Has(blocks, x) PROVE Has(r, x)
    <3>1. PICK p \in 1..n : blocks[p].first <= x /\ x <= blocks[p].last
      BY <2>5 DEF Has
    <3>2. ~(p \in 1..(it - 1))
      <4>1. p \in 1..(it - 1) => blocks[p].last < tsn
        BY <1>2
      <4>2. blocks[p].last \in Int
        BY <1>3
      <4> QED
        BY <2>5, <3>1, <4>1, <4>2
    <3> DEFINE k == p - it + 1
    <3>3. k \in 1..Len(r) /\ it + k - 1 = p
      BY <1>1, <1>5, <2>1, <3>2
    <3> HIDE DEF k
    <3>4. /\ r[k].last = blocks[p].last /\ blocks[p].first \in Int
          /\ k = 1 => /\ it = p
                      /\ r[k].first = IF tsn >= blocks[it].first THEN tsn + 1
                                      ELSE blocks[it].first
          /\ k # 1 => r[k].first = blocks[p].first
      BY <1>3, <2>2, <3>3
    <3>5. r[k].first <= x
      <4>1. CASE k = 1
        BY <2>5, <3>1, <3>4, <4>1
      <4>2. CASE k # 1
        BY <3>1, <3>4, <4>2
      <4> QED
        BY <4>1, <4>2
    <3> QED
      BY <3>1, <3>3, <3>4, <3>5 DEF Has
  <2>6. ASSUME NEW top \in Int, UpTo(blocks, top) PROVE UpTo(r, top)
    BY <2>2, <2>6, Zenon DEF UpTo
  <2> QED
    BY <2>3, <2>4, <2>5, <2>6 DEF AlmostInOrder
<1>6. CASE rest # <<>> /\ tsn >= Head(rest).first
  <2> DEFINE nb == Block(tsn + 1, blocks[it].last)
             r == [rest EXCEPT ![1] = nb]
  <2>1. Len(rest) # 0
    BY <1>4, <1>6, EmptyIs
  <2>2. it \in 1..n /\ 1 \in 1..Len(rest) /\ it + 1 - 1 = it /\ 1 \in 1..(n - it + 1)
    BY <1>1, <1>2, <1>4, <2>1
  <2>3. rest[1] = blocks[it] /\ Head(rest) = blocks[it] /\ blocks[it] \in Blocks
    BY <1>4, <2>2, BlockType
  <2>4. nb \in Blocks /\ nb.first = tsn + 1 /\ nb.last = blocks[it].last
    BY <1>3, <2>2 DEF Block, Blocks
  <2> HIDE DEF nb
  <2>5. /\ r \in Seq(Blocks) /\ Len(r) = Len(rest)
        /\ \A j \in 1..Len(rest) : r[j] = IF j = 1 THEN nb ELSE rest[j]
    BY <1>4, <2>2, <2>4, ExceptIs
  <2> HIDE DEF r
  <2>6. ASSUME NEW k \in 2..(n - it + 1) PROVE r[k] = blocks[it + k - 1]
    <3>1. k \in 1..Len(rest) /\ k \in 1..(n - it + 1) /\ k # 1
      BY <1>1, <1>2, <1>4
    <3> QED
      BY <1>4, <2>5, <3>1
  <2>7. tsn >= blocks[it].first
    BY <1>6, <2>3
  <2>8. /\ AlmostInOrder(r, tsn)
        /\ \A x \in Int : x > tsn => (Has(r, x) <=> Has(blocks, x))
        /\ \A top \in Int : UpTo(blocks, top) => UpTo(r, top)
    BY <1>4, <1>5, <2>2, <2>4, <2>5, <2>6, <2>7, Zenon
  <2>9. EraseTo(blocks, tsn) = r
    <3>1. EraseTo(blocks, tsn) = [rest EXCEPT ![1].first = tsn + 1]
      BY <1>6, Zenon DEF EraseTo, rest, it
    <3>2. [rest[1] EXCEPT !.first = tsn + 1] = nb
      <4>1. tsn + 1 \in Int
        OBVIOUS
      <4> QED
        BY <2>3, <4>1, BlockExcept, Zenon DEF nb
    <3> QED
      BY <3>1, <3>2, Zenon DEF r
  <2> QED
    BY <2>5, <2>8, <2>9
<1>7. CASE ~(rest # <<>> /\ tsn >= Head(rest).first)
  <2>1. it <= n => rest[1] = blocks[it] /\ tsn < blocks[it].first
    <3> SUFFICES ASSUME it <= n PROVE rest[1] = blocks[it] /\ tsn < blocks[it].first
      OBVIOUS
    <3>1. 1 \in 1..(n - it + 1) /\ it + 1 - 1 = it /\ Len(rest) # 0 /\ it \in 1..n
      BY <1>1, <1>2, <1>4
    <3>2. rest[1] = blocks[it] /\ Head(rest) = blocks[it] /\ rest # <<>>
      BY <1>4, <3>1, EmptyIs
    <3> QED
      BY <1>3, <1>7, <3>1, <3>2
  <2>2. it <= n => it \in 1..n
    BY <1>1, <1>2
  <2>3. ASSUME NEW k \in 2..(n - it + 1) PROVE rest[k] = blocks[it + k - 1]
    BY <1>1, <1>2, <1>4
  <2>4. /\ AlmostInOrder(rest, tsn)
        /\ \A x \in Int : x > tsn => (Has(rest, x) <=> Has(blocks, x))
        /\ \A top \in Int : UpTo(blocks, top) => UpTo(rest, top)
    <3>1. it <= n => /\ rest[1].last = blocks[it].last
                     /\ rest[1].first = IF tsn >= blocks[it].first THEN tsn + 1
                                        ELSE blocks[it].first
      BY <1>3, <2>1, <2>2
    <3> QED
      BY <1>4, <1>5, <2>3, <3>1
  <2>5. EraseTo(blocks, tsn) = rest
    BY <1>7, Zenon DEF EraseTo, rest, it
  <2> QED
    BY <1>4, <2>4, <2>5
<1> QED
  BY <1>6, <1>7
------------------------------------------------------------------------------
(* The TSNs a tracker stands for.                                          *)

\* The tracker has received or skipped tsn.
Knows(t, tsn) ==
  tsn <= t.last_cumulative_acked_tsn \/ Has(t.additional_tsn_blocks, tsn)

Trackers ==
  [seen_packet : BOOLEAN, delayed_ack_timer : BOOLEAN,
   ack_state : {"Idle", "BecomingDelayed", "Delayed", "Immediate"},
   last_unwrapped : Int, last_cumulative_acked_tsn : Int,
   additional_tsn_blocks : Seq([first : Int, last : Int]),
   duplicate_tsns : SUBSET (0..(TsnLimit - 1))]

\* The blocks of v are in order, and v knows what t does; its cumulative TSN is
\* not behind, and nothing in it is beyond top.
Settled(v, t, top) ==
  /\ v.last_cumulative_acked_tsn \in Int /\ v.additional_tsn_blocks \in Seq(Blocks)
  /\ InOrder(v.additional_tsn_blocks, v.last_cumulative_acked_tsn)
  /\ v.last_cumulative_acked_tsn >= t.last_cumulative_acked_tsn
  /\ \A x \in Int : Knows(v, x) <=> Knows(t, x)
  /\ v.last_cumulative_acked_tsn <= top /\ UpTo(v.additional_tsn_blocks, top)

\* FillGap only changes how the TSNs are represented.
LEMMA FillGapRight ==
  ASSUME NEW t \in Trackers, NEW top \in Int,
         AlmostInOrder(t.additional_tsn_blocks, t.last_cumulative_acked_tsn),
         t.last_cumulative_acked_tsn <= top, UpTo(t.additional_tsn_blocks, top)
  PROVE  /\ Settled(FillGap(t), t, top)
         /\ FillGap(t) \in Trackers
         /\ FillGap(t) = [t EXCEPT
              !.last_cumulative_acked_tsn = FillGap(t).last_cumulative_acked_tsn,
              !.additional_tsn_blocks = FillGap(t).additional_tsn_blocks]
<1> DEFINE blocks == t.additional_tsn_blocks
           cum == t.last_cumulative_acked_tsn
           n == Len(blocks)
<1>1. blocks \in Seq(Blocks) /\ cum \in Int /\ n \in Nat
  BY LenIs DEF Trackers, Blocks
<1>2. \A k \in 1..n : blocks[k].first \in Int /\ blocks[k].last \in Int
  BY <1>1, BlockType
<1>3. CASE blocks # <<>> /\ Head(blocks).first = cum + 1
  <2> DEFINE v == [t EXCEPT !.last_cumulative_acked_tsn = Head(blocks).last,
                            !.additional_tsn_blocks = Tail(blocks)]
             rest == Tail(blocks)
             b == blocks[1]
  <2>1. FillGap(t) = v
    BY <1>3 DEF FillGap
  <2>2. n # 0 /\ 1 \in 1..n /\ Head(blocks) = b
    BY <1>1, <1>3
  <2>3. rest \in Seq(Blocks) /\ Len(rest) = n - 1 /\ \A k \in 1..(n - 1) : rest[k] = blocks[k + 1]
    BY <1>1, <1>3, TailIs
  <2>4. v \in Trackers
    BY <1>2, <2>2, <2>3, Zenon DEF Trackers, Blocks
  <2>5. v.last_cumulative_acked_tsn = b.last /\ v.additional_tsn_blocks = rest
    BY <2>2 DEF Trackers
  <2>6. b.first = cum + 1 /\ b.last >= cum /\ b.last \in Int /\ b.last <= top
    BY <1>1, <1>2, <1>3, <2>2 DEF AlmostInOrder, UpTo
  <2>7. ASSUME NEW k \in 1..(n - 1)
        PROVE  k + 1 \in 1..n /\ 1 \in 1..((k + 1) - 1) /\ rest[k] = blocks[k + 1] /\ k \in Int
    BY <1>1, <2>3
  <2> HIDE DEF rest, b, v
  <2>8. InOrder(rest, b.last)
    <3> SUFFICES ASSUME NEW k \in 1..(n - 1)
                 PROVE  /\ rest[k].first <= rest[k].last /\ rest[k].first > b.last + 1
                        /\ \A j \in 1..(k - 1) : rest[j].last + 1 < rest[k].first
      BY <2>3 DEF InOrder
    <3>1. rest[k].first > b.last + 1 /\ rest[k].first \in Int
      BY <1>2, <2>6, <2>7 DEF AlmostInOrder, b
    <3>2. rest[k].first <= rest[k].last
      <4>1. \/ rest[k].first <= rest[k].last
            \/ rest[k].first = cum + 1
        BY <2>7 DEF AlmostInOrder
      <4> QED
        BY <1>1, <2>6, <3>1, <4>1
    <3>3. ASSUME NEW j \in 1..(k - 1) PROVE rest[j].last + 1 < rest[k].first
      <4>1. j + 1 \in 1..((k + 1) - 1) /\ j \in 1..(n - 1)
        BY <1>1, <2>7
      <4>2. rest[j] = blocks[j + 1] /\ rest[k] = blocks[k + 1] /\ k + 1 \in 1..n
        BY <2>7, <4>1
      <4> QED
        BY <4>1, <4>2 DEF AlmostInOrder
    <3> QED
      BY <3>1, <3>2, <3>3
  <2>9. ASSUME NEW x \in Int PROVE x <= b.last \/ Has(rest, x) <=> x <= cum \/ Has(blocks, x)
    <3>1. ASSUME Has(rest, x) PROVE Has(blocks, x)
      BY <2>3, <2>7, <3>1, Zenon DEF Has
    <3>2. ASSUME x <= b.last PROVE x <= cum \/ Has(blocks, x)
      BY <1>1, <2>2, <2>6, <3>2 DEF Has, b
    <3>3. ASSUME Has(blocks, x) PROVE x <= b.last \/ Has(rest, x)
      <4>1. PICK k \in 1..n : blocks[k].first <= x /\ x <= blocks[k].last
        BY <3>3 DEF Has
      <4>2. CASE k = 1
        BY <4>1, <4>2 DEF b
      <4>3. CASE k # 1
        <5>1. k - 1 \in 1..(n - 1) /\ (k - 1) + 1 = k
          BY <1>1, <4>3
        <5>2. rest[k - 1] = blocks[k]
          BY <2>7, <5>1
        <5> QED
          BY <2>3, <4>1, <5>1, <5>2 DEF Has
      <4> QED
        BY <4>2, <4>3
    <3>4. x <= cum => x <= b.last
      BY <1>1, <2>6
    <3> QED
      BY <3>1, <3>2, <3>3, <3>4
  <2>10. UpTo(rest, top)
    BY <2>3, <2>7 DEF UpTo
  <2>11. Settled(v, t, top)
    BY <2>3, <2>5, <2>6, <2>8, <2>9, <2>10 DEF Settled, Knows
  <2>12. v = [t EXCEPT !.last_cumulative_acked_tsn = v.last_cumulative_acked_tsn,
                       !.additional_tsn_blocks = v.additional_tsn_blocks]
    BY <2>2, <2>5 DEF v, rest
  <2> QED
    BY <2>1, <2>4, <2>11, <2>12
<1>4. CASE ~(blocks # <<>> /\ Head(blocks).first = cum + 1)
  <2>1. FillGap(t) = t
    BY <1>4 DEF FillGap
  <2>2. ASSUME NEW k \in 1..n PROVE blocks[k].first > cum + 1
    <3>1. /\ 1 \in 1..n /\ blocks # <<>> /\ Head(blocks) = blocks[1]
          /\ blocks[1].first \in Int /\ blocks[1].last \in Int
          /\ blocks[k].first \in Int
      BY <1>1, <1>2
    <3>2. blocks[1].first > cum + 1
      <4>1. blocks[1].first # cum + 1
        BY <1>4, <3>1
      <4>2. blocks[1].first > cum
        BY <3>1, Zenon DEF AlmostInOrder
      <4>3. cum \in Int /\ blocks[1].first \in Int
        BY <1>1, <3>1
      <4> HIDE DEF blocks, cum
      <4> QED
        BY <4>1, <4>2, <4>3
    <3>3. CASE k # 1
      <4>1. 1 \in 1..(k - 1)
        BY <1>1, <3>3
      <4>2. blocks[1].last + 1 < blocks[k].first
        BY <4>1 DEF AlmostInOrder
      <4>3. \/ blocks[1].first <= blocks[1].last
            \/ blocks[1].first = cum + 1
        BY <3>1 DEF AlmostInOrder
      <4>4. cum \in Int
        BY <1>1
      <4> HIDE DEF blocks, cum
      <4> QED
        BY <3>1, <3>2, <4>2, <4>3, <4>4
    <3> QED
      BY <3>2, <3>3
  <2>3. InOrder(blocks, cum)
    BY <1>1, <1>2, <2>2 DEF InOrder, AlmostInOrder
  <2>4. Settled(t, t, top)
    BY <1>1, <2>3 DEF Settled
  <2>5. t = [t EXCEPT !.last_cumulative_acked_tsn = cum,
                      !.additional_tsn_blocks = blocks]
    BY Zenon DEF Trackers
  <2> QED
    BY <2>1, <2>4, <2>5
<1> QED
  BY <1>3, <1>4

------------------------------------------------------------------------------
(* Unwrapping.                                                             *)

\* A remainder of a number that is near 0.
LEMMA Remainder ==
  ASSUME NEW m \in Nat \ {0}, NEW x \in Int, x >= -m, x < m
  PROVE  x % m = IF x >= 0 THEN x ELSE x + m
<1>1. CASE x >= 0
  BY <1>1
<1>2. CASE x < 0
  BY <1>2
<1> QED
  BY <1>1, <1>2

\* Only three multiples of m are less than 2 * m away from 0.
LEMMA SmallMultiple ==
  ASSUME NEW m \in Nat \ {0}, NEW k \in Int, m * k < 2 * m, m * k > -2 * m
  PROVE  k \in {-1, 0, 1}
  BY SMT

\* From less than half of the range away a TSN is unwrapped right.
LEMMA Unwrapped ==
  ASSUME NEW t, t.last_unwrapped \in Int, NEW tsn \in Int,
         2 * (tsn - t.last_unwrapped) < TsnLimit,
         2 * (t.last_unwrapped - tsn) < TsnLimit
  PROVE  PeekUnwrap(t, Wrap(tsn)) = tsn
<1> DEFINE l == t.last_unwrapped
           M == TsnLimit
           a == l % M
           b == tsn % M
           p == l \div M
           q == tsn \div M
           diff == (b - a) % M
<1>1. M \in Nat \ {0} /\ l \in Int
  BY TrackerAssumption
<1>2. a \in 0..(M - 1) /\ p \in Int /\ l = M * p + a
  BY <1>1, Division, Zenon
<1>3. b \in 0..(M - 1) /\ q \in Int /\ tsn = M * q + b
  BY <1>1, Division, Zenon
<1> HIDE DEF a, b, p, q, l, M
<1>4. 2 * (tsn - l) < M /\ 2 * (l - tsn) < M
  BY DEF l, M
<1>5. q - p \in Int /\ M * (q - p) = (tsn - l) - (b - a)
  BY <1>1, <1>2, <1>3
<1>6. q - p \in {-1, 0, 1}
  <2>1. M * (q - p) < 2 * M /\ M * (q - p) > -2 * M
    BY <1>1, <1>2, <1>3, <1>4, <1>5
  <2> QED
    BY <1>1, <1>5, <2>1, SmallMultiple, Zenon
<1>7. \/ tsn - l = b - a
      \/ tsn - l = b - a + M
      \/ tsn - l = b - a - M
  BY <1>1, <1>2, <1>3, <1>5, <1>6
<1>8. diff = IF b - a >= 0 THEN b - a ELSE b - a + M
  <2>1. b - a \in Int /\ b - a >= -M /\ b - a < M
    BY <1>1, <1>2, <1>3
  <2> QED
    BY <1>1, <2>1, Remainder
<1> HIDE DEF diff
<1>9. Delta(a, b) = tsn - l
  <2>1. Delta(a, b) = IF (IF 2 * diff = M THEN a < b ELSE 2 * diff < M)
                      THEN diff ELSE diff - M
    BY DEF Delta, diff, M
  <2> QED
    BY <1>1, <1>2, <1>3, <1>4, <1>7, <1>8, <2>1
<1> QED
  BY <1>1, <1>9 DEF PeekUnwrap, Wrap, a, b, l, M

------------------------------------------------------------------------------
(* The tracker.                                                            *)

\* The part of the inductive invariant that is about the TSNs.
Sound(t) ==
  LET cum == t.last_cumulative_acked_tsn
      K == kMaxAcceptedOutstandingFragments
  IN  /\ t \in Trackers
      /\ cum >= First - 1
      /\ InOrder(t.additional_tsn_blocks, cum)
      /\ UpTo(t.additional_tsn_blocks, cum + K)
      /\ t.last_unwrapped - cum <= K
      /\ cum - t.last_unwrapped <= K + NetworkDelay

\* v differs from t in its acknowledgements only.
SameTsns(v, t) ==
  /\ v \in Trackers
  /\ v.last_unwrapped = t.last_unwrapped
  /\ v.last_cumulative_acked_tsn = t.last_cumulative_acked_tsn
  /\ v.additional_tsn_blocks = t.additional_tsn_blocks

LEMMA SameIsSound ==
  ASSUME NEW t, NEW v, Sound(t), SameTsns(v, t)
  PROVE  Sound(v) /\ \A x \in Int : Knows(v, x) <=> Knows(t, x)
  BY DEF SameTsns, Sound, Knows

LEMMA ConstantTypes ==
  /\ TsnLimit \in Nat \ {0} /\ kMaxAcceptedOutstandingFragments \in Nat
  /\ PeerWindow \in Nat /\ NetworkDelay \in Nat /\ MaxChunks \in Nat
  /\ First \in Int /\ Last \in Int /\ MaxBundle \in Nat
  /\ 2 * (kMaxAcceptedOutstandingFragments + PeerWindow + NetworkDelay) < TsnLimit
<1>1. /\ TsnLimit \in Nat \ {0} /\ kMaxAcceptedOutstandingFragments \in Nat
      /\ PeerWindow \in Nat /\ NetworkDelay \in Nat /\ MaxChunks \in Nat
      /\ MaxBundle \in Nat /\ InitialTsn \in Int
      /\ 2 * (kMaxAcceptedOutstandingFragments + PeerWindow + NetworkDelay) < TsnLimit
  BY TrackerAssumption
<1>2. InitialTsn - 1 \in Int
  BY <1>1
<1>3. (InitialTsn - 1) % TsnLimit \in 0..(TsnLimit - 1)
  BY <1>1, <1>2, Division
<1>4. First \in Int
  BY <1>1, <1>3 DEF First
<1>5. Last \in Int
  BY <1>1, <1>4 DEF Last
<1> QED
  BY <1>1, <1>4, <1>5

\* Whatever is in flight is unwrapped right.
LEMMA InFlightUnwrapped ==
  ASSUME Sound(tracker), NEW tsn \in InFlight
  PROVE  /\ tsn \in Int /\ PeekUnwrap(tracker, Wrap(tsn)) = tsn
         /\ tsn >= First /\ tsn <= Last
         /\ tsn - tracker.last_cumulative_acked_tsn <= PeerWindow
         /\ tracker.last_cumulative_acked_tsn - tsn <= NetworkDelay
<1> DEFINE cum == tracker.last_cumulative_acked_tsn
           l == tracker.last_unwrapped
<1>1. cum \in Int /\ l \in Int
  BY DEF Sound, Trackers
<1>2. /\ tsn \in Int /\ tsn >= First /\ tsn <= Last
      /\ tsn - cum <= PeerWindow /\ cum - tsn <= NetworkDelay
  BY <1>1, ConstantTypes DEF InFlight
<1>3. l - cum <= kMaxAcceptedOutstandingFragments
      /\ cum - l <= kMaxAcceptedOutstandingFragments + NetworkDelay
  BY DEF Sound
<1>4. 2 * (tsn - l) < TsnLimit /\ 2 * (l - tsn) < TsnLimit
  BY <1>1, <1>2, <1>3, ConstantTypes
<1> QED
  BY <1>1, <1>2, <1>4, Unwrapped

\* The state after a chunk with the TSN u has been taken, apart from the
\* acknowledgement: v knows u beside what t knows.
LEMMA AddDuplicateKeeps ==
  ASSUME NEW t \in Trackers, NEW u \in Int
  PROVE  /\ SameTsns(AddDuplicate(t, u), t)
         /\ AddDuplicate(t, u).ack_state = t.ack_state
         /\ AddDuplicate(t, u).delayed_ack_timer = t.delayed_ack_timer
<1>1. Wrap(u) \in 0..(TsnLimit - 1)
  BY ConstantTypes, Division DEF Wrap
<1> QED
  BY <1>1, Zenon DEF AddDuplicate, SameTsns, Trackers

LEMMA UpToMore ==
  ASSUME NEW blocks \in Seq(Blocks), NEW top \in Int, NEW more \in Int,
         top <= more, UpTo(blocks, top)
  PROVE  UpTo(blocks, more)
<1> SUFFICES ASSUME NEW i \in 1..Len(blocks) PROVE blocks[i].last <= more
  BY DEF UpTo
<1>1. blocks[i].last \in Int
  BY BlockType
<1>2. blocks[i].last <= top
  BY DEF UpTo
<1> QED
  BY <1>1, <1>2

\* Observe() without its acknowledgement.
Observed(t, u) == [Receive(t, u) EXCEPT !.last_unwrapped = u, !.seen_packet = TRUE]

\* v is sound and has the acknowledgement state of t.
SoundAs(v, t) ==
  Sound(v) /\ v.ack_state = t.ack_state /\ v.delayed_ack_timer = t.delayed_ack_timer

LEMMA ObservedRight ==
  ASSUME NEW t, Sound(t), NEW u \in Int,
         u - t.last_cumulative_acked_tsn <= kMaxAcceptedOutstandingFragments,
         t.last_cumulative_acked_tsn - u <= kMaxAcceptedOutstandingFragments
  PROVE  /\ SoundAs(Observed(t, u), t)
         /\ \A x \in Int : Knows(Observed(t, u), x) <=> Knows(t, x) \/ x = u
         /\ IsNew(t, u) <=> ~Knows(t, u)
<1> DEFINE cum == t.last_cumulative_acked_tsn
           blocks == t.additional_tsn_blocks
           K == kMaxAcceptedOutstandingFragments
           w == Receive(t, u)
<1>1. /\ t \in Trackers /\ cum \in Int /\ blocks \in Seq(Blocks)
      /\ InOrder(blocks, cum) /\ UpTo(blocks, cum + K) /\ cum >= First - 1
  BY DEF Sound, Trackers, Blocks
<1>2. K \in Nat /\ NetworkDelay \in Nat /\ First \in Int /\ cum + K \in Int
  BY <1>1, ConstantTypes
<1>3. ASSUME w \in Trackers, w.ack_state = t.ack_state,
             w.delayed_ack_timer = t.delayed_ack_timer,
             w.last_cumulative_acked_tsn >= cum,
             w.last_cumulative_acked_tsn - u <= K,
             InOrder(w.additional_tsn_blocks, w.last_cumulative_acked_tsn),
             UpTo(w.additional_tsn_blocks, cum + K),
             \A x \in Int : Knows(w, x) <=> Knows(t, x) \/ x = u
      PROVE  /\ SoundAs(Observed(t, u), t)
             /\ \A x \in Int : Knows(Observed(t, u), x) <=> Knows(t, x) \/ x = u
  <2> DEFINE v == [w EXCEPT !.last_unwrapped = u, !.seen_packet = TRUE]
  <2>1. Observed(t, u) = v
    BY DEF Observed
  <2>2. /\ v \in Trackers /\ v.last_unwrapped = u
        /\ v.last_cumulative_acked_tsn = w.last_cumulative_acked_tsn
        /\ v.additional_tsn_blocks = w.additional_tsn_blocks
        /\ v.ack_state = w.ack_state /\ v.delayed_ack_timer = w.delayed_ack_timer
    BY <1>3, Zenon DEF Trackers
  <2> HIDE DEF v, w
  <2>3. w.last_cumulative_acked_tsn \in Int /\ w.additional_tsn_blocks \in Seq(Blocks)
    BY <1>3 DEF Trackers, Blocks
  <2>4. UpTo(w.additional_tsn_blocks, w.last_cumulative_acked_tsn + K)
    <3>1. /\ w.last_cumulative_acked_tsn + K \in Int
          /\ cum + K <= w.last_cumulative_acked_tsn + K
      BY <1>1, <1>2, <1>3, <2>3
    <3> QED
      BY <1>2, <1>3, <2>3, <3>1, UpToMore, Zenon
  <2>5. /\ u - w.last_cumulative_acked_tsn <= K
        /\ w.last_cumulative_acked_tsn - u <= K + NetworkDelay
        /\ w.last_cumulative_acked_tsn >= First - 1
    BY <1>1, <1>2, <1>3, <2>3, SMTT(30)
  <2>6. Sound(v)
    BY <1>3, <2>2, <2>4, <2>5 DEF Sound
  <2>7. \A x \in Int : Knows(v, x) <=> Knows(w, x)
    BY <2>2 DEF Knows
  <2> QED
    BY <1>3, <2>1, <2>2, <2>6, <2>7 DEF SoundAs
<1>4. ASSUME w = AddDuplicate(t, u), Knows(t, u), cum - u <= K
      PROVE  /\ SoundAs(Observed(t, u), t)
             /\ \A x \in Int : Knows(Observed(t, u), x) <=> Knows(t, x) \/ x = u
  <2>1. SameTsns(w, t) /\ w.ack_state = t.ack_state /\ w.delayed_ack_timer = t.delayed_ack_timer
    BY <1>1, <1>4, AddDuplicateKeeps
  <2> HIDE DEF w
  <2>2. \A x \in Int : Knows(w, x) <=> Knows(t, x)
    BY <2>1, SameIsSound
  <2>3. /\ w \in Trackers /\ w.last_cumulative_acked_tsn = cum
        /\ w.additional_tsn_blocks = blocks
    BY <2>1 DEF SameTsns
  <2>4. w.last_cumulative_acked_tsn >= cum
    BY <1>1, <2>3
  <2> QED
    BY <1>1, <1>3, <1>4, <2>1, <2>2, <2>3, <2>4
<1>5. CASE u <= cum
  <2>1. w = AddDuplicate(t, u)
    BY <1>5 DEF Receive
  <2>2. Knows(t, u) /\ ~IsNew(t, u)
    BY <1>1, <1>5 DEF Knows, IsNew
  <2> QED
    BY <1>4, <2>1, <2>2
<1>6. CASE u = cum + 1
  <2> DEFINE s == [t EXCEPT !.last_cumulative_acked_tsn = u]
             top == cum + K
  <2>1. w = FillGap(s)
    BY <1>1, <1>6 DEF Receive
  <2>2. /\ s \in Trackers /\ s.last_cumulative_acked_tsn = u
        /\ s.additional_tsn_blocks = blocks
        /\ s.ack_state = t.ack_state /\ s.delayed_ack_timer = t.delayed_ack_timer
    BY <1>1, Zenon DEF Trackers
  <2>3. AlmostInOrder(blocks, u)
    <3> SUFFICES ASSUME NEW i \in 1..Len(blocks)
                 PROVE  /\ blocks[i].first > u /\ blocks[i].first <= blocks[i].last
                        /\ \A j \in 1..(i - 1) : blocks[j].last + 1 < blocks[i].first
      BY DEF AlmostInOrder
    <3> QED
      BY <1>1, <1>6 DEF InOrder
  <2>4. u <= top
    BY <1>1, <1>2
  <2> HIDE DEF s, w
  <2>5. /\ Settled(w, s, top) /\ w \in Trackers
        /\ w = [s EXCEPT
                 !.last_cumulative_acked_tsn = w.last_cumulative_acked_tsn,
                 !.additional_tsn_blocks = w.additional_tsn_blocks]
    BY <1>1, <1>2, <2>1, <2>2, <2>3, <2>4, FillGapRight, Zenon
  <2>6. w.ack_state = t.ack_state /\ w.delayed_ack_timer = t.delayed_ack_timer
    BY <2>2, <2>5, Zenon DEF Trackers
  <2>7. ASSUME NEW x \in Int PROVE Knows(s, x) <=> Knows(t, x) \/ x = u
    BY <1>1, <1>6, <2>2 DEF Knows
  <2>8. ~Knows(t, u) /\ IsNew(t, u)
    <3>1. ~Has(blocks, u)
      <4>1. ASSUME NEW i \in 1..Len(blocks) PROVE ~(blocks[i].first <= u)
        BY <1>1, <1>6, BlockType DEF InOrder
      <4> QED
        BY <4>1 DEF Has
    <3> QED
      BY <1>1, <1>6, <3>1 DEF Knows, IsNew
  <2>9. /\ w.last_cumulative_acked_tsn >= cum /\ w.last_cumulative_acked_tsn - u <= K
    <3>1. /\ w.last_cumulative_acked_tsn \in Int
          /\ w.last_cumulative_acked_tsn >= u /\ w.last_cumulative_acked_tsn <= top
      BY <2>2, <2>5 DEF Settled
    <3> QED
      BY <1>1, <1>2, <1>6, <3>1, SMTT(30)
  <2> QED
    BY <1>3, <2>5, <2>6, <2>7, <2>8, <2>9 DEF Settled
<1>7. CASE u > cum + 1
  <2> DEFINE new == Add(blocks, u)
  <2>1. Added(new, blocks, u, cum) /\ (Has(blocks, u) => new = blocks)
    BY <1>1, <1>7, AddRight
  <2> HIDE DEF new
  <2>2. ~(u <= cum) /\ u # cum + 1
    BY <1>1, <1>7
  <2>3. new = blocks <=> Has(blocks, u)
    BY <2>1 DEF Added
  <2>4. IsNew(t, u) <=> ~Knows(t, u)
    BY <1>1, <2>2, <2>3 DEF IsNew, Knows, new
  <2>5. CASE new = blocks
    <3>1. w = AddDuplicate(t, u)
      BY <2>2, <2>5 DEF Receive, new
    <3> QED
      BY <1>4, <2>3, <2>4, <2>5, <3>1 DEF Knows
  <2>6. CASE new # blocks
    <3>1. w = [t EXCEPT !.additional_tsn_blocks = new]
      BY <2>2, <2>6 DEF Receive, new
    <3>2. /\ w \in Trackers /\ w.last_cumulative_acked_tsn = cum
          /\ w.additional_tsn_blocks = new
          /\ w.ack_state = t.ack_state /\ w.delayed_ack_timer = t.delayed_ack_timer
      BY <1>1, <2>1, <3>1, Zenon DEF Trackers, Added, Blocks
    <3> HIDE DEF w
    <3>3. w.last_cumulative_acked_tsn >= cum /\ u <= cum + K
      BY <1>1, <1>2, <3>2
    <3>4. \A x \in Int : Knows(w, x) <=> Knows(t, x) \/ x = u
      BY <2>1, <3>2 DEF Knows, Added
    <3>5. InOrder(new, cum) /\ UpTo(new, cum + K)
      BY <1>1, <1>2, <2>1, <3>3 DEF Added
    <3> QED
      BY <1>3, <2>4, <3>2, <3>3, <3>4, <3>5
  <2> QED
    BY <2>5, <2>6
<1> QED
  BY <1>1, <1>5, <1>6, <1>7

\* HandleForwardTsn() without its acknowledgement.
Forwarded(t, u) ==
  LET v == [t EXCEPT !.last_unwrapped = u]
  IN  IF u <= t.last_cumulative_acked_tsn THEN v
      ELSE FillGap([v EXCEPT !.last_cumulative_acked_tsn = u,
                             !.additional_tsn_blocks = EraseTo(@, u)])

LEMMA ForwardedRight ==
  ASSUME NEW t, Sound(t), NEW u \in Int,
         t.last_cumulative_acked_tsn - u <= NetworkDelay
  PROVE  /\ SoundAs(Forwarded(t, u), t)
         /\ \A x \in Int : Knows(Forwarded(t, u), x) <=> Knows(t, x) \/ x <= u
<1> DEFINE cum == t.last_cumulative_acked_tsn
           blocks == t.additional_tsn_blocks
           K == kMaxAcceptedOutstandingFragments
<1>1. /\ t \in Trackers /\ cum \in Int /\ blocks \in Seq(Blocks)
      /\ InOrder(blocks, cum) /\ UpTo(blocks, cum + K) /\ cum >= First - 1
  BY DEF Sound, Trackers, Blocks
<1>2. K \in Nat /\ NetworkDelay \in Nat /\ First \in Int /\ cum + K \in Int /\ u + K \in Int
  BY <1>1, ConstantTypes
<1>3. CASE u <= cum
  <2> DEFINE v == [t EXCEPT !.last_unwrapped = u]
  <2>1. Forwarded(t, u) = v
    BY <1>3 DEF Forwarded
  <2>2. /\ v \in Trackers /\ v.last_unwrapped = u
        /\ v.last_cumulative_acked_tsn = cum /\ v.additional_tsn_blocks = blocks
        /\ v.ack_state = t.ack_state /\ v.delayed_ack_timer = t.delayed_ack_timer
    BY <1>1, Zenon DEF Trackers
  <2> HIDE DEF v
  <2>3. u - cum <= K /\ cum - u <= K + NetworkDelay
    BY <1>1, <1>2, <1>3
  <2>4. Sound(v)
    BY <1>1, <2>2, <2>3 DEF Sound
  <2>5. ASSUME NEW x \in Int PROVE Knows(v, x) <=> Knows(t, x) \/ x <= u
    BY <1>1, <1>3, <2>2 DEF Knows
  <2> QED
    BY <2>1, <2>2, <2>4, <2>5 DEF SoundAs
<1>4. CASE u > cum
  <2> DEFINE rest == EraseTo(blocks, u)
             s == [[t EXCEPT !.last_unwrapped = u]
                     EXCEPT !.last_cumulative_acked_tsn = u,
                            !.additional_tsn_blocks = rest]
             v == FillGap(s)
             top == u + K
  <2>1. Forwarded(t, u) = v
    BY <1>1, <1>4 DEF Forwarded
  <2>2. /\ rest \in Seq(Blocks) /\ AlmostInOrder(rest, u)
        /\ \A x \in Int : x > u => (Has(rest, x) <=> Has(blocks, x))
        /\ UpTo(rest, cum + K)
    BY <1>1, <1>2, <1>4, EraseToRight
  <2> HIDE DEF rest
  <2>3. /\ s \in Trackers /\ s.last_unwrapped = u
        /\ s.last_cumulative_acked_tsn = u /\ s.additional_tsn_blocks = rest
        /\ s.ack_state = t.ack_state /\ s.delayed_ack_timer = t.delayed_ack_timer
    BY <1>1, <2>2, Zenon DEF Trackers, Blocks
  <2> HIDE DEF s
  <2>4. u <= top /\ cum + K <= top
    BY <1>1, <1>2, <1>4
  <2>5. UpTo(rest, top)
    BY <1>2, <2>2, <2>4, UpToMore, Zenon
  <2>6. /\ Settled(v, s, top) /\ v \in Trackers
        /\ v = [s EXCEPT
                 !.last_cumulative_acked_tsn = v.last_cumulative_acked_tsn,
                 !.additional_tsn_blocks = v.additional_tsn_blocks]
    BY <1>2, <2>2, <2>3, <2>4, <2>5, FillGapRight, Zenon
  <2> HIDE DEF v
  <2>7. /\ v.last_unwrapped = u
        /\ v.ack_state = t.ack_state /\ v.delayed_ack_timer = t.delayed_ack_timer
    BY <2>3, <2>6, Zenon DEF Trackers
  <2>8. ASSUME NEW x \in Int PROVE Knows(s, x) <=> Knows(t, x) \/ x <= u
    BY <1>1, <1>4, <2>2, <2>3 DEF Knows
  <2>9. /\ v.last_cumulative_acked_tsn \in Int
        /\ v.last_cumulative_acked_tsn >= u /\ v.last_cumulative_acked_tsn <= top
        /\ UpTo(v.additional_tsn_blocks, top) /\ v.additional_tsn_blocks \in Seq(Blocks)
        /\ InOrder(v.additional_tsn_blocks, v.last_cumulative_acked_tsn)
    BY <2>3, <2>6 DEF Settled
  <2>10. /\ v.last_cumulative_acked_tsn + K \in Int
         /\ top <= v.last_cumulative_acked_tsn + K
         /\ v.last_cumulative_acked_tsn >= First - 1
         /\ u - v.last_cumulative_acked_tsn <= K
         /\ v.last_cumulative_acked_tsn - u <= K + NetworkDelay
    <3> HIDE DEF cum
    <3> QED
      BY <1>1, <1>2, <1>4, <2>9, SMTT(30)
  <2>11. UpTo(v.additional_tsn_blocks, v.last_cumulative_acked_tsn + K)
    BY <1>2, <2>9, <2>10, UpToMore, Zenon
  <2>12. Sound(v)
    BY <2>6, <2>7, <2>9, <2>10, <2>11 DEF Sound
  <2> QED
    BY <2>1, <2>6, <2>7, <2>8, <2>12 DEF SoundAs, Settled
<1> QED
  BY <1>1, <1>3, <1>4

------------------------------------------------------------------------------
(* Acknowledgements.                                                       *)

AckStates == {"Idle", "BecomingDelayed", "Delayed", "Immediate"}

LEMMA UpdateAckStateIs ==
  ASSUME NEW t \in Trackers, NEW new_state \in AckStates
  PROVE  /\ SameTsns(UpdateAckState(t, new_state), t)
         /\ UpdateAckState(t, new_state).ack_state = new_state
         /\ UpdateAckState(t, new_state).duplicate_tsns = t.duplicate_tsns
         /\ UpdateAckState(t, new_state).delayed_ack_timer =
              IF new_state = t.ack_state THEN t.delayed_ack_timer
              ELSE IF t.ack_state = "Delayed" THEN FALSE
              ELSE t.delayed_ack_timer \/ new_state = "Delayed"
  BY Zenon DEF UpdateAckState, SameTsns, Trackers, AckStates

\* A packet that brought something is acknowledged at once, or it is the first
\* one and the next one will be.
Acks(v, t) ==
  /\ v.ack_state \in {"BecomingDelayed", "Immediate"}
  /\ v.ack_state = "BecomingDelayed" => t.ack_state \in {"Idle", "BecomingDelayed"}

LEMMA DelayAckIs ==
  ASSUME NEW t \in Trackers
  PROVE  SameTsns(DelayAck(t), t) /\ Acks(DelayAck(t), t)
<1>1. CASE t.ack_state = "Idle"
  BY <1>1, UpdateAckStateIs, Zenon DEF DelayAck, Acks, AckStates
<1>2. CASE t.ack_state = "Delayed"
  BY <1>2, UpdateAckStateIs, Zenon DEF DelayAck, Acks, AckStates
<1>3. CASE t.ack_state \in {"BecomingDelayed", "Immediate"}
  <2>1. DelayAck(t) = t
    BY <1>3 DEF DelayAck
  <2> QED
    BY <1>3, <2>1 DEF Acks, SameTsns
<1> QED
  BY <1>1, <1>2, <1>3 DEF Trackers

LEMMA ImmediateIs ==
  ASSUME NEW t \in Trackers
  PROVE  /\ SameTsns(UpdateAckState(t, "Immediate"), t)
         /\ Acks(UpdateAckState(t, "Immediate"), t)
  BY UpdateAckStateIs, Zenon DEF Acks, AckStates

\* A whole Observe() and a whole HandleForwardTsn().
LEMMA ObserveIs ==
  ASSUME NEW t, NEW tsn, NEW immediate_ack,
         SoundAs(Observed(t, PeekUnwrap(t, tsn)), t)
  PROVE  LET v == Observe(t, tsn, immediate_ack)
         IN  SameTsns(v, Observed(t, PeekUnwrap(t, tsn))) /\ Acks(v, t)
<1> DEFINE v == Observed(t, PeekUnwrap(t, tsn))
<1>1. v \in Trackers /\ v.ack_state = t.ack_state
  BY DEF SoundAs, Sound
<1>2. \/ Observe(t, tsn, immediate_ack) = UpdateAckState(v, "Immediate")
      \/ Observe(t, tsn, immediate_ack) = DelayAck(v)
  BY Zenon DEF Observe, Observed
<1> HIDE DEF v
<1>3. \A w : Acks(w, v) => Acks(w, t)
  BY <1>1 DEF Acks
<1> QED
  BY <1>1, <1>2, <1>3, ImmediateIs, DelayAckIs, Zenon DEF v

LEMMA HandleForwardTsnIs ==
  ASSUME NEW t, NEW tsn, SoundAs(Forwarded(t, PeekUnwrap(t, tsn)), t)
  PROVE  LET v == HandleForwardTsn(t, tsn)
         IN  SameTsns(v, Forwarded(t, PeekUnwrap(t, tsn))) /\ Acks(v, t)
<1> DEFINE v == Forwarded(t, PeekUnwrap(t, tsn))
<1>1. v \in Trackers /\ v.ack_state = t.ack_state
  BY DEF SoundAs, Sound
<1>2. \/ HandleForwardTsn(t, tsn) = UpdateAckState(v, "Immediate")
      \/ HandleForwardTsn(t, tsn) = DelayAck(v)
  <2>1. CASE PeekUnwrap(t, tsn) <= t.last_cumulative_acked_tsn
    BY <2>1 DEF HandleForwardTsn, Forwarded
  <2>2. CASE ~(PeekUnwrap(t, tsn) <= t.last_cumulative_acked_tsn)
    BY <2>2 DEF HandleForwardTsn, Forwarded
  <2> QED
    BY <2>1, <2>2
<1> HIDE DEF v
<1>3. \A w : Acks(w, v) => Acks(w, t)
  BY <1>1 DEF Acks
<1> QED
  BY <1>1, <1>2, <1>3, ImmediateIs, DelayAckIs, Zenon DEF v

------------------------------------------------------------------------------
(* The inductive invariant.                                                *)

\* What AckedInTime needs of the states in the middle of a packet.
AckInv ==
  LET s == tracker.ack_state
  IN  /\ bundle = 0 => ~owed.current /\ s \in {"Idle", "Delayed"}
      /\ owed.current => s \in {"BecomingDelayed", "Immediate"}
      /\ owed.packets <= 1
      /\ owed.packets = 1 => s \in {"Delayed", "Immediate"}
      /\ s = "Delayed" => tracker.delayed_ack_timer

IInv == TypeOK /\ Sound(tracker) /\ AckInv

LEMMA InitIInv == Init => IInv
<1> SUFFICES ASSUME Init PROVE IInv
  OBVIOUS
<1>1. First - 1 \in Int /\ kMaxAcceptedOutstandingFragments \in Nat /\ NetworkDelay \in Nat
      /\ First \in Int /\ MaxBundle \in Nat
  BY ConstantTypes
<1>2. /\ tracker \in Trackers /\ tracker.last_unwrapped = First - 1
      /\ tracker.last_cumulative_acked_tsn = First - 1
      /\ tracker.additional_tsn_blocks = <<>> /\ tracker.ack_state = "Idle"
  BY <1>1 DEF Init, Trackers
<1>3. InOrder(<<>>, First - 1) /\ UpTo(<<>>, First - 1 + kMaxAcceptedOutstandingFragments)
  BY DEF InOrder, UpTo
<1>4. Sound(tracker)
  <2>1. /\ First - 1 >= First - 1
        /\ (First - 1) - (First - 1) <= kMaxAcceptedOutstandingFragments
        /\ (First - 1) - (First - 1) <= kMaxAcceptedOutstandingFragments + NetworkDelay
    BY <1>1
  <2> QED
    BY <1>2, <1>3, <2>1 DEF Sound
<1>5. TypeOK
  <2>1. result \in BOOLEAN
    BY Zenon DEF Init
  <2>2. bundle \in 0..MaxBundle
    BY <1>1 DEF Init
  <2>3. owed \in [packets : Nat, current : BOOLEAN]
    BY DEF Init
  <2> QED
    BY <1>2, <2>1, <2>2, <2>3 DEF TypeOK, Trackers
<1>6. AckInv
  BY <1>2 DEF AckInv, Init
<1> QED
  BY <1>4, <1>5, <1>6 DEF IInv

\* A chunk that brings something: the tracker becomes v.
LEMMA ChunkKeeps ==
  ASSUME IInv, NextChunk, Sound(tracker'), Acks(tracker', tracker),
         result' \in BOOLEAN, owed' = [owed EXCEPT !.current = TRUE]
  PROVE  IInv'
<1>1. bundle' \in 0..MaxBundle /\ bundle' # 0
  <2>1. bundle \in 0..MaxBundle /\ MaxBundle \in Nat
    BY ConstantTypes DEF IInv, TypeOK
  <2> QED
    BY <2>1 DEF NextChunk
<1>2. owed' \in [packets : Nat, current : BOOLEAN] /\ owed'.packets = owed.packets /\ owed'.current
  BY Zenon DEF IInv, TypeOK
<1>3. TypeOK'
  BY <1>1, <1>2 DEF TypeOK, Sound, Trackers
<1>4. AckInv'
  BY <1>1, <1>2 DEF AckInv, IInv, Acks
<1> QED
  BY <1>3, <1>4 DEF IInv

\* MaybeSendSack(t, states).
LEMMA SackKeeps ==
  ASSUME IInv, NEW t, NEW states, SameTsns(t, tracker), MaybeSendSack(t, states),
         UNCHANGED result, bundle' \in 0..MaxBundle,
         t.ack_state \notin states =>
           /\ t.ack_state = "Delayed" => t.delayed_ack_timer
           /\ t.ack_state \in {"Idle", "Delayed"}
           /\ owed.packets + (IF owed.current THEN 1 ELSE 0) <= 1
           /\ owed.packets + (IF owed.current THEN 1 ELSE 0) = 1 => t.ack_state = "Delayed"
  PROVE  IInv' /\ SameTsns(tracker', tracker)
<1>1. t \in Trackers /\ Sound(t)
  BY SameIsSound DEF IInv, SameTsns
<1>2. CASE t.ack_state \in states
  <2>1. tracker' = AfterAck(t) /\ owed' = [packets |-> 0, current |-> FALSE]
    BY <1>2 DEF MaybeSendSack, SendsAck
  <2> DEFINE v == UpdateAckState(t, "Idle")
  <2>2. SameTsns(v, t) /\ v \in Trackers /\ v.ack_state = "Idle"
    BY <1>1, UpdateAckStateIs, Zenon DEF SameTsns, AckStates
  <2> HIDE DEF v
  <2>3. tracker' = [v EXCEPT !.duplicate_tsns = {}]
    BY <2>1 DEF AfterAck, v
  <2>4. SameTsns(tracker', v) /\ tracker'.ack_state = "Idle"
    BY <2>2, <2>3 DEF SameTsns, Trackers
  <2>5. SameTsns(tracker', tracker)
    BY <2>2, <2>4 DEF SameTsns
  <2>6. Sound(tracker')
    BY <2>5, SameIsSound DEF IInv
  <2>7. TypeOK'
    BY <2>1, <2>5 DEF TypeOK, SameTsns, Trackers, IInv
  <2>8. AckInv'
    BY <2>1, <2>4 DEF AckInv
  <2> QED
    BY <2>5, <2>6, <2>7, <2>8 DEF IInv
<1>3. CASE t.ack_state \notin states
  <2> DEFINE p == owed.packets + (IF owed.current THEN 1 ELSE 0)
  <2>1. tracker' = t /\ owed' = [packets |-> p, current |-> FALSE]
    BY <1>3 DEF MaybeSendSack, SendsAck
  <2>2. p \in Nat
    BY DEF IInv, TypeOK
  <2> HIDE DEF p
  <2>3. TypeOK'
    BY <1>1, <2>1, <2>2 DEF TypeOK, Trackers, IInv
  <2>4. AckInv'
    BY <1>3, <2>1, <2>2 DEF AckInv, p
  <2> QED
    BY <1>1, <2>1, <2>3, <2>4 DEF IInv
<1> QED
  BY <1>2, <1>3

\* The set of TSNs changes as ReceivedTsns says, or not at all.
TsnStep == TsnSet!Next \/ UNCHANGED <<Received(tracker), result>>

LEMMA ReceivedIs ==
  ASSUME NEW t \in Trackers
  PROVE  Received(t) = {tsn \in First..Last : Knows(t, tsn)}
<1> DEFINE blocks == t.additional_tsn_blocks
<1> SUFFICES ASSUME NEW tsn \in First..Last
             PROVE  (\E i \in DOMAIN blocks : tsn \in blocks[i].first..blocks[i].last)
                      <=> Has(blocks, tsn)
  BY DEF Received, Knows
<1>1. tsn \in Int
  BY ConstantTypes
<1>2. blocks \in Seq(Blocks)
  BY DEF Trackers, Blocks
<1> HIDE DEF blocks
<1>3. DOMAIN blocks = 1..Len(blocks)
  BY <1>2, LenIs
<1>4. \A i \in 1..Len(blocks) : blocks[i].first \in Int /\ blocks[i].last \in Int
  BY <1>2, BlockType
<1> QED
  BY <1>1, <1>3, <1>4 DEF Has

\* The TSNs that are known decide what has been received.
LEMMA ReceivedFrom ==
  ASSUME Sound(tracker), Sound(tracker')
  PROVE  /\ First..Last \subseteq Int
         /\ Received(tracker) = {x \in First..Last : Knows(tracker, x)}
         /\ Received(tracker)' = {x \in First..Last : Knows(tracker', x)}
<1>1. Received(tracker)' = Received(tracker')
  BY DEF Received
<1> QED
  BY <1>1, ReceivedIs, ConstantTypes DEF Sound

\* Nothing happens to the TSNs.
LEMMA SameReceived ==
  ASSUME Sound(tracker), SameTsns(tracker', tracker), UNCHANGED result
  PROVE  TsnStep
<1>1. Sound(tracker') /\ \A x \in Int : Knows(tracker', x) <=> Knows(tracker, x)
  BY SameIsSound
<1>2. Received(tracker)' = Received(tracker)
  BY <1>1, ReceivedFrom
<1> QED
  BY <1>2 DEF TsnStep

\* What the tracker knows after a chunk of data.
LEMMA HandleDataTsns ==
  ASSUME IInv, NEW tsn \in InFlight, NEW immediate_ack \in BOOLEAN,
         HandleData(tsn, immediate_ack)
  PROVE  /\ tsn \in Int /\ PeekUnwrap(tracker, Wrap(tsn)) = tsn
         /\ tsn >= First /\ tsn <= Last
         /\ tsn - tracker.last_cumulative_acked_tsn <= PeerWindow
         /\ Acks(tracker', tracker) /\ Sound(tracker) /\ Sound(tracker')
         /\ \A x \in Int : Knows(tracker', x) <=> Knows(tracker, x) \/ x = tsn
         /\ result' = ~Knows(tracker, tsn)
<1> DEFINE w == Wrap(tsn)
           v == Observed(tracker, tsn)
           cum == tracker.last_cumulative_acked_tsn
           K == kMaxAcceptedOutstandingFragments
<1>1. /\ tsn \in Int /\ PeekUnwrap(tracker, w) = tsn /\ tsn >= First /\ tsn <= Last
      /\ tsn - cum <= PeerWindow /\ Sound(tracker)
  BY InFlightUnwrapped DEF IInv
<1>2. tsn - cum <= K /\ cum - tsn <= K
  <2>1. tsn - cum \in (-K)..K
    BY <1>1 DEF HandleData, IsTSNValid
  <2>2. cum \in Int /\ K \in Nat
    BY <1>1, ConstantTypes DEF Sound, Trackers
  <2> QED
    BY <1>1, <2>1, <2>2
<1>3. /\ SoundAs(v, tracker)
      /\ \A x \in Int : Knows(v, x) <=> Knows(tracker, x) \/ x = tsn
      /\ IsNew(tracker, tsn) <=> ~Knows(tracker, tsn)
  BY <1>1, <1>2, ObservedRight
<1>4. tracker' = Observe(tracker, w, immediate_ack) /\ result' = IsNew(tracker, tsn)
  BY <1>1 DEF HandleData
<1>5. SameTsns(tracker', v) /\ Acks(tracker', tracker)
  BY <1>1, <1>3, <1>4, ObserveIs
<1>6. Sound(tracker') /\ \A x \in Int : Knows(tracker', x) <=> Knows(v, x)
  BY <1>3, <1>5, SameIsSound DEF SoundAs
<1>7. result' = ~Knows(tracker, tsn)
  BY <1>3, <1>4, Zenon DEF IsNew
<1> HIDE DEF v, w
<1> QED
  BY <1>1, <1>3, <1>5, <1>6, <1>7 DEF w

LEMMA HandleDataKeeps ==
  ASSUME IInv, NEW tsn \in InFlight, NEW immediate_ack \in BOOLEAN,
         HandleData(tsn, immediate_ack)
  PROVE  IInv' /\ TsnStep
<1>1. /\ tsn \in Int /\ tsn >= First /\ tsn <= Last /\ Sound(tracker)
      /\ Acks(tracker', tracker) /\ Sound(tracker')
  BY HandleDataTsns
<1>2. \A x \in Int : Knows(tracker', x) <=> Knows(tracker, x) \/ x = tsn
  BY HandleDataTsns
<1>3. result' = ~Knows(tracker, tsn)
  BY HandleDataTsns
<1>4. IInv'
  <2>1. result' \in BOOLEAN
    BY <1>3, Zenon
  <2> QED
    BY <1>1, <2>1, ChunkKeeps DEF HandleData
<1>5. TsnSet!Observe(tsn)
  <2>1. tsn \in First..Last
    BY <1>1, ConstantTypes
  <2>2. /\ First..Last \subseteq Int
        /\ Received(tracker) = {x \in First..Last : Knows(tracker, x)}
        /\ Received(tracker)' = {x \in First..Last : Knows(tracker', x)}
    BY <1>1, ReceivedFrom
  <2>3. \A x \in First..Last : Knows(tracker', x) <=> Knows(tracker, x) \/ x = tsn
    BY <1>2, <2>2
  <2>4. Received(tracker)' = Received(tracker) \cup {tsn}
    BY <2>1, <2>2, <2>3
  <2>5. result' = (tsn \notin Received(tracker))
    BY <1>3, <2>1, <2>2
  <2> QED
    BY <2>4, <2>5 DEF TsnSet!Observe
<1>6. tsn \in First..Last
  BY <1>1, ConstantTypes
<1> QED
  BY <1>4, <1>5, <1>6 DEF TsnStep, TsnSet!Next

\* What the tracker knows after a FORWARD-TSN.
LEMMA HandleForwardTsns ==
  ASSUME IInv, NEW tsn \in InFlight, HandleForwardTsnChunk(tsn)
  PROVE  /\ tsn \in Int /\ tsn >= First /\ tsn <= Last
         /\ tsn - tracker.last_cumulative_acked_tsn <= PeerWindow
         /\ Acks(tracker', tracker) /\ Sound(tracker) /\ Sound(tracker')
         /\ \A x \in Int : Knows(tracker', x) <=> Knows(tracker, x) \/ x <= tsn
         /\ result' = (tsn > tracker.last_cumulative_acked_tsn)
<1> DEFINE w == Wrap(tsn)
           v == Forwarded(tracker, tsn)
           cum == tracker.last_cumulative_acked_tsn
<1>1. /\ tsn \in Int /\ PeekUnwrap(tracker, w) = tsn /\ tsn >= First /\ tsn <= Last
      /\ tsn - cum <= PeerWindow /\ cum - tsn <= NetworkDelay /\ Sound(tracker)
  BY InFlightUnwrapped DEF IInv
<1>2. /\ SoundAs(v, tracker)
      /\ \A x \in Int : Knows(v, x) <=> Knows(tracker, x) \/ x <= tsn
  BY <1>1, ForwardedRight
<1>3. tracker' = HandleForwardTsn(tracker, w) /\ result' = (tsn > cum)
  BY <1>1 DEF HandleForwardTsnChunk
<1>4. SameTsns(tracker', v) /\ Acks(tracker', tracker)
  BY <1>1, <1>2, <1>3, HandleForwardTsnIs
<1>5. Sound(tracker') /\ \A x \in Int : Knows(tracker', x) <=> Knows(v, x)
  BY <1>2, <1>4, SameIsSound DEF SoundAs
<1> HIDE DEF v, w
<1> QED
  BY <1>1, <1>2, <1>3, <1>4, <1>5

LEMMA HandleForwardTsnKeeps ==
  ASSUME IInv, NEW tsn \in InFlight, HandleForwardTsnChunk(tsn)
  PROVE  IInv' /\ TsnStep
<1> DEFINE cum == tracker.last_cumulative_acked_tsn
<1>1. /\ tsn \in Int /\ tsn >= First /\ tsn <= Last /\ Sound(tracker)
      /\ Acks(tracker', tracker) /\ Sound(tracker')
  BY HandleForwardTsns
<1>2. cum \in Int /\ cum >= First - 1 /\ First \in Int /\ Last \in Int
  BY <1>1, ConstantTypes DEF Sound, Trackers
<1>3. \A x \in Int : Knows(tracker', x) <=> Knows(tracker, x) \/ x <= tsn
  BY HandleForwardTsns
<1>4. result' = (tsn > cum)
  BY HandleForwardTsns
<1>5. IInv'
  BY <1>1, <1>4, ChunkKeeps DEF HandleForwardTsnChunk
<1>6. TsnSet!HandleForwardTsn(tsn)
  <2>1. tsn \in First..Last /\ First..tsn \subseteq First..Last
    BY <1>1, <1>2
  <2>2. /\ First..Last \subseteq Int
        /\ Received(tracker) = {x \in First..Last : Knows(tracker, x)}
        /\ Received(tracker)' = {x \in First..Last : Knows(tracker', x)}
    BY <1>1, ReceivedFrom
  <2>3. \A x \in First..Last : Knows(tracker', x) <=> Knows(tracker, x) \/ x \in First..tsn
    BY <1>1, <1>2, <1>3, <2>2
  <2>4. Received(tracker)' = Received(tracker) \cup (First..tsn)
    BY <2>1, <2>2, <2>3
  <2>5. CASE tsn <= cum
    <3>1. \A x \in First..tsn : Knows(tracker, x)
      BY <1>1, <1>2, <2>5 DEF Knows
    <3>2. First..tsn \subseteq Received(tracker)
      BY <2>1, <2>2, <3>1
    <3> QED
      BY <1>1, <1>2, <1>4, <2>4, <2>5, <3>2 DEF TsnSet!HandleForwardTsn
  <2>6. CASE tsn > cum
    <3>1. cum + 1 \in First..tsn
      BY <1>1, <1>2, <2>6
    <3>2. ~Knows(tracker, cum + 1)
      <4> DEFINE blocks == tracker.additional_tsn_blocks
      <4>1. blocks \in Seq(Blocks) /\ InOrder(blocks, cum)
        BY <1>1 DEF Sound, Trackers, Blocks
      <4>2. ASSUME NEW i \in 1..Len(blocks) PROVE ~(blocks[i].first <= cum + 1)
        BY <1>2, <4>1, BlockType DEF InOrder
      <4> QED
        BY <1>2, <4>2 DEF Knows, Has
    <3>3. ~(First..tsn \subseteq Received(tracker))
      BY <2>2, <3>1, <3>2
    <3> QED
      BY <1>4, <2>4, <2>6, <3>3 DEF TsnSet!HandleForwardTsn
  <2> QED
    BY <1>1, <1>2, <2>5, <2>6
<1>7. tsn \in First..Last
  BY <1>1, <1>2
<1> QED
  BY <1>5, <1>6, <1>7 DEF TsnStep, TsnSet!Next

LEMMA RejectDataKeeps ==
  ASSUME IInv, NEW tsn \in InFlight, RejectData(tsn)
  PROVE  IInv' /\ TsnStep
<1>1. /\ SameTsns(tracker', tracker) /\ tracker'.ack_state = "Immediate"
      /\ UNCHANGED <<result, owed>>
  BY Zenon DEF RejectData, ForceImmediateSack, SameTsns, IInv, TypeOK, Trackers
<1>2. bundle' \in 0..MaxBundle /\ bundle' # 0
  <2>1. bundle \in 0..MaxBundle /\ MaxBundle \in Nat
    BY ConstantTypes DEF IInv, TypeOK
  <2> QED
    BY <2>1 DEF RejectData, NextChunk
<1>3. Sound(tracker) /\ Sound(tracker')
  BY <1>1, SameIsSound DEF IInv
<1>4. TypeOK'
  BY <1>1, <1>2 DEF TypeOK, IInv, SameTsns, Trackers
<1>5. AckInv'
  BY <1>1, <1>2 DEF AckInv, IInv
<1> QED
  BY <1>1, <1>3, <1>4, <1>5, SameReceived DEF IInv

LEMMA DropDataKeeps ==
  ASSUME IInv, DropData
  PROVE  IInv' /\ TsnStep
<1>1. UNCHANGED <<tracker, result, owed>>
  BY DEF DropData
<1>2. bundle' \in 0..MaxBundle /\ bundle' # 0
  <2>1. bundle \in 0..MaxBundle /\ MaxBundle \in Nat
    BY ConstantTypes DEF IInv, TypeOK
  <2> QED
    BY <2>1 DEF DropData, NextChunk
<1>3. Sound(tracker) /\ SameTsns(tracker', tracker) /\ Sound(tracker')
  BY <1>1 DEF IInv, SameTsns, Sound
<1>4. TypeOK'
  BY <1>1, <1>2 DEF TypeOK, IInv
<1>5. AckInv'
  BY <1>1, <1>2 DEF AckInv, IInv
<1> QED
  BY <1>1, <1>3, <1>4, <1>5, SameReceived DEF IInv

\* PacketEnd sends its SACK for a tracker with the same TSNs.
LEMMA PacketEndSacks ==
  ASSUME IInv, PacketEnd
  PROVE  /\ IInv' /\ SameTsns(tracker', tracker)
         /\ SameTsns(ObservePacketEnd(tracker), tracker)
         /\ MaybeSendSack(ObservePacketEnd(tracker), {"Immediate"})
<1> DEFINE t == ObservePacketEnd(tracker)
<1>1. tracker \in Trackers /\ Sound(tracker) /\ 0 \in 0..MaxBundle
  BY ConstantTypes DEF IInv, Sound
<1>2. /\ SameTsns(t, tracker)
      /\ \/ tracker.ack_state = "BecomingDelayed" /\ t.ack_state = "Delayed" /\ t.delayed_ack_timer
         \/ tracker.ack_state # "BecomingDelayed" /\ t = tracker
  <2>1. CASE tracker.ack_state = "BecomingDelayed"
    <3>1. t = UpdateAckState(tracker, "Delayed") /\ "Delayed" \in AckStates
      BY <2>1 DEF ObservePacketEnd, AckStates
    <3> HIDE DEF t
    <3>2. SameTsns(t, tracker) /\ t.ack_state = "Delayed"
      BY <1>1, <3>1, UpdateAckStateIs, Zenon
    <3>3. t.delayed_ack_timer = (tracker.delayed_ack_timer \/ "Delayed" = "Delayed")
      BY <1>1, <2>1, <3>1, UpdateAckStateIs, Zenon
    <3> QED
      BY <2>1, <3>2, <3>3, Zenon
  <2>2. CASE tracker.ack_state # "BecomingDelayed"
    BY <1>1, <2>2 DEF ObservePacketEnd, SameTsns
  <2> QED
    BY <2>1, <2>2
<1>3. MaybeSendSack(t, {"Immediate"}) /\ bundle' = 0 /\ UNCHANGED result
  BY DEF PacketEnd
<1> HIDE DEF t
<1>4. owed.packets \in Nat /\ owed.current \in BOOLEAN /\ tracker.ack_state \in AckStates
  BY <1>1 DEF IInv, TypeOK, Trackers, AckStates
<1>5. ASSUME t.ack_state \notin {"Immediate"}
      PROVE  /\ t.ack_state = "Delayed" => t.delayed_ack_timer
             /\ t.ack_state \in {"Idle", "Delayed"}
             /\ owed.packets + (IF owed.current THEN 1 ELSE 0) <= 1
             /\ owed.packets + (IF owed.current THEN 1 ELSE 0) = 1 => t.ack_state = "Delayed"
  <2>1. CASE tracker.ack_state = "BecomingDelayed"
    <3>1. owed.packets # 1 /\ owed.packets <= 1
      BY <2>1 DEF IInv, AckInv
    <3> QED
      BY <1>2, <1>4, <2>1, <3>1
  <2>2. CASE tracker.ack_state # "BecomingDelayed"
    BY <1>2, <1>4, <1>5, <2>2 DEF IInv, AckInv, AckStates
  <2> QED
    BY <2>1, <2>2
<1>6. IInv' /\ SameTsns(tracker', tracker)
  BY <1>1, <1>2, <1>3, <1>5, SackKeeps
<1> QED
  BY <1>2, <1>3, <1>6 DEF t

LEMMA PacketEndKeeps ==
  ASSUME IInv, PacketEnd
  PROVE  IInv' /\ TsnStep
<1>1. IInv' /\ SameTsns(tracker', tracker) /\ UNCHANGED result
  BY PacketEndSacks DEF PacketEnd
<1> QED
  BY <1>1, SameReceived DEF IInv

LEMMA BufferedSacks ==
  ASSUME IInv, SendBufferedPackets
  PROVE  IInv' /\ SameTsns(tracker', tracker) /\ SameTsns(tracker, tracker)
<1> DEFINE states == {"Immediate", "BecomingDelayed", "Delayed"}
<1>1. SameTsns(tracker, tracker) /\ Sound(tracker) /\ bundle \in 0..MaxBundle
  BY DEF IInv, Sound, SameTsns, TypeOK
<1>2. /\ MaybeSendSack(tracker, states) /\ tracker.ack_state \in states
      /\ bundle' = bundle /\ UNCHANGED result
  BY DEF SendBufferedPackets, SendsAck
<1> HIDE DEF states
<1>3. IInv' /\ SameTsns(tracker', tracker)
  BY <1>1, <1>2, SackKeeps
<1> QED
  BY <1>1, <1>3

LEMMA SendBufferedPacketsKeeps ==
  ASSUME IInv, SendBufferedPackets
  PROVE  IInv' /\ TsnStep
<1>1. IInv' /\ SameTsns(tracker', tracker) /\ UNCHANGED result
  BY BufferedSacks DEF SendBufferedPackets
<1> QED
  BY <1>1, SameReceived DEF IInv

LEMMA TimerSacks ==
  ASSUME IInv, OnDelayedAckTimerExpiry
  PROVE  LET t == HandleDelayedAckTimerExpiry([tracker EXCEPT !.delayed_ack_timer = FALSE])
         IN  /\ IInv' /\ SameTsns(tracker', tracker) /\ SameTsns(t, tracker)
             /\ MaybeSendSack(t, {"Immediate"})
<1> DEFINE s == [tracker EXCEPT !.delayed_ack_timer = FALSE]
           t == HandleDelayedAckTimerExpiry(s)
<1>1. tracker \in Trackers /\ Sound(tracker) /\ bundle \in 0..MaxBundle
  BY DEF IInv, Sound, TypeOK
<1>2. s \in Trackers /\ SameTsns(s, tracker)
  BY <1>1, Zenon DEF Trackers, SameTsns
<1> HIDE DEF s
<1>3. SameTsns(t, s) /\ t.ack_state = "Immediate"
  BY <1>2, UpdateAckStateIs, Zenon DEF HandleDelayedAckTimerExpiry, AckStates
<1>4. /\ MaybeSendSack(t, {"Immediate"}) /\ bundle' = bundle /\ UNCHANGED result
  BY DEF OnDelayedAckTimerExpiry, s
<1> HIDE DEF t
<1>5. SameTsns(t, tracker) /\ t.ack_state \in {"Immediate"}
  BY <1>2, <1>3 DEF SameTsns
<1>6. IInv' /\ SameTsns(tracker', tracker)
  BY <1>1, <1>4, <1>5, SackKeeps
<1> QED
  BY <1>4, <1>5, <1>6 DEF t, s

LEMMA TimerExpiryKeeps ==
  ASSUME IInv, OnDelayedAckTimerExpiry
  PROVE  IInv' /\ TsnStep
<1>1. IInv' /\ SameTsns(tracker', tracker) /\ UNCHANGED result
  BY TimerSacks DEF OnDelayedAckTimerExpiry
<1> QED
  BY <1>1, SameReceived DEF IInv

LEMMA NextKeeps == IInv /\ [Next]_vars => IInv' /\ TsnStep
<1> SUFFICES ASSUME IInv, [Next]_vars PROVE IInv' /\ TsnStep
  OBVIOUS
<1>1. CASE UNCHANGED vars
  BY <1>1 DEF vars, IInv, TypeOK, Sound, AckInv, TsnStep, Received
<1>2. CASE Next
  BY <1>2, DropDataKeeps, RejectDataKeeps, HandleDataKeeps, HandleForwardTsnKeeps,
     PacketEndKeeps, SendBufferedPacketsKeeps, TimerExpiryKeeps DEF Next
<1> QED
  BY <1>1, <1>2

LEMMA AlwaysIInv == Spec => []IInv
  BY InitIInv, NextKeeps, PTL DEF Spec

------------------------------------------------------------------------------
(* SACKs tell the truth.                                                   *)

\* Chunks that may have moved the cumulative TSN since the last SACK was sent.
Unsacked == owed.packets * MaxBundle + (IF owed.current THEN bundle ELSE 0)

\* What t knows has been sent, and is at most the peer's window ahead.
Ahead(t) ==
  \A x \in Int : Knows(t, x) =>
    x <= t.last_cumulative_acked_tsn + PeerWindow /\ x <= Last

\* t knows a TSN that x cannot be told from by 16-bit offsets from c.
Confused(t, x, c) ==
  \E y \in Int : /\ Knows(t, y) /\ y >= x
                /\ y - c >= GapLimit /\ (y - x) % GapLimit = 0

\* The last SACK, made when the cumulative TSN was c, names nothing that the
\* tracker does not know, but for TSNs that stand for others; since then the
\* cumulative TSN has moved on by at most a window for each chunk.
SackedAt(c) ==
  /\ sack.cum_tsn_ack = Wrap(c)
  /\ c <= tracker.last_cumulative_acked_tsn
  /\ tracker.last_cumulative_acked_tsn - c <= PeerWindow * Unsacked
  /\ \A i \in DOMAIN sack.gap_ack_blocks, x \in Int :
       x - c \in sack.gap_ack_blocks[i].first..sack.gap_ack_blocks[i].last
         => Knows(tracker, x) \/ Confused(tracker, x, c)

SackInv == Ahead(tracker) /\ \E c \in Int : SackedAt(c)

\* What follows the cumulative TSN is missing.
LEMMA NextIsMissing ==
  ASSUME NEW t, Sound(t)
  PROVE  /\ t.last_cumulative_acked_tsn \in Int
         /\ Knows(t, t.last_cumulative_acked_tsn)
         /\ \A x \in Int : x <= t.last_cumulative_acked_tsn => Knows(t, x)
         /\ ~Knows(t, t.last_cumulative_acked_tsn + 1)
<1> DEFINE blocks == t.additional_tsn_blocks
           cum == t.last_cumulative_acked_tsn
<1>1. blocks \in Seq(Blocks) /\ InOrder(blocks, cum) /\ cum \in Int
  BY DEF Sound, Trackers, Blocks
<1>2. ASSUME NEW i \in 1..Len(blocks) PROVE ~(blocks[i].first <= cum + 1)
  BY <1>1, BlockType DEF InOrder
<1> QED
  BY <1>1, <1>2 DEF Knows, Has

LEMMA Multiples ==
  ASSUME NEW w \in Nat, NEW a \in Nat, NEW b \in Nat, NEW d \in Nat, b >= a + d
  PROVE  w * b >= w * a + w * d
<1>1. PICK e \in Nat : b = a + d + e
  <2>1. b - (a + d) \in Nat /\ b = a + d + (b - (a + d))
    OBVIOUS
  <2> QED
    BY <2>1
<1>2. w * b = w * a + w * d + w * e
  BY <1>1
<1>3. w * e \in Nat /\ w * a \in Nat /\ w * d \in Nat
  OBVIOUS
<1> QED
  BY <1>2, <1>3

LEMMA UnsackedType ==
  ASSUME IInv
  PROVE  /\ Unsacked \in Nat /\ MaxBundle \in Nat /\ bundle \in 0..MaxBundle
         /\ owed.packets \in {0, 1}
         /\ Unsacked = (IF owed.packets = 1 THEN MaxBundle ELSE 0)
                         + (IF owed.current THEN bundle ELSE 0)
<1>1. owed.packets \in Nat /\ owed.packets <= 1 /\ bundle \in 0..MaxBundle
  BY DEF IInv, TypeOK, AckInv
<1>2. MaxBundle \in Nat
  BY ConstantTypes
<1>3. owed.packets = 0 \/ owed.packets = 1
  BY <1>1
<1>4. CASE owed.packets = 0
  BY <1>1, <1>2, <1>4 DEF Unsacked
<1>5. CASE owed.packets = 1
  BY <1>1, <1>2, <1>5 DEF Unsacked
<1> QED
  BY <1>1, <1>2, <1>3, <1>4, <1>5

\* A step that sends no SACK: d is 1 if it may move the cumulative TSN.
LEMMA NoSackKeeps ==
  ASSUME IInv, SackInv, IInv', UNCHANGED sack, NEW d \in Nat,
         \A x \in Int : Knows(tracker, x) => Knows(tracker', x),
         \A x \in Int : Knows(tracker', x) =>
           x <= tracker.last_cumulative_acked_tsn + PeerWindow /\ x <= Last,
         tracker'.last_cumulative_acked_tsn - tracker.last_cumulative_acked_tsn
           <= PeerWindow * d,
         Unsacked' >= Unsacked + d
  PROVE  SackInv'
<1> DEFINE cum == tracker.last_cumulative_acked_tsn
           new == tracker'.last_cumulative_acked_tsn
<1>1. cum \in Int /\ new \in Int /\ PeerWindow \in Nat
      /\ (\A x \in Int : x <= cum => Knows(tracker, x)) /\ ~Knows(tracker', new + 1)
  BY NextIsMissing, ConstantTypes DEF IInv
<1>2. new >= cum
  <2>1. new + 1 <= cum => Knows(tracker', new + 1)
    BY <1>1
  <2> QED
    BY <1>1, <2>1
<1>3. Ahead(tracker')
  <2> SUFFICES ASSUME NEW x \in Int, Knows(tracker', x) PROVE x <= new + PeerWindow /\ x <= Last
    BY DEF Ahead
  <2>1. x <= cum + PeerWindow /\ x <= Last
    OBVIOUS
  <2> QED
    BY <1>1, <1>2, <2>1
<1>4. PICK c \in Int : SackedAt(c)
  BY DEF SackInv
<1>5. Unsacked \in Nat /\ Unsacked' \in Nat
  <2>1. Unsacked \in Nat
    BY UnsackedType
  <2>2. bundle' \in Nat /\ owed'.packets \in Nat /\ MaxBundle \in Nat
    BY ConstantTypes DEF IInv, TypeOK
  <2>3. owed'.packets * MaxBundle \in Nat
    BY <2>2
  <2> QED
    BY <2>1, <2>2, <2>3 DEF Unsacked
<1>6. /\ c <= cum /\ cum - c <= PeerWindow * Unsacked
      /\ PeerWindow * Unsacked' >= PeerWindow * Unsacked + PeerWindow * d
  BY <1>1, <1>4, <1>5, Multiples, Zenon DEF SackedAt
<1>7. PeerWindow * Unsacked' \in Int /\ PeerWindow * Unsacked \in Int /\ PeerWindow * d \in Int
  BY <1>1, <1>5
<1>8. c <= new /\ new - c <= PeerWindow * Unsacked'
  <2> DEFINE a == PeerWindow * Unsacked'
             b == PeerWindow * Unsacked
             e == PeerWindow * d
  <2>1. /\ a \in Int /\ b \in Int /\ e \in Int /\ a >= b + e /\ cum - c <= b
        /\ new - cum <= e
    BY <1>6, <1>7
  <2> HIDE DEF a, b, e
  <2>2. c <= new /\ new - c <= a
    BY <1>1, <1>2, <1>6, <2>1, SMTT(20)
  <2> QED
    BY <2>2 DEF a
<1>9. SackedAt(c)'
  <2>1. \A x \in Int : Confused(tracker, x, c) => Confused(tracker', x, c)
    BY DEF Confused
  <2> QED
    BY <1>4, <1>8, <2>1 DEF SackedAt
<1> QED
  BY <1>3, <1>9 DEF SackInv

\* Cutting the offsets of a block's ends to 16 bits moves both by the same
\* multiple, or the first one by less.
LEMMA CutOffsets ==
  ASSUME NEW m \in Nat \ {0}, NEW f \in Nat, NEW l \in Nat, f <= l
  PROVE  /\ f % m \in Nat /\ l % m \in Nat
         /\ f - (f % m) \in Nat
         /\ (f - (f % m)) % m = 0
         /\ f - (f % m) = 0 \/ f - (f % m) >= m
         /\ f - (f % m) + (l % m) <= l
<1> DEFINE a == f \div m
           b == l \div m
           p == f % m
           q == l % m
<1>1. /\ p \in 0..(m - 1) /\ a \in Int /\ f = m * a + p
      /\ q \in 0..(m - 1) /\ b \in Int /\ l = m * b + q
  BY Division
<1> HIDE DEF a, b, p, q
<1>2. a \in Nat
  <2>1. CASE a <= -1
    <3>1. m * (-1 - a) \in Nat /\ m * a = -m - m * (-1 - a)
      BY <1>1, <2>1
    <3> QED
      BY <1>1, <3>1
  <2> QED
    BY <1>1, <2>1
<1>3. a <= b
  <2>1. CASE a >= b + 1
    <3>1. m * (a - b - 1) \in Nat /\ m * a = m * b + m + m * (a - b - 1)
      BY <1>1, <2>1
    <3> QED
      BY <1>1, <3>1
  <2> QED
    BY <1>1, <2>1
<1>4. f - p = m * a /\ m * a \in Nat
  BY <1>1, <1>2
<1>5. m * a = 0 \/ m * a >= m
  <2>1. CASE a >= 1
    <3>1. m * (a - 1) \in Nat /\ m * a = m + m * (a - 1)
      BY <1>1, <2>1
    <3> QED
      BY <3>1
  <2> QED
    BY <1>2, <2>1
<1>6. m * a + q <= l
  <2>1. m * (b - a) \in Nat /\ m * b = m * a + m * (b - a)
    BY <1>1, <1>3
  <2> QED
    BY <1>1, <1>4, <2>1
<1>7. (m * a) % m = 0
  <2> DEFINE e == m * a
             r == e % m
             d == e \div m
  <2>1. r \in 0..(m - 1) /\ d \in Int /\ m * a = m * d + r
    <3>1. e \in Int
      BY <1>4
    <3>2. r \in 0..(m - 1) /\ d \in Int /\ e = m * d + r
      <4> HIDE DEF e
      <4> QED
        BY <3>1, Division, Zenon
    <3> QED
      BY <3>2
  <2> HIDE DEF r, d
  <2>2. CASE a >= d + 1
    <3>1. m * (a - d - 1) \in Nat /\ m * a = m * d + m + m * (a - d - 1)
      BY <1>2, <2>1, <2>2
    <3> QED
      BY <2>1, <3>1
  <2>3. CASE a <= d - 1
    <3>1. m * (d - a - 1) \in Nat /\ m * d = m * a + m + m * (d - a - 1)
      BY <1>2, <2>1, <2>3
    <3> QED
      BY <2>1, <3>1
  <2>4. a = d
    BY <1>2, <2>1, <2>2, <2>3
  <2>5. r = 0
    BY <1>4, <2>1, <2>4
  <2> QED
    BY <2>5 DEF r
<1>8. p \in Nat /\ q \in Nat /\ f - p \in Nat /\ (f - p) % m = 0
      /\ (f - p = 0 \/ f - p >= m) /\ f - p + q <= l
  BY <1>1, <1>4, <1>5, <1>6, <1>7
<1> QED
  BY <1>8, Zenon DEF p, q

\* MaybeSendSack(t, states).
LEMMA SackMade ==
  ASSUME IInv, SackInv, NEW t, NEW states,
         SameTsns(t, tracker), MaybeSendSack(t, states), IInv',
         SameTsns(tracker', tracker)
  PROVE  SackInv'
<1> DEFINE cum == tracker.last_cumulative_acked_tsn
           blocks == tracker.additional_tsn_blocks
<1>1. /\ Sound(tracker) /\ cum \in Int /\ blocks \in Seq(Blocks) /\ InOrder(blocks, cum)
      /\ PeerWindow \in Nat
  BY ConstantTypes DEF IInv, Sound, Trackers, Blocks
<1>2. \A x \in Int : Knows(tracker', x) <=> Knows(tracker, x)
  BY <1>1, SameIsSound
<1>3. tracker'.last_cumulative_acked_tsn = cum
  BY DEF SameTsns
<1>4. CASE ~SendsAck(t, states)
  <2>1. /\ owed' = [packets |-> owed.packets + (IF owed.current THEN 1 ELSE 0),
                    current |-> FALSE]
        /\ UNCHANGED sack
    BY <1>4 DEF MaybeSendSack
  <2>2. Unsacked' >= Unsacked + 0
    <3>1. /\ Unsacked = (IF owed.packets = 1 THEN MaxBundle ELSE 0)
                          + (IF owed.current THEN bundle ELSE 0)
          /\ owed.packets \in {0, 1} /\ bundle \in 0..MaxBundle /\ MaxBundle \in Nat
      BY UnsackedType
    <3>2. owed'.packets <= 1
      BY DEF IInv, AckInv
    <3>3. Unsacked' = owed'.packets * MaxBundle
      <4>1. owed'.packets * MaxBundle \in Int
        BY <2>1, <3>1
      <4> QED
        BY <2>1, <4>1 DEF Unsacked
    <3>4. CASE owed.current
      <4>1. owed'.packets = 1 /\ owed.packets = 0
        BY <2>1, <3>1, <3>2, <3>4
      <4> QED
        BY <3>1, <3>3, <3>4, <4>1
    <3>5. CASE ~owed.current
      <4>1. owed'.packets = owed.packets
        BY <2>1, <3>1, <3>5
      <4>2. CASE owed.packets = 0
        BY <3>1, <3>3, <3>5, <4>1, <4>2
      <4>3. CASE owed.packets = 1
        BY <3>1, <3>3, <3>5, <4>1, <4>3
      <4> QED
        BY <3>1, <4>2, <4>3
    <3> QED
      BY <3>4, <3>5
  <2>3. \A x \in Int : Knows(tracker', x) => x <= cum + PeerWindow /\ x <= Last
    BY <1>2 DEF SackInv, Ahead
  <2>4. tracker'.last_cumulative_acked_tsn - cum <= PeerWindow * 0
    BY <1>1, <1>3
  <2> QED
    BY <1>2, <2>1, <2>2, <2>3, <2>4, NoSackKeeps
<1>5. CASE SendsAck(t, states)
  <2>1. /\ sack' = CreateSelectiveAck(t)
        /\ owed' = [packets |-> 0, current |-> FALSE]
    BY <1>5 DEF MaybeSendSack
  <2>2. t.last_cumulative_acked_tsn = cum /\ t.additional_tsn_blocks = blocks
    BY DEF SameTsns
  <2>3. sack'.cum_tsn_ack = Wrap(cum) /\ sack'.gap_ack_blocks = CreateGapAckBlocks(t)
    BY <2>1, <2>2 DEF CreateSelectiveAck
  <2>4. Unsacked' = 0
    BY <2>1, ConstantTypes DEF Unsacked
  <2>5. Ahead(tracker')
    BY <1>2, <1>3 DEF SackInv, Ahead
  <2>6. ASSUME NEW i \in DOMAIN CreateGapAckBlocks(t), NEW x \in Int,
               x - cum \in CreateGapAckBlocks(t)[i].first..CreateGapAckBlocks(t)[i].last
        PROVE  Knows(tracker, x) \/ Confused(tracker, x, cum)
    <3> DEFINE n == IF Len(blocks) < kMaxGapAckBlocksReported THEN Len(blocks)
                    ELSE kMaxGapAckBlocksReported
               b == blocks[i]
    <3>1. /\ i \in 1..n
          /\ CreateGapAckBlocks(t)[i] = Block((b.first - cum) % GapLimit,
                                              (b.last - cum) % GapLimit)
      BY <2>2 DEF CreateGapAckBlocks
    <3>2. Len(blocks) \in Nat /\ kMaxGapAckBlocksReported \in Nat /\ GapLimit \in Nat \ {0}
      BY <1>1, LenIs, TrackerAssumption
    <3>3. i \in 1..Len(blocks)
      BY <3>1, <3>2
    <3>4. b.first \in Int /\ b.last \in Int
      BY <1>1, <3>3, BlockType, Zenon
    <3>5. b.first > cum + 1 /\ b.first <= b.last
      BY <1>1, <3>3 DEF InOrder
    <3> DEFINE f == b.first - cum
               l == b.last - cum
               k == f - (f % GapLimit)
    <3>6. /\ cum \in Int /\ k \in Nat /\ k % GapLimit = 0 /\ (k = 0 \/ k >= GapLimit)
          /\ f % GapLimit \in Nat /\ l % GapLimit \in Nat
          /\ k + (l % GapLimit) <= l /\ f \in Nat /\ l \in Nat
      <4>1. cum \in Int
        BY <1>1
      <4> HIDE DEF b, cum, blocks
      <4>2. f \in Nat /\ l \in Nat /\ f <= l
        BY <3>4, <3>5, <4>1, SMTT(20)
      <4> HIDE DEF f, l
      <4> QED
        BY <3>2, <4>1, <4>2, CutOffsets, Zenon
    <3>7. x - cum \in (f % GapLimit)..(l % GapLimit)
      BY <2>6, <3>1, SMTT(20) DEF Block
    <3> DEFINE y == x + k
    <3>8. /\ y \in Int /\ b.first <= y /\ y <= b.last /\ y - x = k /\ y >= x
          /\ k = 0 => y = x
          /\ k # 0 => y - cum >= GapLimit
      <4> DEFINE p == f % GapLimit
                 q == l % GapLimit
      <4>1. /\ b.first = cum + f /\ b.last = cum + l /\ f = k + p /\ k + q <= l
            /\ p \in Nat /\ q \in Nat /\ x - cum \in p..q
            /\ cum \in Int /\ k \in Nat /\ f \in Nat /\ l \in Nat
            /\ k = 0 \/ k >= GapLimit
        <5>1. b.first = cum + f /\ b.last = cum + l
          <6>1. cum \in Int
            BY <3>6, Zenon
          <6> HIDE DEF b, cum, blocks
          <6> QED
            BY <3>4, <6>1
        <5>2. f = k + p
          <6>1. p \in Nat /\ f \in Nat /\ k = f - p
            BY <3>6, Zenon
          <6> HIDE DEF f, p, k
          <6> QED
            BY <6>1
        <5> QED
          BY <3>6, <3>7, <5>1, <5>2, Zenon
      <4> HIDE DEF b, cum, blocks, f, l, k, p, q
      <4> QED
        BY <3>2, <4>1, SMTT(20) DEF y
    <3>9. Knows(tracker, y)
      <4> HIDE DEF y
      <4> QED
        BY <3>3, <3>8, SMTT(20) DEF Knows, Has
    <3>10. CASE k = 0
      BY <3>8, <3>9, <3>10, Zenon
    <3>11. CASE k # 0
      <4>1. y - cum >= GapLimit /\ (y - x) % GapLimit = 0 /\ y >= x /\ y \in Int
        BY <3>6, <3>8, <3>11, Zenon
      <4> HIDE DEF y, k
      <4> QED
        BY <3>9, <4>1, Zenon DEF Confused
    <3> QED
      BY <3>10, <3>11
  <2>7. PICK c \in Int : c = cum
    BY <1>1
  <2>8. SackedAt(c)'
    <3>1. PeerWindow * Unsacked' = 0
      BY <1>1, <2>4
    <3>2. tracker'.last_cumulative_acked_tsn - c <= PeerWindow * Unsacked'
      BY <1>1, <1>3, <2>7, <3>1
    <3>3. c <= tracker'.last_cumulative_acked_tsn
      BY <1>1, <1>3, <2>7, SMTT(20)
    <3>4. \A i \in DOMAIN sack'.gap_ack_blocks, x \in Int :
            x - c \in sack'.gap_ack_blocks[i].first..sack'.gap_ack_blocks[i].last
              => Knows(tracker', x) \/ Confused(tracker', x, c)
      <4>1. \A x \in Int : Confused(tracker, x, c) => Confused(tracker', x, c)
        BY <1>2 DEF Confused
      <4> QED
        BY <1>2, <2>3, <2>6, <2>7, <4>1
    <3> QED
      BY <2>3, <2>7, <3>2, <3>3, <3>4 DEF SackedAt
  <2> QED
    BY <2>5, <2>8 DEF SackInv
<1> QED
  BY <1>4, <1>5, SMTT(20)

\* A chunk that may move the cumulative TSN, to new at most.
LEMMA ChunkSackInv ==
  ASSUME IInv, SackInv, IInv', UNCHANGED sack, NextChunk,
         owed' = [owed EXCEPT !.current = TRUE],
         \A x \in Int : Knows(tracker, x) => Knows(tracker', x),
         \A x \in Int : Knows(tracker', x) =>
           x <= tracker.last_cumulative_acked_tsn + PeerWindow /\ x <= Last
  PROVE  SackInv'
<1>1. /\ tracker.last_cumulative_acked_tsn \in Int
      /\ tracker'.last_cumulative_acked_tsn \in Int
      /\ Knows(tracker', tracker'.last_cumulative_acked_tsn) /\ PeerWindow \in Nat
  BY NextIsMissing, ConstantTypes DEF IInv
<1>2. tracker'.last_cumulative_acked_tsn - tracker.last_cumulative_acked_tsn
        <= PeerWindow * 1
  BY <1>1
<1>3. Unsacked' >= Unsacked + 1
  <2>1. /\ Unsacked = (IF owed.packets = 1 THEN MaxBundle ELSE 0)
                        + (IF owed.current THEN bundle ELSE 0)
        /\ owed.packets \in {0, 1} /\ bundle \in 0..MaxBundle /\ MaxBundle \in Nat
    BY UnsackedType
  <2>2. owed'.packets = owed.packets /\ owed'.current /\ bundle' = bundle + 1
    BY Zenon DEF IInv, TypeOK, NextChunk
  <2>3. Unsacked' = owed.packets * MaxBundle + (bundle + 1)
    BY <2>2 DEF Unsacked
  <2>4. CASE owed.packets = 0
    BY <2>1, <2>3, <2>4
  <2>5. CASE owed.packets = 1
    BY <2>1, <2>3, <2>5
  <2> QED
    BY <2>1, <2>4, <2>5
<1> QED
  BY <1>2, <1>3, NoSackKeeps

\* A chunk that is not taken.
LEMMA NoChunkSackInv ==
  ASSUME IInv, SackInv, IInv', NextChunk, UNCHANGED <<sack, owed>>,
         SameTsns(tracker', tracker)
  PROVE  SackInv'
<1>1. Sound(tracker) /\ \A x \in Int : Knows(tracker', x) <=> Knows(tracker, x)
  BY SameIsSound DEF IInv
<1>2. /\ tracker.last_cumulative_acked_tsn \in Int
      /\ tracker'.last_cumulative_acked_tsn = tracker.last_cumulative_acked_tsn
      /\ PeerWindow \in Nat
  BY <1>1, NextIsMissing, ConstantTypes DEF SameTsns
<1>3. tracker'.last_cumulative_acked_tsn - tracker.last_cumulative_acked_tsn
        <= PeerWindow * 0
  BY <1>2
<1>4. Unsacked' >= Unsacked + 0
  <2>1. /\ Unsacked = (IF owed.packets = 1 THEN MaxBundle ELSE 0)
                        + (IF owed.current THEN bundle ELSE 0)
        /\ owed.packets \in {0, 1} /\ bundle \in 0..MaxBundle /\ MaxBundle \in Nat
    BY UnsackedType
  <2>2. bundle' = bundle + 1 /\ owed' = owed
    BY DEF NextChunk
  <2>3. Unsacked' = owed.packets * MaxBundle + (IF owed.current THEN bundle + 1 ELSE 0)
    BY <2>2 DEF Unsacked
  <2>4. CASE owed.packets = 0
    BY <2>1, <2>3, <2>4
  <2>5. CASE owed.packets = 1
    BY <2>1, <2>3, <2>5
  <2> QED
    BY <2>1, <2>4, <2>5
<1>5. \A x \in Int : Knows(tracker', x) =>
        x <= tracker.last_cumulative_acked_tsn + PeerWindow /\ x <= Last
  BY <1>1 DEF SackInv, Ahead
<1> QED
  BY <1>1, <1>3, <1>4, <1>5, NoSackKeeps

LEMMA SackInvKept ==
  ASSUME IInv, SackInv, [Next]_vars
  PROVE  SackInv'
<1> DEFINE cum == tracker.last_cumulative_acked_tsn
<1>1. IInv' /\ Sound(tracker) /\ cum \in Int /\ PeerWindow \in Nat /\ Last \in Int
  BY NextKeeps, NextIsMissing, ConstantTypes DEF IInv
<1>2. \A x \in Int : Knows(tracker, x) => x <= cum + PeerWindow /\ x <= Last
  BY DEF SackInv, Ahead
<1>3. CASE UNCHANGED vars
  BY <1>3 DEF vars, SackInv, SackedAt, Ahead, Unsacked
<1>4. CASE DropData
  <2>1. SameTsns(tracker', tracker)
    BY <1>1, <1>4 DEF DropData, SameTsns, Sound
  <2> QED
    BY <1>1, <1>4, <2>1, NoChunkSackInv DEF DropData
<1>5. ASSUME NEW tsn \in InFlight, RejectData(tsn) PROVE SackInv'
  <2>1. SameTsns(tracker', tracker)
    BY <1>5, Zenon DEF RejectData, ForceImmediateSack, SameTsns, IInv, TypeOK, Trackers
  <2> QED
    BY <1>1, <1>5, <2>1, NoChunkSackInv DEF RejectData
<1>6. ASSUME NEW tsn \in InFlight, NEW immediate_ack \in BOOLEAN,
             HandleData(tsn, immediate_ack)
      PROVE  SackInv'
  <2>1. /\ tsn \in Int /\ tsn - cum <= PeerWindow /\ tsn <= Last
        /\ \A x \in Int : Knows(tracker', x) <=> Knows(tracker, x) \/ x = tsn
    BY <1>6, HandleDataTsns
  <2>2. \A x \in Int : Knows(tracker', x) => x <= cum + PeerWindow /\ x <= Last
    BY <1>1, <1>2, <2>1
  <2> QED
    BY <1>1, <1>6, <2>1, <2>2, ChunkSackInv DEF HandleData
<1>7. ASSUME NEW tsn \in InFlight, HandleForwardTsnChunk(tsn) PROVE SackInv'
  <2>1. /\ tsn \in Int /\ tsn - cum <= PeerWindow /\ tsn <= Last
        /\ \A x \in Int : Knows(tracker', x) <=> Knows(tracker, x) \/ x <= tsn
    BY <1>7, HandleForwardTsns
  <2>2. \A x \in Int : Knows(tracker', x) => x <= cum + PeerWindow /\ x <= Last
    BY <1>1, <1>2, <2>1
  <2> QED
    BY <1>1, <1>7, <2>1, <2>2, ChunkSackInv DEF HandleForwardTsnChunk
<1>8. CASE PacketEnd
  <2> DEFINE t == ObservePacketEnd(tracker)
  <2>1. SameTsns(t, tracker) /\ MaybeSendSack(t, {"Immediate"}) /\ SameTsns(tracker', tracker)
    BY <1>8, PacketEndSacks
  <2> HIDE DEF t
  <2> QED
    BY <1>1, <2>1, SackMade
<1>9. CASE SendBufferedPackets
  <2>1. SameTsns(tracker, tracker) /\ SameTsns(tracker', tracker)
    BY <1>9, BufferedSacks
  <2> QED
    BY <1>1, <1>9, <2>1, SackMade DEF SendBufferedPackets
<1>10. CASE OnDelayedAckTimerExpiry
  <2> DEFINE t == HandleDelayedAckTimerExpiry([tracker EXCEPT !.delayed_ack_timer = FALSE])
  <2>1. SameTsns(t, tracker) /\ MaybeSendSack(t, {"Immediate"}) /\ SameTsns(tracker', tracker)
    BY <1>10, TimerSacks
  <2> HIDE DEF t
  <2> QED
    BY <1>1, <2>1, SackMade
<1> QED
  BY <1>3, <1>4, <1>5, <1>6, <1>7, <1>8, <1>9, <1>10 DEF Next

LEMMA InitSackInv == Init => SackInv
<1> SUFFICES ASSUME Init PROVE SackInv
  OBVIOUS
<1>1. /\ First \in Int /\ First - 1 \in Int /\ PeerWindow \in Nat /\ MaxBundle \in Nat
  BY ConstantTypes
<1>2. /\ tracker.last_cumulative_acked_tsn = First - 1
      /\ tracker.additional_tsn_blocks = <<>>
      /\ sack.cum_tsn_ack = Wrap(First - 1) /\ sack.gap_ack_blocks = <<>>
      /\ Unsacked = 0 * MaxBundle + 0
  BY DEF Init, NoSack, Unsacked
<1>3. PeerWindow * Unsacked = 0
  BY <1>1, <1>2
<1>4. SackedAt(First - 1)
  BY <1>1, <1>2, <1>3 DEF SackedAt
<1>5. Ahead(tracker)
  <2>1. First - 1 <= Last
    BY <1>1, TrackerAssumption DEF Last
  <2> QED
    BY <1>1, <1>2, <2>1, ConstantTypes DEF Ahead, Knows, Has
<1> QED
  BY <1>1, <1>4, <1>5 DEF SackInv

\* The cumulative TSN of the last SACK is still unwrapped right.
LEMMA SackUnwrapped ==
  ASSUME IInv, NEW c \in Int, SackedAt(c),
         2 * (kMaxAcceptedOutstandingFragments + 2 * PeerWindow * MaxBundle) < TsnLimit
  PROVE  PeekUnwrap(tracker, sack.cum_tsn_ack) = c
<1> DEFINE cum == tracker.last_cumulative_acked_tsn
           l == tracker.last_unwrapped
           K == kMaxAcceptedOutstandingFragments
           lag == PeerWindow * Unsacked
           most == 2 * PeerWindow * MaxBundle
<1>1. /\ cum \in Int /\ l \in Int /\ K \in Nat /\ NetworkDelay \in Nat /\ TsnLimit \in Nat
      /\ PeerWindow \in Nat /\ MaxBundle \in Nat
      /\ l - cum <= K /\ cum - l <= K + NetworkDelay
      /\ 2 * (K + PeerWindow + NetworkDelay) < TsnLimit
  BY ConstantTypes DEF IInv, Sound, Trackers
<1>2. Unsacked \in Nat /\ Unsacked <= 2 * MaxBundle
  BY <1>1, UnsackedType
<1>3. lag \in Nat /\ most \in Nat /\ lag <= most
  <2>1. PeerWindow * (2 * MaxBundle) >= PeerWindow * Unsacked + PeerWindow * 0
    BY <1>1, <1>2, Multiples
  <2>2. PeerWindow * (2 * MaxBundle) = most /\ PeerWindow * 0 = 0
    BY <1>1
  <2>3. lag \in Nat /\ most \in Nat
    BY <1>1, <1>2
  <2> HIDE DEF most
  <2> QED
    BY <2>1, <2>2, <2>3
<1>4. c <= cum /\ cum - c <= lag /\ sack.cum_tsn_ack = Wrap(c)
  BY DEF SackedAt
<1>5. 2 * (K + most) < TsnLimit
  OBVIOUS
<1> HIDE DEF lag, most, K, cum, l
<1>6. 2 * (c - l) < TsnLimit /\ 2 * (l - c) < TsnLimit
  BY <1>1, <1>3, <1>4, <1>5
<1> QED
  BY <1>1, <1>4, <1>6, Unwrapped DEF l

------------------------------------------------------------------------------

\* However chunks are lost, repeated, reordered or skipped, the blocks stay a
\* sorted vector of non-adjacent, non-empty blocks above the cumulative TSN:
\* the binary searches in AdditionalTsnBlocks are always right.
THEOREM BlocksAlwaysInOrder == Spec => []BlocksInOrder
<1>1. IInv => BlocksInOrder
  BY DEF IInv, Sound, InOrder, BlocksInOrder
<1> QED
  BY <1>1, AlwaysIInv, PTL

\* As long as the windows of the two sides fit into half of the TSN range,
\* SeqNumUnwrapper gives every TSN in flight its number back, for ever: no
\* sequence of late, early or skipped chunks makes it drift.
THEOREM AlwaysUnwrapsRight == Spec => []UnwrapsRight
<1>1. IInv => UnwrapsRight
  BY InFlightUnwrapped DEF IInv, UnwrapsRight
<1> QED
  BY <1>1, AlwaysIInv, PTL

\* DataTracker's ack state machine never lets two packets go unacknowledged, and
\* never waits without its delayed-ack timer.
THEOREM AlwaysAckedInTime == Spec => []AckedInTime
<1>1. IInv => AckedInTime
  BY DEF IInv, AckInv, AckedInTime
<1> QED
  BY <1>1, AlwaysIInv, PTL

\* The cumulative TSN and the blocks implement the set of received TSNs: what
\* Observe() and HandleForwardTsn() return and remember is what the set says.
THEOREM TrackerImplementsSet == Spec => Implements
<1>1. Init => TsnSet!Init
  <2> SUFFICES ASSUME Init PROVE Received(tracker) = {} /\ result = FALSE
    BY DEF TsnSet!Init
  <2>1. IInv
    BY InitIInv
  <2>2. Received(tracker) = {x \in First..Last : Knows(tracker, x)}
    BY <2>1, ReceivedIs DEF IInv, Sound
  <2>3. ASSUME NEW x \in First..Last PROVE ~Knows(tracker, x)
    <3>1. First \in Int /\ Last \in Int
      BY ConstantTypes
    <3>2. /\ tracker.last_cumulative_acked_tsn = First - 1
          /\ tracker.additional_tsn_blocks = <<>>
      BY DEF Init
    <3> QED
      BY <3>1, <3>2 DEF Knows, Has
  <2> QED
    BY <2>2, <2>3, Zenon DEF Init
<1>2. TsnStep => [TsnSet!Next]_(TsnSet!vars)
  BY DEF TsnStep, TsnSet!vars
<1> QED
  BY <1>1, <1>2, NextKeeps, AlwaysIInv, PTL DEF Spec, Implements, TsnSet!Spec

\* Members keep their types whatever arrives: no count goes below zero, and the
\* duplicate TSNs of a SACK are always in wire form.
THEOREM TrackerTypeCorrect == Spec => []TypeOK
<1>1. IInv => TypeOK
  BY DEF IInv
<1> QED
  BY <1>1, AlwaysIInv, PTL

\* No SACK is false but for what 16-bit offsets cannot say, neither when it is
\* made nor as long as it is the last one: what CreateSelectiveAck()
\* acknowledges cumulatively has been received or skipped, for every window of
\* the peer and every number of bits of an offset, and what its gap ack blocks
\* name has been too or stands for a TSN whose offset does not fit.  Assumed is
\* that the cumulative TSN cannot run half of the TSN range ahead of the SACK
\* within the two packets that may go unacknowledged.
THEOREM SacksAreTrue ==
  ASSUME 2 * (kMaxAcceptedOutstandingFragments + 2 * PeerWindow * MaxBundle) < TsnLimit
  PROVE  Spec => []SackIsTrueInReach
<1>1. IInv /\ SackInv => SackIsTrueInReach
  <2> SUFFICES ASSUME IInv, SackInv PROVE SackIsTrueInReach
    OBVIOUS
  <2>1. PICK c \in Int : SackedAt(c)
    BY DEF SackInv
  <2>2. PeekUnwrap(tracker, sack.cum_tsn_ack) = c
    BY <2>1, SackUnwrapped
  <2>3. Sound(tracker) /\ tracker \in Trackers /\ First \in Int /\ Last \in Int
    BY ConstantTypes DEF IInv, Sound
  <2>4. tracker.last_cumulative_acked_tsn \in Int /\ c <= tracker.last_cumulative_acked_tsn
    BY <2>1, <2>3, NextIsMissing DEF SackedAt
  <2>5. Received(tracker) = {x \in First..Last : Knows(tracker, x)}
    BY <2>3, ReceivedIs
  <2>6. ASSUME NEW tsn \in First..Last, tsn <= c PROVE tsn \in Received(tracker)
    <3>1. tsn \in Int
      BY <2>3
    <3>2. Knows(tracker, tsn)
      BY <2>3, <2>4, <2>6, <3>1, NextIsMissing, SMTT(20)
    <3> QED
      BY <2>5, <3>2, Zenon
  <2>7. ASSUME NEW tsn \in First..Last, NEW i \in DOMAIN sack.gap_ack_blocks,
               tsn - c \in sack.gap_ack_blocks[i].first..sack.gap_ack_blocks[i].last
        PROVE  \/ tsn \in Received(tracker)
               \/ \E r \in Received(tracker) :
                    r - c >= GapLimit /\ (r - tsn) % GapLimit = 0
    <3>1. tsn \in Int
      BY <2>3
    <3>2. Knows(tracker, tsn) \/ Confused(tracker, tsn, c)
      BY <2>1, <2>7, <3>1, Zenon DEF SackedAt
    <3>3. CASE Knows(tracker, tsn)
      BY <2>5, <3>3, Zenon
    <3>4. CASE Confused(tracker, tsn, c)
      <4>1. PICK y \in Int : /\ Knows(tracker, y) /\ y >= tsn
                            /\ y - c >= GapLimit /\ (y - tsn) % GapLimit = 0
        BY <3>4, Zenon DEF Confused
      <4>2. y <= Last
        BY <4>1, Zenon DEF SackInv, Ahead
      <4>3. y \in First..Last
        BY <2>3, <3>1, <4>1, <4>2
      <4> QED
        BY <2>5, <4>1, <4>3, Zenon
    <3> QED
      BY <3>2, <3>3, <3>4
  <2> QED
    BY <2>2, <2>6, <2>7, Zenon DEF SackIsTrueInReach
<1>2. IInv /\ SackInv /\ [Next]_vars => SackInv'
  BY SackInvKept
<1> QED
  BY <1>1, <1>2, InitSackInv, AlwaysIInv, PTL DEF Spec
=============================================================================
