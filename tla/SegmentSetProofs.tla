--------------------------- MODULE SegmentSetProofs ---------------------------
(***************************************************************************)
(* Proofs about SegmentSet, for a video of any number of segments.          *)
(***************************************************************************)
EXTENDS SegmentSet, SequenceTheorems, WellFoundedInduction, TLAPS

SegRange == [lo : Seg, hi : Seg]

Covers(n) == \E i \in 1..Len(ranges) : ranges[i].lo <= n /\ n <= ranges[i].hi

IInv == TypeOK /\ Canonical /\ CoversAdded

\* What InsertAt returns, element by element.
IsInserted(t, S, q, i, e) ==
  /\ t \in Seq(S)
  /\ Len(t) = Len(q) + 1
  /\ \A k \in 1..(Len(q) + 1) : t[k] = IF k < i THEN q[k] ELSE IF k = i THEN e ELSE q[k - 1]

LEMMA InsertAtElements ==
  ASSUME NEW S, NEW q \in Seq(S), NEW i \in 1..(Len(q) + 1), NEW e \in S
  PROVE  IsInserted(InsertAt(q, i, e), S, q, i, e)
<1> DEFINE a == SubSeq(q, 1, i - 1)
           b == SubSeq(q, i, Len(q))
<1>0. Len(q) \in Nat /\ i \in Nat /\ i >= 1 /\ i <= Len(q) + 1 /\ \A k \in 1..Len(q) : q[k] \in S
  BY LenProperties
<1>1. a \in Seq(S) /\ Len(a) = i - 1 /\ \A k \in 1..(i - 1) : a[k] = q[k]
  <2>1. \A k \in 1..(i - 1) : q[k] \in S
    BY <1>0
  <2>2. /\ SubSeq(q, 1, i - 1) \in Seq(S)
        /\ Len(SubSeq(q, 1, i - 1)) = IF 1 <= i - 1 THEN (i - 1) - 1 + 1 ELSE 0
        /\ \A k \in 1..((i - 1) - 1 + 1) : SubSeq(q, 1, i - 1)[k] = q[1 + k - 1]
    BY <1>0, <2>1, SubSeqProperties
  <2> QED BY <1>0, <2>2
<1>2. /\ b \in Seq(S) /\ Len(b) = Len(q) - i + 1
      /\ \A k \in 1..(Len(q) - i + 1) : b[k] = q[i + k - 1]
  <2>1. \A k \in i..Len(q) : q[k] \in S
    BY <1>0
  <2>2. /\ SubSeq(q, i, Len(q)) \in Seq(S)
        /\ Len(SubSeq(q, i, Len(q))) = IF i <= Len(q) THEN Len(q) - i + 1 ELSE 0
        /\ \A k \in 1..(Len(q) - i + 1) : SubSeq(q, i, Len(q))[k] = q[i + k - 1]
    BY <1>0, <2>1, SubSeqProperties
  <2> QED BY <1>0, <2>2
<1> HIDE DEF a, b
<1>3. /\ a \o <<e>> \in Seq(S) /\ Len(a \o <<e>>) = i
      /\ \A k \in 1..i : (a \o <<e>>)[k] = IF k < i THEN q[k] ELSE e
  <2>1. <<e>> \in Seq(S) /\ Len(<<e>>) = 1 /\ <<e>>[1] = e
    OBVIOUS
  <2>2. /\ a \o <<e>> \in Seq(S)
        /\ Len(a \o <<e>>) = Len(a) + Len(<<e>>)
        /\ \A k \in 1..(Len(a) + Len(<<e>>)) :
             (a \o <<e>>)[k] = IF k <= Len(a) THEN a[k] ELSE <<e>>[k - Len(a)]
    BY <1>1, <2>1, ConcatProperties
  <2>3. \A k \in 1..i : ~(k <= i - 1) => k - (i - 1) = 1
    BY <1>0
  <2>4. \A k \in 1..i : k <= i - 1 <=> k < i
    BY <1>0
  <2> QED BY <1>0, <1>1, <2>1, <2>2, <2>3, <2>4
<1>4. /\ (a \o <<e>>) \o b \in Seq(S)
      /\ Len((a \o <<e>>) \o b) = i + (Len(q) - i + 1)
      /\ \A k \in 1..(i + (Len(q) - i + 1)) :
           ((a \o <<e>>) \o b)[k] = IF k <= i THEN (a \o <<e>>)[k] ELSE b[k - i]
  <2>1. /\ (a \o <<e>>) \o b \in Seq(S)
        /\ Len((a \o <<e>>) \o b) = Len(a \o <<e>>) + Len(b)
        /\ \A k \in 1..(Len(a \o <<e>>) + Len(b)) :
             ((a \o <<e>>) \o b)[k]
               = IF k <= Len(a \o <<e>>) THEN (a \o <<e>>)[k] ELSE b[k - Len(a \o <<e>>)]
    <3> DEFINE c == a \o <<e>>
    <3>1. c \in Seq(S) /\ b \in Seq(S)
      BY <1>2, <1>3
    <3> HIDE DEF c
    <3>2. /\ c \o b \in Seq(S)
          /\ Len(c \o b) = Len(c) + Len(b)
          /\ \A k \in 1..(Len(c) + Len(b)) :
               (c \o b)[k] = IF k <= Len(c) THEN c[k] ELSE b[k - Len(c)]
      BY <3>1, ConcatProperties
    <3> QED
      BY <3>2 DEF c
  <2> QED
    BY <1>2, <1>3, <2>1
<1>5. i + (Len(q) - i + 1) = Len(q) + 1
  BY <1>0
<1>6. ASSUME NEW k \in 1..(Len(q) + 1)
      PROVE  ((a \o <<e>>) \o b)[k] = IF k < i THEN q[k] ELSE IF k = i THEN e ELSE q[k - 1]
  <2>1. CASE k <= i
    BY <1>0, <1>3, <1>4, <1>5, <2>1
  <2>2. CASE ~(k <= i)
    <3>1. k - i \in 1..(Len(q) - i + 1) /\ i + (k - i) - 1 = k - 1
      BY <1>0, <2>2
    <3> QED BY <1>0, <1>2, <1>4, <1>5, <2>2, <3>1
  <2> QED BY <2>1, <2>2
<1>7. IsInserted((a \o <<e>>) \o b, S, q, i, e)
  BY <1>4, <1>5, <1>6 DEF IsInserted
<1>8. InsertAt(q, i, e) = (a \o <<e>>) \o b
  BY DEF InsertAt, a, b
<1> QED
  BY <1>7, <1>8

\* What RemoveAt returns, element by element.
LEMMA RemoveAtElements ==
  ASSUME NEW S, NEW q \in Seq(S), NEW i \in 1..Len(q)
  PROVE  /\ RemoveAt(q, i) \in Seq(S)
         /\ Len(RemoveAt(q, i)) = Len(q) - 1
         /\ \A k \in 1..(Len(q) - 1) : RemoveAt(q, i)[k] = IF k < i THEN q[k] ELSE q[k + 1]
<1> DEFINE a == SubSeq(q, 1, i - 1)
           b == SubSeq(q, i + 1, Len(q))
<1>0. Len(q) \in Nat /\ i \in Nat /\ i >= 1 /\ i <= Len(q) /\ \A k \in 1..Len(q) : q[k] \in S
  BY LenProperties
<1>1. a \in Seq(S) /\ Len(a) = i - 1 /\ \A k \in 1..(i - 1) : a[k] = q[k]
  <2>1. \A k \in 1..(i - 1) : q[k] \in S
    BY <1>0
  <2>2. /\ SubSeq(q, 1, i - 1) \in Seq(S)
        /\ Len(SubSeq(q, 1, i - 1)) = IF 1 <= i - 1 THEN (i - 1) - 1 + 1 ELSE 0
        /\ \A k \in 1..((i - 1) - 1 + 1) : SubSeq(q, 1, i - 1)[k] = q[1 + k - 1]
    BY <1>0, <2>1, SubSeqProperties
  <2> QED BY <1>0, <2>2
<1>2. /\ b \in Seq(S) /\ Len(b) = Len(q) - i
      /\ \A k \in 1..(Len(q) - i) : b[k] = q[i + k]
  <2>1. \A k \in (i + 1)..Len(q) : q[k] \in S
    BY <1>0
  <2>2. /\ SubSeq(q, i + 1, Len(q)) \in Seq(S)
        /\ Len(SubSeq(q, i + 1, Len(q))) = IF i + 1 <= Len(q) THEN Len(q) - (i + 1) + 1 ELSE 0
        /\ \A k \in 1..(Len(q) - (i + 1) + 1) : SubSeq(q, i + 1, Len(q))[k] = q[(i + 1) + k - 1]
    BY <1>0, <2>1, SubSeqProperties
  <2> QED BY <1>0, <2>2
<1> HIDE DEF a, b
<1>3. /\ a \o b \in Seq(S) /\ Len(a \o b) = Len(a) + Len(b)
      /\ \A k \in 1..(Len(a) + Len(b)) : (a \o b)[k] = IF k <= Len(a) THEN a[k] ELSE b[k - Len(a)]
  BY <1>1, <1>2, ConcatProperties
<1>4. Len(a) + Len(b) = Len(q) - 1
  BY <1>0, <1>1, <1>2
<1>5. ASSUME NEW k \in 1..(Len(q) - 1)
      PROVE  (a \o b)[k] = IF k < i THEN q[k] ELSE q[k + 1]
  <2>1. CASE k < i
    BY <1>0, <1>1, <1>3, <1>4, <2>1
  <2>2. CASE ~(k < i)
    <3>1. k - (i - 1) \in 1..(Len(q) - i) /\ i + (k - (i - 1)) = k + 1 /\ ~(k <= i - 1)
      BY <1>0, <2>2
    <3> QED BY <1>0, <1>1, <1>2, <1>3, <1>4, <2>2, <3>1
  <2> QED BY <2>1, <2>2
<1>6. RemoveAt(q, i) = a \o b
  BY DEF RemoveAt, a, b
<1> QED
  BY <1>3, <1>4, <1>5, <1>6

\* The binary search finds a position, whatever the list holds.
LEMMA PosIsSplit ==
  ASSUME TypeOK, NEW n \in Nat
  PROVE  /\ Pos(n) \in 0..Len(ranges)
         /\ \A i \in 1..Pos(n) : ranges[i].lo <= n
         /\ Pos(n) < Len(ranges) => ranges[Pos(n) + 1].lo > n
<1> DEFINE T == {p \in 0..Len(ranges) : p < Len(ranges) => ranges[p + 1].lo > n}
<1>1. Len(ranges) \in Nat /\ \A i \in 1..Len(ranges) : ranges[i].lo \in Int
  <2>1. ranges \in Seq([lo : Seg, hi : Seg])
    BY DEF TypeOK
  <2>2. Len(ranges) \in Nat /\ \A i \in 1..Len(ranges) : ranges[i] \in [lo : Seg, hi : Seg]
    BY <2>1, LenProperties
  <2>3. Seg \subseteq Int
    BY LastSegAssumption DEF Seg
  <2> QED
    BY <2>2, <2>3
<1>2. Len(ranges) \in T /\ T \subseteq Nat
  BY <1>1
<1>3. PICK p \in T : \A r \in T : ~(r < p)
  <2>1. IsWellFoundedOn(OpToRel(<, Nat), Nat)
    BY NatLessThanWellFounded
  <2>2. PICK x \in T : \A y \in T : ~(<<y, x>> \in OpToRel(<, Nat))
    BY <1>2, <2>1, WFMin
  <2>3. \A y \in T : <<y, x>> \in OpToRel(<, Nat) <=> y < x
    BY <1>2 DEF OpToRel
  <2> QED
    BY <2>2, <2>3
<1>4. \A i \in 1..p : ranges[i].lo <= n
  <2> SUFFICES ASSUME NEW i \in 1..p PROVE ranges[i].lo <= n
    OBVIOUS
  <2>1. i - 1 \in 0..Len(ranges) /\ i - 1 < p /\ i - 1 < Len(ranges) /\ (i - 1) + 1 = i
    BY <1>1, <1>2
  <2>2. i - 1 \notin T
    BY <1>3, <2>1
  <2>3. ~(ranges[i].lo > n)
    BY <2>1, <2>2
  <2>4. i \in 1..Len(ranges)
    BY <1>1, <1>2
  <2> QED
    BY <1>1, <2>3, <2>4
<1>5. /\ p \in 0..Len(ranges)
      /\ \A i \in 1..p : ranges[i].lo <= n
      /\ p < Len(ranges) => ranges[p + 1].lo > n
  BY <1>4
<1> QED
  BY <1>5 DEF Pos

\* Rewriting one bound of one range leaves every other bound alone.
HiIsSet(t, q, p, n) ==
  /\ t \in Seq(SegRange) /\ Len(t) = Len(q)
  /\ \A i \in 1..Len(q) : t[i].lo = q[i].lo /\ t[i].hi = IF i = p THEN n ELSE q[i].hi

LEMMA SetHi ==
  ASSUME NEW q \in Seq(SegRange), NEW p \in 1..Len(q), NEW n \in Seg,
         NEW r, r = [q EXCEPT ![p].hi = n]
  PROVE  HiIsSet(r, q, p, n)
<1>1. Len(q) \in Nat /\ q \in [1..Len(q) -> SegRange]
  BY LenProperties
<1>2. [q[p] EXCEPT !.hi = n] \in SegRange
  BY <1>1 DEF SegRange
<1>3. r \in [1..Len(q) -> SegRange]
  BY <1>1, <1>2
<1>4. r \in Seq(SegRange) /\ Len(r) = Len(q)
  BY <1>1, <1>3, IsASeq, LenProperties
<1>5. \A i \in 1..Len(q) : r[i].lo = q[i].lo /\ r[i].hi = IF i = p THEN n ELSE q[i].hi
  <2> SUFFICES ASSUME NEW i \in 1..Len(q)
               PROVE  r[i].lo = q[i].lo /\ r[i].hi = IF i = p THEN n ELSE q[i].hi
    OBVIOUS
  <2>1. q[i] \in SegRange
    BY <1>1
  <2>2. r[i] = IF i = p THEN [q[p] EXCEPT !.hi = n] ELSE q[i]
    BY <1>1
  <2> QED
    BY <2>1, <2>2 DEF SegRange
<1> QED
  BY <1>4, <1>5 DEF HiIsSet

LEMMA SetLo ==
  ASSUME NEW q \in Seq(SegRange), NEW p \in 1..Len(q), NEW n \in Seg,
         NEW r, r = [q EXCEPT ![p].lo = n]
  PROVE  /\ r \in Seq(SegRange) /\ Len(r) = Len(q)
         /\ \A i \in 1..Len(q) : r[i].hi = q[i].hi /\ r[i].lo = IF i = p THEN n ELSE q[i].lo
<1>1. Len(q) \in Nat /\ q \in [1..Len(q) -> SegRange]
  BY LenProperties
<1>2. [q[p] EXCEPT !.lo = n] \in SegRange
  BY <1>1 DEF SegRange
<1>3. r \in [1..Len(q) -> SegRange]
  BY <1>1, <1>2
<1>4. r \in Seq(SegRange) /\ Len(r) = Len(q)
  BY <1>1, <1>3, IsASeq, LenProperties
<1>5. \A i \in 1..Len(q) : r[i].hi = q[i].hi /\ r[i].lo = IF i = p THEN n ELSE q[i].lo
  <2> SUFFICES ASSUME NEW i \in 1..Len(q)
               PROVE  r[i].hi = q[i].hi /\ r[i].lo = IF i = p THEN n ELSE q[i].lo
    OBVIOUS
  <2>1. q[i] \in SegRange
    BY <1>1
  <2>2. r[i] = IF i = p THEN [q[p] EXCEPT !.lo = n] ELSE q[i]
    BY <1>1
  <2> QED
    BY <2>1, <2>2 DEF SegRange
<1> QED
  BY <1>4, <1>5

\* What the binary search knows of a canonical list: the ranges up to Pos(n)
\* begin at or before n, all but the last of them end before n - 1, and every
\* later range begins after n.
LEMMA AroundPos ==
  ASSUME TypeOK, Canonical, NEW n \in Seg
  PROVE  /\ Seg \subseteq Nat /\ n \in Nat
         /\ Len(ranges) \in Nat /\ Pos(n) \in 0..Len(ranges)
         /\ \A i \in 1..Len(ranges) : ranges[i].lo \in Seg /\ ranges[i].hi \in Seg
         /\ \A i \in 1..Len(ranges) : ranges[i].lo \in Int /\ ranges[i].hi \in Int
         /\ \A i \in 1..Len(ranges) : ranges[i].lo <= ranges[i].hi
         /\ \A i, k \in 1..Len(ranges) : i < k => ranges[i].hi + 1 < ranges[k].lo
         /\ \A i \in 1..Len(ranges) : i <= Pos(n) => ranges[i].lo <= n
         /\ \A i \in 1..Len(ranges) : i < Pos(n) => ranges[i].hi + 1 < n
         /\ \A i \in 1..Len(ranges) : Pos(n) < i => n < ranges[i].lo
<1>0. Seg \subseteq Nat /\ n \in Nat
  BY LastSegAssumption DEF Seg
<1>1. ranges \in Seq([lo : Seg, hi : Seg])
  BY DEF TypeOK
<1>2. /\ Len(ranges) \in Nat /\ DOMAIN ranges = 1..Len(ranges)
      /\ \A i \in 1..Len(ranges) : ranges[i] \in [lo : Seg, hi : Seg]
  BY <1>1, LenProperties
<1>3. \A i \in 1..Len(ranges) : ranges[i].lo \in Seg /\ ranges[i].hi \in Seg
  BY <1>2
<1>9. \A i \in 1..Len(ranges) : ranges[i].lo \in Int /\ ranges[i].hi \in Int
  <2>1. Seg \subseteq Int
    BY <1>0
  <2> QED
    BY <1>3, <2>1
<1>4. /\ \A i \in 1..Len(ranges) : ranges[i].lo <= ranges[i].hi
      /\ \A i, k \in 1..Len(ranges) : i < k => ranges[i].hi + 1 < ranges[k].lo
  BY <1>2 DEF Canonical
<1> DEFINE p == Pos(n)
<1>5. /\ p \in 0..Len(ranges)
      /\ \A i \in 1..p : ranges[i].lo <= n
      /\ p < Len(ranges) => ranges[p + 1].lo > n
  BY <1>0, PosIsSplit
<1> HIDE DEF p
<1>6. \A i \in 1..Len(ranges) : i <= p => ranges[i].lo <= n
  BY <1>2, <1>5
<1>7. \A i \in 1..Len(ranges) : i < p => ranges[i].hi + 1 < n
  <2> SUFFICES ASSUME NEW i \in 1..Len(ranges), i < p PROVE ranges[i].hi + 1 < n
    OBVIOUS
  <2>1. p \in 1..Len(ranges)
    BY <1>2, <1>5
  <2>2. ranges[i].hi + 1 < ranges[p].lo /\ ranges[p].lo <= n
    BY <1>4, <1>6, <2>1
  <2>3. ranges[i].hi \in Int /\ ranges[p].lo \in Int
    BY <1>9, <2>1
  <2> QED
    BY <1>0, <2>2, <2>3
<1>8. \A i \in 1..Len(ranges) : p < i => n < ranges[i].lo
  <2> SUFFICES ASSUME NEW i \in 1..Len(ranges), p < i PROVE n < ranges[i].lo
    OBVIOUS
  <2>1. p + 1 \in 1..Len(ranges) /\ p < Len(ranges)
    BY <1>2, <1>5
  <2>2. ranges[p + 1].lo > n /\ ranges[p + 1].lo <= ranges[p + 1].hi
    BY <1>4, <1>5, <2>1
  <2>3. CASE i = p + 1
    BY <1>0, <1>9, <2>1, <2>2, <2>3
  <2>4. CASE i # p + 1
    <3>1. p + 1 < i
      BY <1>2, <1>5, <2>4
    <3>2. ranges[p + 1].hi + 1 < ranges[i].lo
      BY <1>4, <2>1, <3>1
    <3>3. ranges[i].lo \in Int /\ ranges[p + 1].lo \in Int /\ ranges[p + 1].hi \in Int
      BY <1>9, <2>1
    <3> QED
      BY <1>0, <2>2, <3>2, <3>3
  <2> QED
    BY <2>3, <2>4
<1> QED
  BY <1>0, <1>2, <1>3, <1>4, <1>5, <1>6, <1>7, <1>8, <1>9 DEF p

\* contains(n, 1) is membership: only the range at Pos(n) can hold n.
LEMMA ContainsOne ==
  ASSUME IInv, NEW n \in Seg
  PROVE  ContainsRun(n, 1) <=> n \in added
<1> DEFINE p == Pos(n)
<1>1. /\ n \in Nat /\ Len(ranges) \in Nat /\ p \in 0..Len(ranges)
      /\ \A i \in 1..Len(ranges) : ranges[i].lo \in Int /\ ranges[i].hi \in Int
      /\ \A i \in 1..Len(ranges) : i <= p => ranges[i].lo <= n
      /\ \A i \in 1..Len(ranges) : i < p => ranges[i].hi + 1 < n
      /\ \A i \in 1..Len(ranges) : p < i => n < ranges[i].lo
  BY AroundPos DEF IInv
<1>2. n \in added <=> \E i \in 1..Len(ranges) : ranges[i].lo <= n /\ n <= ranges[i].hi
  <2>1. DOMAIN ranges = 1..Len(ranges)
    BY LenProperties DEF IInv, TypeOK
  <2> QED
    BY <2>1 DEF IInv, CoversAdded
<1>3. ContainsRun(n, 1) <=> p > 0 /\ ranges[p].hi >= n + 1 - 1
  BY DEF ContainsRun
<1> HIDE DEF p
<1>4. ASSUME p > 0, ranges[p].hi >= n + 1 - 1
      PROVE  \E i \in 1..Len(ranges) : ranges[i].lo <= n /\ n <= ranges[i].hi
  <2>1. p \in 1..Len(ranges)
    BY <1>1, <1>4
  <2>2. ranges[p].hi \in Int /\ ranges[p].lo <= n
    BY <1>1, <2>1
  <2>3. n <= ranges[p].hi
    BY <1>1, <1>4, <2>2
  <2> QED
    BY <2>1, <2>2, <2>3
<1>5. ASSUME NEW i \in 1..Len(ranges), ranges[i].lo <= n, n <= ranges[i].hi
      PROVE  p > 0 /\ ranges[p].hi >= n + 1 - 1
  <2>1. ranges[i].lo \in Int /\ ranges[i].hi \in Int
    BY <1>1
  <2>2. ~(i < p)
    BY <1>1, <1>5, <2>1
  <2>3. ~(p < i)
    BY <1>1, <1>5, <2>1
  <2>4. i = p
    BY <1>1, <2>2, <2>3
  <2> QED
    BY <1>1, <1>5, <2>1, <2>4
<1> QED
  BY <1>2, <1>3, <1>4, <1>5

\* A number that is missing has the ranges before it and those after it on its
\* two sides.
LEMMA SidesOfMissing ==
  ASSUME IInv, NEW n \in Seg, ~ContainsRun(n, 1)
  PROVE  /\ \A i \in 1..Len(ranges) : i <= Pos(n) => ranges[i].hi < n
         /\ ~LeftAdjacent(n) => \A i \in 1..Len(ranges) : i <= Pos(n) => ranges[i].hi + 1 < n
         /\ ~RightAdjacent(n) => \A i \in 1..Len(ranges) : Pos(n) < i => n + 1 < ranges[i].lo
<1> DEFINE p == Pos(n)
<1>1. /\ n \in Nat /\ Len(ranges) \in Nat /\ p \in 0..Len(ranges)
      /\ \A i \in 1..Len(ranges) : ranges[i].lo \in Int /\ ranges[i].hi \in Int
      /\ \A i \in 1..Len(ranges) : ranges[i].lo <= ranges[i].hi
      /\ \A i, k \in 1..Len(ranges) : i < k => ranges[i].hi + 1 < ranges[k].lo
      /\ \A i \in 1..Len(ranges) : i < p => ranges[i].hi + 1 < n
      /\ \A i \in 1..Len(ranges) : p < i => n < ranges[i].lo
  BY AroundPos DEF IInv
<1>2. p > 0 => ~(ranges[p].hi >= n + 1 - 1)
  BY DEF ContainsRun
<1>3. ~LeftAdjacent(n) /\ p > 0 => ranges[p].hi # n - 1
  BY DEF LeftAdjacent
<1>4. ~RightAdjacent(n) /\ p < Len(ranges) => ranges[p + 1].lo # n + 1
  BY DEF RightAdjacent
<1> HIDE DEF p
<1>5. ASSUME NEW i \in 1..Len(ranges), i <= p
      PROVE  ranges[i].hi < n /\ (~LeftAdjacent(n) => ranges[i].hi + 1 < n)
  <2>0. ranges[i].hi \in Int
    BY <1>1
  <2>1. CASE i < p
    BY <1>1, <2>0, <2>1
  <2>2. CASE i = p
    <3>1. p > 0 /\ ~(ranges[i].hi >= n + 1 - 1)
      BY <1>1, <1>2, <2>2
    <3>2. ~LeftAdjacent(n) => ranges[i].hi # n - 1
      BY <1>3, <2>2, <3>1
    <3>3. n \in Int
      BY <1>1
    <3>4. ranges[i].hi < n
      BY <2>0, <3>1, <3>3
    <3>5. ASSUME ranges[i].hi # n - 1 PROVE ranges[i].hi + 1 < n
      BY <2>0, <3>3, <3>4, <3>5
    <3> QED
      BY <3>2, <3>4, <3>5
  <2> QED
    BY <1>1, <1>5, <2>1, <2>2
<1>6. ASSUME ~RightAdjacent(n), NEW i \in 1..Len(ranges), p < i
      PROVE  n + 1 < ranges[i].lo
  <2>1. p + 1 \in 1..Len(ranges) /\ p < Len(ranges)
    BY <1>1, <1>6
  <2>2. ranges[i].lo \in Int /\ ranges[p + 1].lo \in Int /\ ranges[p + 1].hi \in Int
    BY <1>1, <2>1
  <2>3. n < ranges[p + 1].lo /\ ranges[p + 1].lo # n + 1 /\ ranges[p + 1].lo <= ranges[p + 1].hi
    BY <1>1, <1>4, <1>6, <2>1
  <2>4. CASE i = p + 1
    BY <1>1, <2>2, <2>3, <2>4
  <2>5. CASE i # p + 1
    <3>1. p + 1 < i
      BY <1>1, <1>6, <2>5
    <3>2. ranges[p + 1].hi + 1 < ranges[i].lo
      BY <1>1, <2>1, <3>1
    <3>3. n \in Int
      BY <1>1
    <3> QED
      BY <2>2, <2>3, <3>2, <3>3
  <2> QED
    BY <2>4, <2>5
<1> QED
  BY <1>5, <1>6 DEF p
\* A range of its own between its neighbours.
LEMMA InsertNewStep ==
  ASSUME IInv, NEW n \in Seg, ~ContainsRun(n, 1), InsertNew(n), added' = added \cup {n}
  PROVE  IInv'
<1> DEFINE p == Pos(n)
           N == Len(ranges)
<1>1. /\ Seg \subseteq Nat /\ n \in Nat /\ N \in Nat /\ p \in 0..N
      /\ \A i \in 1..N : ranges[i].lo \in Int /\ ranges[i].hi \in Int
      /\ \A i \in 1..N : ranges[i].lo <= ranges[i].hi
      /\ \A i, k \in 1..N : i < k => ranges[i].hi + 1 < ranges[k].lo
  BY AroundPos DEF IInv
<1>2. /\ \A i \in 1..N : i <= p => ranges[i].hi + 1 < n
      /\ \A i \in 1..N : p < i => n + 1 < ranges[i].lo
  BY SidesOfMissing DEF InsertNew
<1>3. /\ ranges' \in Seq(SegRange)
      /\ Len(ranges') = N + 1
      /\ \A k \in 1..(N + 1) :
           ranges'[k] = IF k < p + 1 THEN ranges[k] ELSE IF k = p + 1 THEN [lo |-> n, hi |-> n] ELSE ranges[k - 1]
  <2>1. ranges \in Seq(SegRange) /\ [lo |-> n, hi |-> n] \in SegRange
    BY DEF IInv, TypeOK, SegRange
  <2>2. p + 1 \in 1..(Len(ranges) + 1)
    BY <1>1
  <2>3. ranges' = InsertAt(ranges, p + 1, [lo |-> n, hi |-> n])
    BY DEF InsertNew
  <2> DEFINE e == [lo |-> n, hi |-> n]
             i == p + 1
  <2> HIDE DEF p, e, i
  <2>4. /\ InsertAt(ranges, i, e) \in Seq(SegRange)
        /\ Len(InsertAt(ranges, i, e)) = Len(ranges) + 1
        /\ \A k \in 1..(Len(ranges) + 1) :
             InsertAt(ranges, i, e)[k]
               = IF k < i THEN ranges[k] ELSE IF k = i THEN e ELSE ranges[k - 1]
    <3>1. ranges \in Seq(SegRange) /\ e \in SegRange /\ i \in 1..(Len(ranges) + 1)
      BY <2>1, <2>2 DEF e, i
    <3>2. IsInserted(InsertAt(ranges, i, e), SegRange, ranges, i, e)
      BY <3>1, InsertAtElements, Zenon
    <3> QED
      BY <3>2 DEF IsInserted
  <2>5. ranges' = InsertAt(ranges, i, e)
    BY <2>3 DEF e, i
  <2> QED
    BY <2>4, <2>5 DEF e, i
<1>4. DOMAIN ranges' = 1..(N + 1) /\ DOMAIN ranges = 1..N
  BY <1>3, LenProperties DEF IInv, TypeOK
<1> HIDE DEF p, N
<1>5. /\ \A k \in 1..N : k <= p => k \in 1..(N + 1) /\ ranges'[k] = ranges[k]
      /\ \A k \in 1..N : p < k => k + 1 \in 1..(N + 1) /\ ranges'[k + 1] = ranges[k]
      /\ p + 1 \in 1..(N + 1) /\ ranges'[p + 1].lo = n /\ ranges'[p + 1].hi = n
  <2>1. ASSUME NEW k \in 1..N, k <= p PROVE k \in 1..(N + 1) /\ ranges'[k] = ranges[k]
    BY <1>1, <1>3, <2>1
  <2>2. ASSUME NEW k \in 1..N, p < k PROVE k + 1 \in 1..(N + 1) /\ ranges'[k + 1] = ranges[k]
    <3>1. k + 1 \in 1..(N + 1) /\ ~(k + 1 < p + 1) /\ k + 1 # p + 1 /\ (k + 1) - 1 = k
      BY <1>1, <2>2
    <3> QED
      BY <1>3, <3>1
  <2>3. p + 1 \in 1..(N + 1) /\ ranges'[p + 1] = [lo |-> n, hi |-> n]
    BY <1>1, <1>3
  <2> QED
    BY <2>1, <2>2, <2>3
<1>6. ASSUME NEW k \in 1..(N + 1)
      PROVE  \/ k \in 1..N /\ k <= p /\ ranges'[k] = ranges[k]
             \/ k = p + 1
             \/ k - 1 \in 1..N /\ p < k - 1 /\ ranges'[k] = ranges[k - 1]
  BY <1>1, <1>3
<1>7. TypeOK'
  BY <1>3 DEF SegRange, IInv, TypeOK
<1>8. Canonical'
  <2>1. ASSUME NEW k \in 1..(N + 1) PROVE ranges'[k].lo <= ranges'[k].hi
    BY <1>1, <1>5, <1>6
  <2>2. ASSUME NEW i \in 1..(N + 1), NEW k \in 1..(N + 1), i < k
        PROVE  ranges'[i].hi + 1 < ranges'[k].lo
    <3>1. CASE i \in 1..N /\ i <= p /\ ranges'[i] = ranges[i]
      <4>1. CASE k \in 1..N /\ k <= p /\ ranges'[k] = ranges[k]
        BY <1>1, <2>2, <3>1, <4>1
      <4>2. CASE k = p + 1
        BY <1>2, <1>5, <3>1, <4>2
      <4>3. CASE k - 1 \in 1..N /\ p < k - 1 /\ ranges'[k] = ranges[k - 1]
        <5>1. i < k - 1
          BY <1>1, <3>1, <4>3
        <5> QED
          BY <1>1, <3>1, <4>3, <5>1
      <4> QED
        BY <1>6, <4>1, <4>2, <4>3
    <3>2. CASE i = p + 1
      <4>1. k - 1 \in 1..N /\ p < k - 1 /\ ranges'[k] = ranges[k - 1]
        BY <1>1, <1>6, <2>2, <3>2
      <4> QED
        BY <1>2, <1>5, <3>2, <4>1
    <3>3. CASE i - 1 \in 1..N /\ p < i - 1 /\ ranges'[i] = ranges[i - 1]
      <4>1. k - 1 \in 1..N /\ p < k - 1 /\ ranges'[k] = ranges[k - 1]
        BY <1>1, <1>6, <2>2, <3>3
      <4>2. i - 1 < k - 1
        BY <1>1, <2>2
      <4> QED
        BY <1>1, <3>3, <4>1, <4>2
    <3> QED
      BY <1>6, <3>1, <3>2, <3>3
  <2> QED
    BY <1>4, <2>1, <2>2 DEF Canonical
<1>9. CoversAdded'
  <2> SUFFICES ASSUME NEW m \in Seg
               PROVE  m \in added \cup {n}
                        <=> \E i \in 1..(N + 1) : ranges'[i].lo <= m /\ m <= ranges'[i].hi
    BY <1>4 DEF CoversAdded
  <2>0. m \in added <=> \E i \in 1..N : ranges[i].lo <= m /\ m <= ranges[i].hi
    BY <1>4 DEF IInv, CoversAdded
  <2>1. ASSUME m \in added
        PROVE  \E i \in 1..(N + 1) : ranges'[i].lo <= m /\ m <= ranges'[i].hi
    <3>1. PICK i \in 1..N : ranges[i].lo <= m /\ m <= ranges[i].hi
      BY <2>0, <2>1
    <3>2. i <= p \/ p < i
      BY <1>1
    <3> QED
      BY <1>5, <3>1, <3>2
  <2>2. ASSUME m = n
        PROVE  \E i \in 1..(N + 1) : ranges'[i].lo <= m /\ m <= ranges'[i].hi
    <3>1. n <= n
      BY <1>1
    <3> QED
      BY <1>5, <2>2, <3>1
  <2>3. ASSUME NEW k \in 1..(N + 1), ranges'[k].lo <= m, m <= ranges'[k].hi
        PROVE  m \in added \cup {n}
    <3>1. CASE k = p + 1
      <4>1. m \in Int /\ n \in Int
        BY <1>1
      <4> QED
        BY <1>5, <2>3, <3>1, <4>1
    <3>2. CASE k # p + 1
      BY <1>6, <2>0, <2>3, <3>2
    <3> QED
      BY <3>1, <3>2
  <2> QED
    BY <2>1, <2>2, <2>3
<1> QED
  BY <1>7, <1>8, <1>9 DEF IInv
\* The range that ends just before n grows to hold it.
LEMMA ExtendLeftStep ==
  ASSUME IInv, NEW n \in Seg, ~ContainsRun(n, 1), ExtendLeft(n), added' = added \cup {n}
  PROVE  IInv'
<1> DEFINE p == Pos(n)
           N == Len(ranges)
<1>1. /\ Seg \subseteq Nat /\ n \in Nat /\ N \in Nat /\ p \in 0..N
      /\ \A i \in 1..N : ranges[i].lo \in Int /\ ranges[i].hi \in Int
      /\ \A i \in 1..N : ranges[i].lo <= ranges[i].hi
      /\ \A i, k \in 1..N : i < k => ranges[i].hi + 1 < ranges[k].lo
      /\ \A i \in 1..N : i <= p => ranges[i].lo <= n
  BY AroundPos DEF IInv
<1>2. \A i \in 1..N : p < i => n + 1 < ranges[i].lo
  BY SidesOfMissing DEF ExtendLeft
<1>3. p \in 1..N /\ ranges[p].hi = n - 1
  BY <1>1 DEF ExtendLeft, LeftAdjacent
<1>4. /\ ranges' \in Seq(SegRange) /\ Len(ranges') = N
      /\ \A i \in 1..N : ranges'[i].lo = ranges[i].lo /\ ranges'[i].hi = IF i = p THEN n ELSE ranges[i].hi
  <2>1. ranges \in Seq(SegRange)
    BY DEF IInv, TypeOK, SegRange
  <2>2. ranges' = [ranges EXCEPT ![p].hi = n]
    BY DEF ExtendLeft
  <2> HIDE DEF p
  <2> QED
    BY <1>3, <2>1, <2>2, SetHi DEF HiIsSet
<1>5. DOMAIN ranges' = 1..N /\ DOMAIN ranges = 1..N
  BY <1>4, LenProperties DEF IInv, TypeOK
<1> HIDE DEF p, N
<1>6. TypeOK'
  BY <1>4 DEF SegRange, IInv, TypeOK
<1>7. Canonical'
  <2>1. ASSUME NEW k \in 1..N PROVE ranges'[k].lo <= ranges'[k].hi
    <3>1. ranges[k].lo <= ranges[k].hi /\ ranges[k].lo \in Int /\ ranges[k].hi \in Int /\ n \in Int
      BY <1>1
    <3>2. CASE k = p
      <4>1. ranges'[k].hi = n /\ ranges'[k].lo = ranges[k].lo
        BY <1>4, <3>2
      <4> QED
        BY <1>3, <3>1, <3>2, <4>1
    <3>3. CASE k # p
      <4>1. ranges'[k].lo = ranges[k].lo /\ ranges'[k].hi = ranges[k].hi
        BY <1>4, <3>3
      <4> QED
        BY <3>1, <4>1
    <3> QED
      BY <3>2, <3>3
  <2>2. ASSUME NEW i \in 1..N, NEW k \in 1..N, i < k
        PROVE  ranges'[i].hi + 1 < ranges'[k].lo
    <3>1. CASE i = p
      BY <1>1, <1>2, <1>4, <2>2, <3>1
    <3>2. CASE i # p
      BY <1>1, <1>4, <2>2, <3>2
    <3> QED
      BY <3>1, <3>2
  <2> QED
    BY <1>5, <2>1, <2>2 DEF Canonical
<1>8. CoversAdded'
  <2> SUFFICES ASSUME NEW m \in Seg
               PROVE  m \in added \cup {n}
                        <=> \E i \in 1..N : ranges'[i].lo <= m /\ m <= ranges'[i].hi
    BY <1>5 DEF CoversAdded
  <2>0. m \in added <=> \E i \in 1..N : ranges[i].lo <= m /\ m <= ranges[i].hi
    BY <1>5 DEF IInv, CoversAdded
  <2>1. ASSUME m \in added
        PROVE  \E i \in 1..N : ranges'[i].lo <= m /\ m <= ranges'[i].hi
    <3>1. PICK i \in 1..N : ranges[i].lo <= m /\ m <= ranges[i].hi
      BY <2>0, <2>1
    <3>2. m \in Int /\ n \in Int /\ ranges[i].hi \in Int
      BY <1>1
    <3>3. CASE i = p
      <4>1. m <= n
        BY <1>3, <3>1, <3>2, <3>3
      <4> QED
        BY <1>4, <3>1, <3>3, <4>1
    <3>4. CASE i # p
      BY <1>4, <3>1, <3>4
    <3> QED
      BY <3>3, <3>4
  <2>2. ASSUME m = n
        PROVE  \E i \in 1..N : ranges'[i].lo <= m /\ m <= ranges'[i].hi
    <3>1. n <= n /\ ranges[p].lo <= n
      BY <1>1, <1>3
    <3> QED
      BY <1>3, <1>4, <2>2, <3>1
  <2>3. ASSUME NEW k \in 1..N, ranges'[k].lo <= m, m <= ranges'[k].hi
        PROVE  m \in added \cup {n}
    <3>1. CASE k = p
      <4>1. m \in Int /\ n \in Int
        BY <1>1
      <4>2. m <= n /\ ranges[p].lo <= m
        BY <1>4, <2>3, <3>1
      <4>3. m = n \/ m <= n - 1
        BY <4>1, <4>2
      <4> QED
        BY <1>3, <2>0, <4>2, <4>3
    <3>2. CASE k # p
      BY <1>4, <2>0, <2>3, <3>2
    <3> QED
      BY <3>1, <3>2
  <2> QED
    BY <2>1, <2>2, <2>3
<1> QED
  BY <1>6, <1>7, <1>8 DEF IInv

\* The range that begins just after n grows to hold it.
LEMMA ExtendRightStep ==
  ASSUME IInv, NEW n \in Seg, ~ContainsRun(n, 1), ExtendRight(n), added' = added \cup {n}
  PROVE  IInv'
<1> DEFINE p == Pos(n) + 1
           N == Len(ranges)
<1>1. /\ Seg \subseteq Nat /\ n \in Nat /\ N \in Nat /\ p \in 1..(N + 1)
      /\ \A i \in 1..N : ranges[i].lo \in Int /\ ranges[i].hi \in Int
      /\ \A i \in 1..N : ranges[i].lo <= ranges[i].hi
      /\ \A i, k \in 1..N : i < k => ranges[i].hi + 1 < ranges[k].lo
  BY AroundPos DEF IInv
<1>2. \A i \in 1..N : i < p => ranges[i].hi + 1 < n
  <2>1. \A i \in 1..N : i <= Pos(n) => ranges[i].hi + 1 < n
    BY SidesOfMissing DEF ExtendRight
  <2>2. Pos(n) \in 0..N
    BY AroundPos DEF IInv
  <2> QED
    BY <1>1, <2>1, <2>2
<1>3. p \in 1..N /\ ranges[p].lo = n + 1
  <2>1. Pos(n) \in 0..N
    BY AroundPos DEF IInv
  <2> QED
    BY <1>1, <2>1 DEF ExtendRight, RightAdjacent
<1>4. /\ ranges' \in Seq(SegRange) /\ Len(ranges') = N
      /\ \A i \in 1..N : ranges'[i].hi = ranges[i].hi /\ ranges'[i].lo = IF i = p THEN n ELSE ranges[i].lo
  <2>1. ranges \in Seq(SegRange)
    BY DEF IInv, TypeOK, SegRange
  <2>2. ranges' = [ranges EXCEPT ![p].lo = n]
    BY DEF ExtendRight
  <2> HIDE DEF p
  <2> QED
    BY <1>3, <2>1, <2>2, SetLo
<1>5. DOMAIN ranges' = 1..N /\ DOMAIN ranges = 1..N
  BY <1>4, LenProperties DEF IInv, TypeOK
<1> HIDE DEF p, N
<1>6. TypeOK'
  BY <1>4 DEF SegRange, IInv, TypeOK
<1>7. Canonical'
  <2>1. ASSUME NEW k \in 1..N PROVE ranges'[k].lo <= ranges'[k].hi
    <3>1. ranges[k].lo <= ranges[k].hi /\ ranges[k].lo \in Int /\ ranges[k].hi \in Int /\ n \in Int
      BY <1>1
    <3>2. CASE k = p
      <4>1. ranges'[k].lo = n /\ ranges'[k].hi = ranges[k].hi
        BY <1>4, <3>2
      <4> QED
        BY <1>3, <3>1, <3>2, <4>1
    <3>3. CASE k # p
      <4>1. ranges'[k].lo = ranges[k].lo /\ ranges'[k].hi = ranges[k].hi
        BY <1>4, <3>3
      <4> QED
        BY <3>1, <4>1
    <3> QED
      BY <3>2, <3>3
  <2>2. ASSUME NEW i \in 1..N, NEW k \in 1..N, i < k
        PROVE  ranges'[i].hi + 1 < ranges'[k].lo
    <3>1. CASE k = p
      BY <1>1, <1>2, <1>4, <2>2, <3>1
    <3>2. CASE k # p
      BY <1>1, <1>4, <2>2, <3>2
    <3> QED
      BY <3>1, <3>2
  <2> QED
    BY <1>5, <2>1, <2>2 DEF Canonical
<1>8. CoversAdded'
  <2> SUFFICES ASSUME NEW m \in Seg
               PROVE  m \in added \cup {n}
                        <=> \E i \in 1..N : ranges'[i].lo <= m /\ m <= ranges'[i].hi
    BY <1>5 DEF CoversAdded
  <2>0. m \in added <=> \E i \in 1..N : ranges[i].lo <= m /\ m <= ranges[i].hi
    BY <1>5 DEF IInv, CoversAdded
  <2>1. ASSUME m \in added
        PROVE  \E i \in 1..N : ranges'[i].lo <= m /\ m <= ranges'[i].hi
    <3>1. PICK i \in 1..N : ranges[i].lo <= m /\ m <= ranges[i].hi
      BY <2>0, <2>1
    <3>2. m \in Int /\ n \in Int /\ ranges[i].lo \in Int
      BY <1>1
    <3>3. CASE i = p
      <4>1. n <= m
        BY <1>3, <3>1, <3>2, <3>3
      <4> QED
        BY <1>4, <3>1, <3>3, <4>1
    <3>4. CASE i # p
      BY <1>4, <3>1, <3>4
    <3> QED
      BY <3>3, <3>4
  <2>2. ASSUME m = n
        PROVE  \E i \in 1..N : ranges'[i].lo <= m /\ m <= ranges'[i].hi
    <3>1. n <= n /\ n <= ranges[p].hi
      BY <1>1, <1>3
    <3> QED
      BY <1>3, <1>4, <2>2, <3>1
  <2>3. ASSUME NEW k \in 1..N, ranges'[k].lo <= m, m <= ranges'[k].hi
        PROVE  m \in added \cup {n}
    <3>1. CASE k = p
      <4>1. m \in Int /\ n \in Int
        BY <1>1
      <4>2. n <= m /\ m <= ranges[p].hi
        BY <1>4, <2>3, <3>1
      <4>3. m = n \/ n + 1 <= m
        BY <4>1, <4>2
      <4> QED
        BY <1>3, <2>0, <4>2, <4>3
    <3>2. CASE k # p
      BY <1>4, <2>0, <2>3, <3>2
    <3> QED
      BY <3>1, <3>2
  <2> QED
    BY <2>1, <2>2, <2>3
<1> QED
  BY <1>6, <1>7, <1>8 DEF IInv
\* The two ranges n was the gap between become one.
LEMMA MergeStep ==
  ASSUME IInv, NEW n \in Seg, Merge(n), added' = added \cup {n}
  PROVE  IInv'
<1> DEFINE p == Pos(n)
           N == Len(ranges)
<1>1. /\ Seg \subseteq Nat /\ n \in Nat /\ N \in Nat /\ p \in 0..N
      /\ \A i \in 1..N : ranges[i].hi \in Seg
      /\ \A i \in 1..N : ranges[i].lo \in Int /\ ranges[i].hi \in Int
      /\ \A i \in 1..N : ranges[i].lo <= ranges[i].hi
      /\ \A i, k \in 1..N : i < k => ranges[i].hi + 1 < ranges[k].lo
  BY AroundPos DEF IInv
<1>2. /\ p \in 1..N /\ p + 1 \in 1..N
      /\ ranges[p].hi = n - 1 /\ ranges[p + 1].lo = n + 1
  <2>1. p > 0 /\ p < N /\ ranges[p].hi = n - 1 /\ ranges[p + 1].lo = n + 1
    BY DEF Merge, LeftAdjacent, RightAdjacent
  <2> QED
    BY <1>1, <2>1
<1>3. /\ ranges' \in Seq(SegRange) /\ Len(ranges') = N - 1
      /\ \A k \in 1..(N - 1) : k < p => ranges'[k].lo = ranges[k].lo /\ ranges'[k].hi = ranges[k].hi
      /\ ranges'[p].lo = ranges[p].lo /\ ranges'[p].hi = ranges[p + 1].hi
      /\ \A k \in 1..(N - 1) : p < k => ranges'[k].lo = ranges[k + 1].lo /\ ranges'[k].hi = ranges[k + 1].hi
  <2> DEFINE h == ranges[p + 1].hi
             a == [ranges EXCEPT ![p].hi = h]
             j == p + 1
  <2>1. ranges \in Seq(SegRange) /\ h \in Seg
    BY <1>1, <1>2 DEF IInv, TypeOK, SegRange
  <2>2. ranges' = RemoveAt(a, j)
    BY DEF Merge
  <2> HIDE DEF p
  <2>3. /\ a \in Seq(SegRange) /\ Len(a) = N
        /\ \A i \in 1..N : a[i].lo = ranges[i].lo /\ a[i].hi = IF i = p THEN h ELSE ranges[i].hi
    <3>1. p \in 1..Len(ranges)
      BY <1>2
    <3> HIDE DEF h
    <3>2. a = [ranges EXCEPT ![p].hi = h]
      OBVIOUS
    <3> HIDE DEF a
    <3>3. HiIsSet(a, ranges, p, h)
      BY <2>1, <3>1, <3>2, SetHi, Zenon
    <3> QED
      BY <3>3 DEF HiIsSet
  <2> HIDE DEF a, N, h
  <2>4. a \in Seq(SegRange) /\ j \in 1..Len(a)
    BY <1>2, <2>3
  <2> HIDE DEF j
  <2>5. /\ RemoveAt(a, j) \in Seq(SegRange)
        /\ Len(RemoveAt(a, j)) = Len(a) - 1
        /\ \A k \in 1..(Len(a) - 1) : RemoveAt(a, j)[k] = IF k < j THEN a[k] ELSE a[k + 1]
    BY <2>4, RemoveAtElements, Zenon
  <2>6. /\ ranges' \in Seq(SegRange) /\ Len(ranges') = N - 1
        /\ \A k \in 1..(N - 1) : ranges'[k] = IF k < p + 1 THEN a[k] ELSE a[k + 1]
    BY <2>2, <2>3, <2>5 DEF j
  <2>7. ASSUME NEW k \in 1..(N - 1), k < p
        PROVE  ranges'[k].lo = ranges[k].lo /\ ranges'[k].hi = ranges[k].hi
    <3>1. k \in 1..N /\ k < p + 1 /\ k # p
      BY <1>1, <1>2, <2>7
    <3> QED
      BY <2>3, <2>6, <3>1
  <2>8. ranges'[p].lo = ranges[p].lo /\ ranges'[p].hi = h
    <3>1. p \in 1..(N - 1) /\ p \in 1..N /\ p < p + 1
      BY <1>1, <1>2
    <3> QED
      BY <2>3, <2>6, <3>1
  <2>9. ASSUME NEW k \in 1..(N - 1), p < k
        PROVE  ranges'[k].lo = ranges[k + 1].lo /\ ranges'[k].hi = ranges[k + 1].hi
    <3>1. k + 1 \in 1..N /\ ~(k < p + 1) /\ k + 1 # p
      BY <1>1, <1>2, <2>9
    <3> QED
      BY <2>3, <2>6, <3>1
  <2> QED
    BY <2>6, <2>7, <2>8, <2>9 DEF h
<1>4. DOMAIN ranges' = 1..(N - 1) /\ DOMAIN ranges = 1..N
  BY <1>3, LenProperties DEF IInv, TypeOK
<1> HIDE DEF p, N
<1>5. \A k \in 1..(N - 1) : k \in 1..N /\ k + 1 \in 1..N
  BY <1>1
<1>6. p \in 1..(N - 1) /\ p < p + 1
  BY <1>1, <1>2
<1>7. TypeOK'
  BY <1>3 DEF SegRange, IInv, TypeOK
<1>8. Canonical'
  <2>1. ASSUME NEW k \in 1..(N - 1) PROVE ranges'[k].lo <= ranges'[k].hi
    <3>1. CASE k = p
      <4>1. ranges[p].lo <= ranges[p].hi /\ ranges[p + 1].lo <= ranges[p + 1].hi
        BY <1>1, <1>2
      <4> QED
        BY <1>1, <1>2, <1>3, <3>1, <4>1
    <3>2. CASE k # p
      <4>1. k < p \/ p < k
        BY <1>1, <3>2
      <4> QED
        BY <1>1, <1>3, <1>5, <4>1
    <3> QED
      BY <3>1, <3>2
  <2>2. ASSUME NEW i \in 1..(N - 1), NEW k \in 1..(N - 1), i < k
        PROVE  ranges'[i].hi + 1 < ranges'[k].lo
    <3>0. i \in 1..N /\ k \in 1..N /\ i + 1 \in 1..N /\ k + 1 \in 1..N /\ i < k + 1 /\ i + 1 < k + 1
      BY <1>1, <1>5, <2>2
    <3>1. CASE p < i
      <4>1. p < k
        BY <1>1, <2>2, <3>1
      <4> QED
        BY <1>1, <1>3, <3>0, <3>1, <4>1
    <3>2. CASE i = p
      BY <1>1, <1>3, <2>2, <3>0, <3>2
    <3>3. CASE i < p
      <4>1. CASE k < p
        BY <1>1, <1>3, <2>2, <3>0, <3>3, <4>1
      <4>2. CASE k = p
        BY <1>1, <1>3, <2>2, <3>0, <3>3, <4>2
      <4>3. CASE p < k
        BY <1>1, <1>3, <3>0, <3>3, <4>3
      <4> QED
        BY <1>1, <4>1, <4>2, <4>3
    <3> QED
      BY <1>1, <3>1, <3>2, <3>3
  <2> QED
    BY <1>4, <2>1, <2>2 DEF Canonical
<1>9. CoversAdded'
  <2> SUFFICES ASSUME NEW m \in Seg
               PROVE  m \in added \cup {n}
                        <=> \E i \in 1..(N - 1) : ranges'[i].lo <= m /\ m <= ranges'[i].hi
    BY <1>4 DEF CoversAdded
  <2>0. m \in added <=> \E i \in 1..N : ranges[i].lo <= m /\ m <= ranges[i].hi
    BY <1>4 DEF IInv, CoversAdded
  <2>i. /\ m \in Int /\ n \in Int
        /\ ranges[p].lo \in Int /\ ranges[p + 1].hi \in Int
        /\ ranges[p].lo <= n - 1 /\ n + 1 <= ranges[p + 1].hi
    <3>1. ranges[p].lo <= ranges[p].hi /\ ranges[p + 1].lo <= ranges[p + 1].hi
      BY <1>1, <1>2
    <3>2. ranges[p].lo \in Int /\ ranges[p + 1].hi \in Int
      BY <1>1, <1>2
    <3>3. m \in Int /\ n \in Int
      BY <1>1
    <3> QED
      BY <1>2, <3>1, <3>2, <3>3
  <2>1. ASSUME m \in added
        PROVE  \E i \in 1..(N - 1) : ranges'[i].lo <= m /\ m <= ranges'[i].hi
    <3>1. PICK i \in 1..N : ranges[i].lo <= m /\ m <= ranges[i].hi
      BY <2>0, <2>1
    <3>2. CASE i < p
      <4>1. i \in 1..(N - 1)
        BY <1>1, <1>6, <3>2
      <4> QED
        BY <1>3, <3>1, <3>2, <4>1
    <3>3. CASE i = p
      <4>1. m <= ranges[p + 1].hi
        BY <1>2, <2>i, <3>1, <3>3
      <4> QED
        BY <1>3, <1>6, <3>1, <3>3, <4>1
    <3>4. CASE i = p + 1
      <4>1. ranges[p].lo <= m
        BY <1>2, <2>i, <3>1, <3>4
      <4> QED
        BY <1>3, <1>6, <3>1, <3>4, <4>1
    <3>5. CASE p + 1 < i
      <4>1. i - 1 \in 1..(N - 1) /\ p < i - 1 /\ (i - 1) + 1 = i
        BY <1>1, <3>5
      <4>2. ranges'[i - 1].lo = ranges[i].lo /\ ranges'[i - 1].hi = ranges[i].hi
        BY <1>3, <4>1
      <4> QED
        BY <3>1, <4>1, <4>2
    <3> QED
      BY <1>1, <3>2, <3>3, <3>4, <3>5
  <2>2. ASSUME m = n
        PROVE  \E i \in 1..(N - 1) : ranges'[i].lo <= m /\ m <= ranges'[i].hi
    <3>1. ranges[p].lo <= m /\ m <= ranges[p + 1].hi
      BY <2>i, <2>2
    <3> QED
      BY <1>3, <1>6, <3>1
  <2>3. ASSUME NEW k \in 1..(N - 1), ranges'[k].lo <= m, m <= ranges'[k].hi
        PROVE  m \in added \cup {n}
    <3>1. CASE k = p
      <4>1. ranges[p].lo <= m /\ m <= ranges[p + 1].hi
        BY <1>3, <2>3, <3>1
      <4>2. m <= n - 1 \/ m = n \/ n + 1 <= m
        BY <2>i
      <4> QED
        BY <1>2, <2>0, <4>1, <4>2
    <3>2. CASE k < p
      BY <1>3, <1>5, <2>0, <2>3, <3>2
    <3>3. CASE p < k
      BY <1>3, <1>5, <2>0, <2>3, <3>3
    <3> QED
      BY <1>1, <3>1, <3>2, <3>3
  <2> QED
    BY <2>1, <2>2, <2>3
<1> QED
  BY <1>7, <1>8, <1>9 DEF IInv

\* contains(n, length) over a canonical list: the range at Pos(n) holds the run,
\* or some number of the run is in no range at all.
LEMMA ContainsRunExact ==
  ASSUME IInv, NEW n \in Seg, NEW length \in 1..(LastSeg - n + 1)
  PROVE  ContainsRun(n, length) <=> n..(n + length - 1) \subseteq added
<1> DEFINE p == Pos(n)
           N == Len(ranges)
           top == n + length - 1
<1>1. /\ n \in Nat /\ N \in Nat /\ p \in 0..N
      /\ \A i \in 1..N : ranges[i].lo \in Int /\ ranges[i].hi \in Int
      /\ \A i \in 1..N : ranges[i].lo <= ranges[i].hi
      /\ \A i, k \in 1..N : i < k => ranges[i].hi + 1 < ranges[k].lo
      /\ \A i \in 1..N : i <= p => ranges[i].lo <= n
      /\ \A i \in 1..N : i < p => ranges[i].hi + 1 < n
      /\ \A i \in 1..N : p < i => n < ranges[i].lo
  BY AroundPos DEF IInv
<1>2. DOMAIN ranges = 1..N
  BY LenProperties DEF IInv, TypeOK
<1>3. ContainsRun(n, length) <=> p > 0 /\ ranges[p].hi >= top
  BY DEF ContainsRun
<1>4. /\ top \in Nat /\ n <= top /\ n \in n..top
      /\ \A m \in n..top : m \in Seg /\ m \in Int /\ n <= m /\ m <= top
  BY <1>1, LastSegAssumption DEF Seg
<1>5. \A m \in Seg : m \in added <=> \E i \in 1..N : ranges[i].lo <= m /\ m <= ranges[i].hi
  BY <1>2 DEF IInv, CoversAdded
<1> HIDE DEF p, N, top
<1>6. ASSUME p > 0, ranges[p].hi >= top, NEW m \in n..top
      PROVE  m \in added
  <2>1. p \in 1..N
    BY <1>1, <1>6
  <2>2. ranges[p].lo <= n /\ ranges[p].lo \in Int /\ ranges[p].hi \in Int
    BY <1>1, <2>1
  <2>3. ranges[p].lo <= m /\ m <= ranges[p].hi
    BY <1>1, <1>4, <1>6, <2>2
  <2> QED
    BY <1>4, <1>5, <2>1, <2>3
<1>7. ASSUME n..top \subseteq added
      PROVE  p > 0 /\ ranges[p].hi >= top
  <2>1. n \in added
    BY <1>4, <1>7
  <2>2. PICK i \in 1..N : ranges[i].lo <= n /\ n <= ranges[i].hi
    BY <1>5, <2>1
  <2>3. i = p
    <3>1. ~(i < p)
      BY <1>1, <2>2
    <3>2. ~(p < i)
      BY <1>1, <2>2
    <3> QED
      BY <1>1, <3>1, <3>2
  <2>4. p \in 1..N /\ ranges[p].hi \in Int /\ n <= ranges[p].hi
    BY <1>1, <2>2, <2>3
  <2>5. ASSUME ranges[p].hi < top PROVE FALSE
    <3> DEFINE m == ranges[p].hi + 1
    <3>1. m \in n..top
      BY <1>1, <1>4, <2>4, <2>5
    <3>2. m \in added /\ m \in Seg
      BY <1>4, <1>7, <3>1
    <3>3. PICK k \in 1..N : ranges[k].lo <= m /\ m <= ranges[k].hi
      BY <1>5, <3>2
    <3>4. ranges[k].lo \in Int /\ ranges[k].hi \in Int /\ n <= m
      BY <1>1, <1>4, <3>1
    <3>5. ~(p < k)
      <4>1. SUFFICES ASSUME p < k PROVE FALSE
        OBVIOUS
      <4>2. m < ranges[k].lo
        BY <1>1, <2>4, <4>1
      <4> QED
        BY <2>4, <3>3, <3>4, <4>2
    <3>6. ~(k < p)
      <4>1. SUFFICES ASSUME k < p PROVE FALSE
        OBVIOUS
      <4>2. ranges[k].hi + 1 < n
        BY <1>1, <4>1
      <4> QED
        BY <1>1, <2>4, <3>3, <3>4, <4>2
    <3>7. k = p
      BY <1>1, <3>5, <3>6
    <3> QED
      BY <2>4, <3>3, <3>7
  <2> QED
    BY <1>4, <2>4, <2>5
<1> QED
  BY <1>3, <1>6, <1>7 DEF top

\* firstAvailableAfter of a missing number.
LEMMA GapEnd ==
  ASSUME IInv, NEW n \in Seg \ added
  PROVE  FirstAvailableAfter(n) = {m \in added : m > n /\ \A k \in added : k > n => m <= k}
<1> DEFINE p == Pos(n)
           N == Len(ranges)
           nextOnes == {m \in added : m > n /\ \A k \in added : k > n => m <= k}
<1>1. /\ n \in Nat /\ N \in Nat /\ p \in 0..N
      /\ Seg \subseteq Nat
      /\ \A i \in 1..N : ranges[i].lo \in Seg
      /\ \A i \in 1..N : ranges[i].lo \in Int /\ ranges[i].hi \in Int
      /\ \A i \in 1..N : ranges[i].lo <= ranges[i].hi
      /\ \A i, k \in 1..N : i < k => ranges[i].hi + 1 < ranges[k].lo
      /\ \A i \in 1..N : p < i => n < ranges[i].lo
  BY AroundPos DEF IInv
<1>2. DOMAIN ranges = 1..N
  BY LenProperties DEF IInv, TypeOK
<1>3. ~ContainsRun(n, 1)
  BY ContainsOne
<1>4. \A i \in 1..N : i <= p => ranges[i].hi < n
  BY <1>3, SidesOfMissing
<1>5. /\ added \subseteq Seg
      /\ \A m \in Seg : m \in added <=> \E i \in 1..N : ranges[i].lo <= m /\ m <= ranges[i].hi
  BY <1>2 DEF IInv, TypeOK, CoversAdded
<1>6. FirstAvailableAfter(n) = IF p >= N THEN {} ELSE {ranges[p + 1].lo}
  BY DEF FirstAvailableAfter
<1> HIDE DEF p, N
<1>7. ASSUME NEW m \in added, m > n
      PROVE  p < N /\ ranges[p + 1].lo <= m
  <2>1. m \in Int
    <3>1. m \in Seg
      BY <1>5
    <3>2. m \in Nat
      BY <1>1, <3>1
    <3> QED
      BY <3>2
  <2>2. PICK i \in 1..N : ranges[i].lo <= m /\ m <= ranges[i].hi
    BY <1>5
  <2>3. ranges[i].hi \in Int /\ ranges[i].lo \in Int
    BY <1>1
  <2>4. ~(ranges[i].hi < n)
    BY <1>1, <1>7, <2>1, <2>2, <2>3
  <2>5. p < i
    BY <1>1, <1>4, <2>4
  <2>6. p < N /\ p + 1 \in 1..N /\ (i = p + 1 \/ p + 1 < i)
    BY <1>1, <2>5
  <2>7. ranges[p + 1].lo <= ranges[i].lo
    <3>1. /\ ranges[p + 1].lo \in Int /\ ranges[p + 1].hi \in Int
          /\ ranges[p + 1].lo <= ranges[p + 1].hi
      BY <1>1, <2>6
    <3>2. CASE i = p + 1
      BY <2>3, <3>2
    <3>3. CASE p + 1 < i
      <4>1. ranges[p + 1].hi + 1 < ranges[i].lo
        BY <1>1, <2>6, <3>3
      <4> QED
        BY <2>3, <3>1, <4>1
    <3> QED
      BY <2>6, <3>2, <3>3
  <2> QED
    BY <1>1, <2>1, <2>2, <2>3, <2>6, <2>7
<1>8. CASE p >= N
  <2>1. nextOnes = {}
    BY <1>1, <1>7, <1>8
  <2> QED
    BY <1>6, <1>8, <2>1
<1>9. CASE ~(p >= N)
  <2> DEFINE l == ranges[p + 1].lo
  <2>1. p + 1 \in 1..N /\ p < p + 1
    BY <1>1, <1>9
  <2>2. l \in Seg /\ l \in Int /\ n < l /\ l <= ranges[p + 1].hi
    BY <1>1, <2>1
  <2>3. l \in added /\ l > n
    <3>1. l <= l
      BY <2>2
    <3> QED
      BY <1>1, <1>5, <2>1, <2>2, <3>1
  <2>4. \A k \in added : k > n => l <= k
    BY <1>7
  <2>5. \A m \in nextOnes : m = l
    <3> SUFFICES ASSUME NEW m \in nextOnes PROVE m = l
      OBVIOUS
    <3>1. m \in added /\ m > n /\ m <= l
      BY <2>3
    <3>2. l <= m /\ m \in Int
      BY <1>1, <1>5, <2>4, <3>1
    <3> QED
      BY <2>2, <3>1, <3>2
  <2>6. l \in nextOnes
    BY <2>3, <2>4
  <2> HIDE DEF l, nextOnes
  <2>7. nextOnes = {l}
    BY <2>5, <2>6
  <2>8. FirstAvailableAfter(n) = {l}
    BY <1>6, <1>9 DEF l
  <2> QED
    BY <2>7, <2>8 DEF nextOnes
<1> QED
  BY <1>8, <1>9

\* From here on: the facts as properties of every behaviour.
LEMMA Invariance == Spec => []IInv
<1>1. Init => IInv
  <2> SUFFICES ASSUME Init PROVE IInv
    OBVIOUS
  <2>1. DOMAIN ranges = {}
    BY DEF Init
  <2>2. TypeOK
    BY DEF Init, TypeOK
  <2>3. Canonical /\ CoversAdded
    BY <2>1 DEF Init, Canonical, CoversAdded
  <2> QED
    BY <2>2, <2>3 DEF IInv
<1>2. IInv /\ [Next]_vars => IInv'
  <2> SUFFICES ASSUME IInv, [Next]_vars PROVE IInv'
    OBVIOUS
  <2>1. ASSUME NEW n \in Seg, Add(n) PROVE IInv'
    <3>0. added' = added \cup {n}
      BY <2>1 DEF Add
    <3>1. CASE ContainsRun(n, 1) /\ UNCHANGED ranges
      <4>1. added' = added
        BY <3>0, <3>1, ContainsOne
      <4> QED
        BY <3>1, <4>1 DEF IInv, TypeOK, Canonical, CoversAdded
    <3>2. CASE ~ContainsRun(n, 1) /\ Merge(n)
      BY <3>0, <3>2, MergeStep
    <3>3. CASE ~ContainsRun(n, 1) /\ ExtendLeft(n)
      BY <3>0, <3>3, ExtendLeftStep
    <3>4. CASE ~ContainsRun(n, 1) /\ ExtendRight(n)
      BY <3>0, <3>4, ExtendRightStep
    <3>5. CASE ~ContainsRun(n, 1) /\ InsertNew(n)
      BY <3>0, <3>5, InsertNewStep
    <3> QED
      BY <2>1, <3>1, <3>2, <3>3, <3>4, <3>5 DEF Add
  <2>2. CASE UNCHANGED vars
    BY <2>2 DEF vars, IInv, TypeOK, Canonical, CoversAdded
  <2> QED
    BY <2>1, <2>2 DEF Next
<1> QED
  BY <1>1, <1>2, PTL DEF Spec

\* The list and the history set keep their types for a video of any length.
THEOREM ListTypes == Spec => []TypeOK
<1>1. IInv => TypeOK
  BY DEF IInv
<1> QED
  BY <1>1, Invariance, PTL

\* Ranges stay sorted, disjoint and non-adjacent for a video of any length, so
\* the binary search of add, contains and firstAvailableAfter is always sound.
THEOREM StaysCanonical == Spec => []Canonical
<1>1. IInv => Canonical
  BY DEF IInv
<1> QED
  BY <1>1, Invariance, PTL

\* No merge of ranges loses or invents a segment.
THEOREM StaysExact == Spec => []CoversAdded
<1>1. IInv => CoversAdded
  BY DEF IInv
<1> QED
  BY <1>1, Invariance, PTL

\* What ServeSegment and proactiveGapFill ask about a run of segments is exactly
\* whether each of them has been marked available.
THEOREM AnswersAreExact == Spec => []ContainsIsExact
<1>1. IInv => ContainsIsExact
  BY ContainsRunExact DEF ContainsIsExact
<1> QED
  BY <1>1, Invariance, PTL

\* The bound seekTo gives ffmpeg is the first available segment beyond the gap.
THEOREM GapBoundIsExact == Spec => []GapEndsAtNextAvailable
<1>1. IInv => GapEndsAtNextAvailable
  BY GapEnd DEF GapEndsAtNextAvailable
<1> QED
  BY <1>1, Invariance, PTL
===============================================================================
