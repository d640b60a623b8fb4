------------------------------ MODULE SegmentSet ------------------------------
(***************************************************************************)
(* segmentSet (internal/streaming/segmentset.go): the HLS segments that are *)
(* available, as a sorted list of inclusive [lo, hi] ranges.                *)
(***************************************************************************)
EXTENDS Integers, Sequences, SequencesExt

CONSTANT LastSeg   \* the highest segment number of the video

ASSUME LastSegAssumption == LastSeg \in Nat

Seg == 0..LastSeg

VARIABLES
  ranges,   \* segmentSet.ranges
  added     \* history: the numbers add was called with

vars == <<ranges, added>>

\* sort.Search: how many ranges come before the first whose lo is above n.
Pos(n) ==
  CHOOSE p \in 0..Len(ranges) :
    /\ \A i \in 1..p : ranges[i].lo <= n
    /\ p < Len(ranges) => ranges[p + 1].lo > n

LeftAdjacent(n)  == Pos(n) > 0 /\ ranges[Pos(n)].hi = n - 1
RightAdjacent(n) == Pos(n) < Len(ranges) /\ ranges[Pos(n) + 1].lo = n + 1

ContainsRun_Boundary(n, length) == Pos(n) > 0 /\ ranges[Pos(n)].hi >= n + length
ContainsRun(n, length) == Pos(n) > 0 /\ ranges[Pos(n)].hi >= n + length - 1

\* The lowest available number above n, or none.
FirstAvailableAfter_SameRange(n) ==
  IF Pos(n) = 0 THEN {} ELSE {ranges[Pos(n)].lo}
FirstAvailableAfter(n) ==
  IF Pos(n) >= Len(ranges) THEN {} ELSE {ranges[Pos(n) + 1].lo}

Merge(n) ==
  /\ LeftAdjacent(n) /\ RightAdjacent(n)
  /\ ranges' = RemoveAt([ranges EXCEPT ![Pos(n)].hi = ranges[Pos(n) + 1].hi], Pos(n) + 1)

ExtendLeft_NoMerge(n) ==
  /\ LeftAdjacent(n)
  /\ ranges' = [ranges EXCEPT ![Pos(n)].hi = n]
ExtendLeft(n) ==
  /\ LeftAdjacent(n) /\ ~RightAdjacent(n)
  /\ ranges' = [ranges EXCEPT ![Pos(n)].hi = n]

ExtendRight_KeepsLo(n) ==
  /\ ~LeftAdjacent(n) /\ RightAdjacent(n)
  /\ UNCHANGED ranges
ExtendRight(n) ==
  /\ ~LeftAdjacent(n) /\ RightAdjacent(n)
  /\ ranges' = [ranges EXCEPT ![Pos(n) + 1].lo = n]

InsertNew_HalfOpen(n) ==
  /\ ~LeftAdjacent(n) /\ ~RightAdjacent(n)
  /\ ranges' = InsertAt(ranges, Pos(n) + 1, [lo |-> n, hi |-> n + 1])
InsertNew(n) ==
  /\ ~LeftAdjacent(n) /\ ~RightAdjacent(n)
  /\ ranges' = InsertAt(ranges, Pos(n) + 1, [lo |-> n, hi |-> n])

Add(n) ==
  /\ \/ ContainsRun(n, 1) /\ UNCHANGED ranges
     \/ ~ContainsRun(n, 1) /\ (Merge(n) \/ ExtendLeft(n) \/ ExtendRight(n) \/ InsertNew(n))
  /\ added' = added \cup {n}

Init == ranges = <<>> /\ added = {}

Next == \E n \in Seg : Add(n)

Spec == Init /\ [][Next]_vars

-----------------------------------------------------------------------------
TypeOK == ranges \in Seq([lo : Seg, hi : Seg]) /\ added \subseteq Seg

\* "a sorted list of non-overlapping, non-adjacent [lo, hi] ranges": between two
\* ranges there is a gap, which is what makes the binary search of Pos sound.
Canonical ==
  /\ \A i \in DOMAIN ranges : ranges[i].lo <= ranges[i].hi
  /\ \A i, k \in DOMAIN ranges : i < k => ranges[i].hi + 1 < ranges[k].lo

\* The ranges hold exactly the numbers that were added, through every merge.
CoversAdded ==
  \A n \in Seg : n \in added <=> \E i \in DOMAIN ranges : ranges[i].lo <= n /\ n <= ranges[i].hi

\* contains(n, length) answers for every run of segments ServeSegment and
\* proactiveGapFill ask about (length 1 and 2), and beyond.
ContainsIsExact ==
  \A n \in Seg : \A length \in 1..(LastSeg - n + 1) :
    ContainsRun(n, length) <=> n..(n + length - 1) \subseteq added

\* firstAvailableAfter of a missing segment is the end of its gap, so a seek
\* that encodes up to it meets no available segment.
GapEndsAtNextAvailable ==
  \A n \in Seg \ added :
    FirstAvailableAfter(n) = {m \in added : m > n /\ \A k \in added : k > n => m <= k}

=============================================================================
