---------------------------- MODULE LibraryProofs ----------------------------
(***************************************************************************)
(* Proofs about the library. First about the scan alone, for any paths,     *)
(* contents, mtimes, grain of the column, and number of changes, failures   *)
(* and crashes; then that the library is such a scan whatever the derived   *)
(* files do, and that no flag is set without files behind it.               *)
(***************************************************************************)
EXTENDS Library, TLAPS

\* The column holds an mtime's own tick or an earlier one, never a later.
LEMMA StoredIsEarlier ==
  ASSUME NEW t \in 0..MaxTime
  PROVE  Stored(t) \in 0..t
<1>1. t \in Int /\ t >= 0 /\ Grain \in Int /\ Grain > 0
  BY ScanAssumption
<1>2. (t \div Grain) \in Int /\ t \div Grain >= 0 /\ (t \div Grain) * Grain <= t
  BY <1>1
<1>3. (t \div Grain) * Grain >= 0 /\ (t \div Grain) * Grain \in Int
  BY <1>1, <1>2
<1> QED
  BY <1>1, <1>2, <1>3 DEF Stored

-----------------------------------------------------------------------------
(* Types *)

Files  == [content : Content \cup {None}, mtime : 0..MaxTime]
Rows   == [hash : Content \cup {None}, mtime : 0..MaxTime,
           missing : {"no", "yes", "old"}, meta : Content \cup {None, Blank}]
Places == [path : Path \cup {None}, mtime : 0..MaxTime, hash : Content \cup {None}]

\* TypeOK in three parts: the records, the bounded counters, the rest; and the
\* file being looked at has a path.
RecordTypes ==
  /\ file \in [Path -> Files] /\ row \in [Path -> Rows]
  /\ at \in Places /\ (at = Nowhere \/ at.path \in Path)
BoundTypes  == changes \in 0..MaxChanges /\ faults \in 0..MaxFaults /\ crashes \in 0..MaxCrashes
OtherTypes ==
  /\ pc \in {"idle", "walk", "mark", "flush", "batch", "again"}
  /\ todo \subseteq Path /\ seen \subseteq Path /\ buf \subseteq Path
  /\ sub \in [Path -> {"none", "queued", "running", "extracted"}]
  /\ lost \subseteq Path /\ raced \subseteq Path /\ backdated \subseteq Path
  /\ away \subseteq Path /\ disturbed \subseteq Path

LEMMA TypeParts == RecordTypes /\ BoundTypes /\ OtherTypes => TypeOK
  BY DEF TypeOK, RecordTypes, BoundTypes, OtherTypes, Files, Rows, Places

\* What the actions put into a record.
LEMMA Records ==
  ASSUME RecordTypes
  PROVE  /\ NoFile \in Files /\ NoRow \in Rows /\ Nowhere \in Places
         /\ \A c \in Content, t \in 0..MaxTime : [content |-> c, mtime |-> t] \in Files
         /\ \A p \in Path, x \in Files : [file EXCEPT ![p] = x] \in [Path -> Files]
         /\ \A p \in Path, x \in Rows : [row EXCEPT ![p] = x] \in [Path -> Rows]
         /\ \A p \in Path : /\ file[p] \in Files /\ row[p] \in Rows
                            /\ file[p].content \in Content \cup {None}
                            /\ file[p].mtime \in 0..MaxTime
         /\ at # Nowhere => /\ at.path \in Path /\ at.path # None
                            /\ Stored(at.mtime) \in 0..MaxTime /\ at.hash \in Content \cup {None}
         /\ \A p \in Path, m \in {"no", "yes", "old"} : [row EXCEPT ![p].missing = m] \in [Path -> Rows]
         /\ \A p \in Path, d \in Content \cup {None, Blank} : [row EXCEPT ![p].meta = d] \in [Path -> Rows]
<1>1. NoFile \in Files /\ NoRow \in Rows /\ Nowhere \in Places
  BY ScanAssumption DEF NoFile, NoRow, Nowhere, Files, Rows, Places
<1>2. \A c \in Content, t \in 0..MaxTime : [content |-> c, mtime |-> t] \in Files
  BY DEF Files
<1>3. /\ \A p \in Path, x \in Files : [file EXCEPT ![p] = x] \in [Path -> Files]
      /\ \A p \in Path, x \in Rows : [row EXCEPT ![p] = x] \in [Path -> Rows]
  BY DEF RecordTypes
<1>4. \A p \in Path : /\ file[p] \in Files /\ row[p] \in Rows
                     /\ file[p].content \in Content \cup {None}
                     /\ file[p].mtime \in 0..MaxTime
  BY DEF RecordTypes, Files
<1>5. \A p \in Path, m \in {"no", "yes", "old"} : [row EXCEPT ![p].missing = m] \in [Path -> Rows]
  BY DEF RecordTypes, Rows
<1>6. \A p \in Path, d \in Content \cup {None, Blank} : [row EXCEPT ![p].meta = d] \in [Path -> Rows]
  BY DEF RecordTypes, Rows
<1>7. at # Nowhere => /\ at.path \in Path /\ at.path # None
                      /\ Stored(at.mtime) \in 0..MaxTime /\ at.hash \in Content \cup {None}
  <2>1. at.mtime \in 0..MaxTime /\ at.hash \in Content \cup {None}
    BY DEF RecordTypes, Places
  <2>2. Stored(at.mtime) \in 0..MaxTime
    BY <2>1, StoredIsEarlier, ScanAssumption
  <2> QED
    BY <2>1, <2>2, ScanAssumption DEF RecordTypes
<1> QED
  BY <1>1, <1>2, <1>3, <1>4, <1>5, <1>6, <1>7

LEMMA BoundsStep ==
  ASSUME BoundTypes, [ScanNext]_scanVars
  PROVE  BoundTypes'
<1>1. /\ changes < MaxChanges => changes + 1 \in 0..MaxChanges
      /\ faults < MaxFaults => faults + 1 \in 0..MaxFaults
      /\ crashes < MaxCrashes => crashes + 1 \in 0..MaxCrashes
  BY ScanAssumption DEF BoundTypes
<1>2. \/ UNCHANGED bounds \/ Fault
      \/ changes < MaxChanges /\ changes' = changes + 1 /\ UNCHANGED <<faults, crashes>>
      \/ crashes < MaxCrashes /\ crashes' = crashes + 1 /\ UNCHANGED <<changes, faults>>
  BY DEF ScanNext, Disk, Walk, SubJobs, scanVars, bounds,
     Put, Remove, GrowOld, ScanStart, VisitAbsent, Visiting, VisitUnchanged, VisitChanged,
     VisitFails, ReadHash, Store, StoreFails, WalkEnd, WalkEndFails, Mark, MarkFails,
     ScanReturns, Flush, FlushFails, FlushEnd, SubStart, Extract, Extracted,
     ExtractNothing, SubFails, SubEnd, BatchEnd, Crash, DeleteRow, FaultElsewhere
<1> QED
  BY <1>1, <1>2 DEF BoundTypes, bounds, Fault

\* Which actions write a variable.
LEMMA Writers ==
  ASSUME [ScanNext]_scanVars
  PROVE  /\ \/ file' = file
            \/ \E p \in Path : Remove(p) \/ \E c \in Content, t \in 0..MaxTime : Put(p, c, t)
         /\ \/ row' = row \/ Store
            \/ \E p \in Path : \/ GrowOld(p) \/ VisitUnchanged(p) \/ VisitChanged(p) \/ Mark(p)
                               \/ Extract(p) \/ ExtractNothing(p) \/ DeleteRow(p)
         /\ \/ at' = at \/ ReadHash \/ Store \/ StoreFails \/ Crash
            \/ \E p \in Path : VisitChanged(p)
<1>1. \/ file' = file
      \/ \E p \in Path : Remove(p) \/ \E c \in Content, t \in 0..MaxTime : Put(p, c, t)
  BY DEF ScanNext, Disk, Walk, SubJobs, scanVars, bounds, history,
     GrowOld, ScanStart, VisitAbsent, Visiting, VisitUnchanged, VisitChanged,
     VisitFails, ReadHash, Store, StoreFails, WalkEnd, WalkEndFails, Mark, MarkFails,
     ScanReturns, Flush, FlushFails, FlushEnd, SubStart, Extract, Extracted,
     ExtractNothing, SubFails, SubEnd, BatchEnd, Crash, DeleteRow, FaultElsewhere, Fault
<1>2. \/ row' = row \/ Store
      \/ \E p \in Path : \/ GrowOld(p) \/ VisitUnchanged(p) \/ VisitChanged(p) \/ Mark(p)
                         \/ Extract(p) \/ ExtractNothing(p) \/ DeleteRow(p)
  BY DEF ScanNext, Disk, Walk, SubJobs, scanVars, bounds, history,
     Put, Remove, ScanStart, VisitAbsent, Visiting, VisitChanged,
     VisitFails, ReadHash, StoreFails, WalkEnd, WalkEndFails, MarkFails,
     ScanReturns, Flush, FlushFails, FlushEnd, SubStart, Extracted,
     SubFails, SubEnd, BatchEnd, Crash, FaultElsewhere, Fault
<1>3. \/ at' = at \/ ReadHash \/ Store \/ StoreFails \/ Crash
      \/ \E p \in Path : VisitChanged(p)
  BY DEF ScanNext, Disk, Walk, SubJobs, scanVars, bounds, history,
     Put, Remove, GrowOld, ScanStart, VisitAbsent, Visiting, VisitUnchanged, VisitChanged,
     VisitFails, WalkEnd, WalkEndFails, Mark, MarkFails,
     ScanReturns, Flush, FlushFails, FlushEnd, SubStart, Extract, Extracted,
     ExtractNothing, SubFails, SubEnd, BatchEnd, DeleteRow, FaultElsewhere, Fault
<1> QED
  BY <1>1, <1>2, <1>3

LEMMA RecordsStep ==
  ASSUME RecordTypes, [ScanNext]_scanVars
  PROVE  RecordTypes'
<1>1. file' \in [Path -> Files]
  <2>1. ASSUME NEW p \in Path, Remove(p) PROVE file' \in [Path -> Files]
    BY <2>1, Records DEF Remove
  <2>2. ASSUME NEW p \in Path, NEW c \in Content, NEW t \in 0..MaxTime, Put(p, c, t)
        PROVE  file' \in [Path -> Files]
    BY <2>2, Records DEF Put
  <2> QED
    BY <2>1, <2>2, Writers DEF RecordTypes
<1>2. row' \in [Path -> Rows]
  <2>1. CASE Store
    <3>1. at # Nowhere
      BY <2>1 DEF Store, Nowhere
    <3>2. /\ at.path \in Path /\ row[at.path] \in Rows
          /\ Stored(at.mtime) \in 0..MaxTime /\ at.hash \in Content \cup {None}
      BY <3>1, Records
    <3> DEFINE new == [row[at.path] EXCEPT !.hash = at.hash, !.mtime = Stored(at.mtime)]
    <3>3. new \in Rows
      BY <3>2 DEF Rows
    <3>4. row' = [row EXCEPT ![at.path] = new]
      BY <2>1 DEF Store
    <3> HIDE DEF new
    <3> QED
      BY <3>2, <3>3, <3>4, Records
  <2>2. ASSUME NEW p \in Path, Extract(p) \/ ExtractNothing(p) PROVE row' \in [Path -> Rows]
    <3>1. PICK d \in Content \cup {None, Blank} : Extracted(p, d)
      BY <2>2, Records DEF Extract, ExtractNothing
    <3> QED
      BY <3>1, Records DEF Extracted
  <2>3. ASSUME NEW p \in Path, GrowOld(p) \/ Mark(p) \/ VisitUnchanged(p) \/ VisitChanged(p) \/ DeleteRow(p)
        PROVE  row' \in [Path -> Rows]
    <3>1. \/ row' = row \/ row' = [row EXCEPT ![p] = NoRow]
          \/ \E m \in {"no", "yes", "old"} : row' = [row EXCEPT ![p].missing = m]
      BY <2>3 DEF GrowOld, Mark, VisitUnchanged, VisitChanged, Restored, DeleteRow
    <3>2. CASE \E m \in {"no", "yes", "old"} : row' = [row EXCEPT ![p].missing = m]
      <4>1. PICK m \in {"no", "yes", "old"} : row' = [row EXCEPT ![p].missing = m]
        BY <3>2
      <4>2. [row EXCEPT ![p].missing = m] \in [Path -> Rows]
        BY Records
      <4> QED
        BY <4>1, <4>2
    <3>3. CASE row' = row \/ row' = [row EXCEPT ![p] = NoRow]
      BY <3>3, Records DEF RecordTypes
    <3> QED
      BY <3>1, <3>2, <3>3
  <2> QED
    BY <2>1, <2>2, <2>3, Writers DEF RecordTypes
<1>3. at' \in Places /\ (at' = Nowhere \/ at'.path \in Path)
  <2>1. ASSUME NEW p \in Path, VisitChanged(p) PROVE at' \in Places /\ at'.path \in Path
    BY <2>1, Records DEF VisitChanged, Places
  <2>2. CASE ReadHash
    <3>1. at.path \in Path
      BY <2>2, Records DEF ReadHash
    <3> QED
      BY <2>2, <3>1, Records DEF ReadHash, RecordTypes, Places, Present
  <2> QED
    BY <2>1, <2>2, Writers, Records DEF Store, StoreFails, Crash, RecordTypes
<1> QED
  BY <1>1, <1>2, <1>3 DEF RecordTypes, Nowhere

LEMMA OthersStep ==
  ASSUME RecordTypes, OtherTypes, [ScanNext]_scanVars
  PROVE  OtherTypes'
<1>0. at # Nowhere => at.path \in Path
  BY Records
<1>1. ASSUME NEW p \in Path, NEW c \in Content, NEW t \in 0..MaxTime, Put(p, c, t) PROVE OtherTypes'
  BY <1>1 DEF OtherTypes, Put, Noted, bounds, history
<1>2. ASSUME NEW p \in Path, Remove(p) PROVE OtherTypes'
  BY <1>2 DEF OtherTypes, Remove, NoFile, Noted, bounds, history
<1>3. ASSUME NEW p \in Path, GrowOld(p) \/ VisitAbsent(p) \/ VisitUnchanged(p) \/ VisitChanged(p)
      PROVE  OtherTypes'
  BY <1>3 DEF OtherTypes, GrowOld, VisitAbsent, Visiting, VisitUnchanged, Restored,
     VisitChanged, bounds, history
<1>4. ASSUME NEW p \in Path, VisitFails(p) PROVE OtherTypes'
  BY <1>4 DEF OtherTypes, VisitFails, Visiting, Fault, bounds, history
<1>5. CASE ScanStart \/ WalkEnd \/ WalkEndFails \/ ScanReturns
  BY <1>5 DEF OtherTypes, ScanStart, WalkEnd, WalkEndFails, Fault, ScanReturns,
     bounds, history
<1>6. CASE ReadHash \/ Store \/ StoreFails
  BY <1>6, <1>0 DEF OtherTypes, ReadHash, Nowhere, Store, StoreFails, Fault, bounds, history
<1>7. ASSUME NEW p \in Path, Mark(p) \/ MarkFails(p) PROVE OtherTypes'
  BY <1>7 DEF OtherTypes, Mark, MarkFails, Fault, bounds, history
<1>8. ASSUME NEW S \in SUBSET buf, Flush(S) \/ FlushFails(S) PROVE OtherTypes'
  BY <1>8 DEF OtherTypes, Flush, FlushFails, Fault, bounds, history
<1>9. CASE FlushEnd \/ BatchEnd \/ FaultElsewhere
  BY <1>9 DEF OtherTypes, FlushEnd, BatchEnd, FaultElsewhere, Fault, bounds, history
<1>10. ASSUME NEW p \in Path, SubStart(p) \/ SubFails(p) \/ SubEnd(p) PROVE OtherTypes'
  BY <1>10 DEF OtherTypes, SubStart, SubFails, Fault, SubEnd, bounds, history
<1>11. ASSUME NEW p \in Path, Extract(p) \/ ExtractNothing(p) PROVE OtherTypes'
  BY <1>11 DEF OtherTypes, Extract, Extracted, ExtractNothing, Fault, bounds, history
<1>12. CASE Crash
  BY <1>12 DEF OtherTypes, Crash, Nowhere, bounds, history
<1>13. ASSUME NEW p \in Path, DeleteRow(p) PROVE OtherTypes'
  BY <1>13 DEF OtherTypes, DeleteRow, NoRow, bounds, history
<1>14. CASE UNCHANGED scanVars
  BY <1>14 DEF OtherTypes, scanVars, bounds, history
<1> QED
  BY <1>1, <1>2, <1>3, <1>4, <1>5, <1>6, <1>7, <1>8, <1>9, <1>10, <1>11, <1>12, <1>13, <1>14 DEF
     ScanNext, Disk, Walk, SubJobs

-----------------------------------------------------------------------------
(* Shape: an unknown row is empty, a file is looked at during the walk only,   *)
(* the rows to be marked exist, and so do those of sub-jobs under way, which   *)
(* there are in a batch only.                                                  *)

RowShape  == \A p \in Path : ~Known(p) => row[p] = NoRow
AtShape   == pc # "walk" => at = Nowhere
MarkShape == pc = "mark" => \A p \in todo : Known(p)
SubShape  == \A p \in Path : sub[p] \in {"running", "extracted"} => pc = "batch" /\ Known(p)
Shape     == RowShape /\ AtShape /\ MarkShape /\ SubShape

\* A row is known for good, but for DeleteRow.
LEMMA KnownStays ==
  ASSUME RecordTypes, [ScanNext]_scanVars, NEW q \in Path, Known(q)
  PROVE  Known(q)' \/ DeleteRow(q)
<1>1. CASE Store
  BY <1>1, Records DEF Store, Known, Nowhere, RecordTypes
<1>2. ASSUME NEW p \in Path, DeleteRow(p) PROVE Known(q)' \/ DeleteRow(q)
  BY <1>2 DEF DeleteRow, Known, RecordTypes
<1>3. ASSUME NEW p \in Path, Extract(p) \/ ExtractNothing(p) PROVE Known(q)'
  BY <1>3 DEF Extract, ExtractNothing, Extracted, Known, RecordTypes, Rows
<1>4. ASSUME NEW p \in Path, GrowOld(p) \/ VisitUnchanged(p) \/ VisitChanged(p) \/ Mark(p) PROVE Known(q)'
  BY <1>4 DEF GrowOld, VisitUnchanged, VisitChanged, Mark, Restored, Known, RecordTypes, Rows
<1> QED
  BY <1>1, <1>2, <1>3, <1>4, Writers DEF Known

LEMMA RowShapeStep ==
  ASSUME RecordTypes, Shape, [ScanNext]_scanVars
  PROVE  RowShape'
<1>1. CASE Store
  BY <1>1, Records DEF Store, Shape, RowShape, Known, Nowhere, RecordTypes, Rows
<1>2. ASSUME NEW p \in Path, DeleteRow(p) PROVE RowShape'
  BY <1>2 DEF DeleteRow, Shape, RowShape, Known, RecordTypes
<1>3. ASSUME NEW p \in Path, Extract(p) \/ ExtractNothing(p) PROVE RowShape'
  <2>1. Known(p)
    BY <1>3 DEF Extract, ExtractNothing, Extracted, Shape, SubShape
  <2> QED
    BY <1>3, <2>1 DEF Extract, ExtractNothing, Extracted, Shape, RowShape, Known, RecordTypes, Rows
<1>4. ASSUME NEW p \in Path, GrowOld(p) \/ VisitUnchanged(p) \/ VisitChanged(p) \/ Mark(p)
      PROVE  RowShape'
  <2>1. row' = row \/ Known(p)
    BY <1>4 DEF GrowOld, VisitUnchanged, VisitChanged, Mark, Shape, RowShape, MarkShape, NoRow
  <2>2. \A q \in Path : /\ row'[q].hash = row[q].hash
                        /\ q # p \/ row' = row => row'[q] = row[q]
    BY <1>4 DEF GrowOld, VisitUnchanged, VisitChanged, Mark, Restored, RecordTypes, Rows
  <2> QED
    BY <2>1, <2>2 DEF Shape, RowShape, Known
<1> QED
  BY <1>1, <1>2, <1>3, <1>4, Writers DEF Shape, RowShape, Known

LEMMA AtShapeStep ==
  ASSUME Shape, [ScanNext]_scanVars
  PROVE  AtShape'
<1>1. ASSUME NEW p \in Path, NEW c \in Content, NEW t \in 0..MaxTime, Put(p, c, t) PROVE AtShape'
  BY <1>1 DEF Shape, AtShape, Put, Noted, bounds, history
<1>2. ASSUME NEW p \in Path, Remove(p) \/ GrowOld(p) \/ DeleteRow(p) PROVE AtShape'
  BY <1>2 DEF Shape, AtShape, Remove, NoFile, Noted, GrowOld, DeleteRow, NoRow, bounds, history
<1>3. CASE ScanStart \/ ReadHash \/ Store \/ StoreFails \/ WalkEnd \/ WalkEndFails \/ ScanReturns
  BY <1>3 DEF Shape, AtShape, ScanStart, ReadHash, Nowhere, Store, StoreFails, Fault, WalkEnd,
     WalkEndFails, ScanReturns, bounds, history
<1>4. ASSUME NEW p \in Path, VisitAbsent(p) \/ VisitUnchanged(p) \/ VisitChanged(p)
             \/ VisitFails(p) \/ Mark(p) \/ MarkFails(p)
      PROVE  AtShape'
  BY <1>4 DEF Shape, AtShape, VisitAbsent, Visiting, VisitUnchanged, Restored, VisitChanged,
     VisitFails, Fault, Mark, MarkFails, bounds, history
<1>5. ASSUME NEW S \in SUBSET buf, Flush(S) \/ FlushFails(S) PROVE AtShape'
  BY <1>5 DEF Shape, AtShape, Flush, FlushFails, Fault, bounds, history
<1>6. CASE FlushEnd \/ BatchEnd \/ FaultElsewhere \/ Crash
  BY <1>6 DEF Shape, AtShape, FlushEnd, BatchEnd, FaultElsewhere, Fault, Crash, Nowhere, bounds,
     history
<1>7. ASSUME NEW p \in Path, SubStart(p) \/ SubFails(p) \/ SubEnd(p) \/ Extract(p) \/ ExtractNothing(p)
      PROVE  AtShape'
  BY <1>7 DEF Shape, AtShape, SubStart, SubFails, Fault, SubEnd, Extract, Extracted,
     ExtractNothing, bounds, history
<1>8. CASE UNCHANGED scanVars
  BY <1>8 DEF Shape, AtShape, scanVars, bounds, history
<1> QED
  BY <1>1, <1>2, <1>3, <1>4, <1>5, <1>6, <1>7, <1>8 DEF ScanNext, Disk, Walk, SubJobs

LEMMA MarkShapeStep ==
  ASSUME RecordTypes, OtherTypes, Shape, [ScanNext]_scanVars
  PROVE  MarkShape'
<1> SUFFICES ASSUME pc' = "mark", NEW q \in todo' PROVE q \in Path /\ Known(q) /\ ~DeleteRow(q)
  BY KnownStays DEF MarkShape
<1>1. ASSUME NEW p \in Path, NEW c \in Content, NEW t \in 0..MaxTime, Put(p, c, t)
      PROVE  q \in Path /\ Known(q) /\ ~DeleteRow(q)
  BY <1>1 DEF Shape, MarkShape, OtherTypes, DeleteRow, Put, Noted, bounds, history
<1>2. ASSUME NEW p \in Path, Remove(p) \/ GrowOld(p) \/ DeleteRow(p)
      PROVE  q \in Path /\ Known(q) /\ ~DeleteRow(q)
  BY <1>2 DEF Shape, MarkShape, OtherTypes, DeleteRow, Remove, NoFile, Noted, GrowOld, NoRow,
     bounds, history
<1>3. CASE ScanStart \/ ReadHash \/ Store \/ StoreFails \/ WalkEnd \/ WalkEndFails \/ ScanReturns
  BY <1>3 DEF Shape, MarkShape, OtherTypes, DeleteRow, ScanStart, ReadHash, Nowhere, Store,
     StoreFails, Fault, WalkEnd, WalkEndFails, ScanReturns, bounds, history
<1>4. ASSUME NEW p \in Path, VisitAbsent(p) \/ VisitUnchanged(p) \/ VisitChanged(p)
             \/ VisitFails(p) \/ Mark(p) \/ MarkFails(p)
      PROVE  q \in Path /\ Known(q) /\ ~DeleteRow(q)
  BY <1>4 DEF Shape, MarkShape, OtherTypes, DeleteRow, VisitAbsent, Visiting, VisitUnchanged,
     Restored, VisitChanged, VisitFails, Fault, Mark, MarkFails, bounds, history
<1>5. ASSUME NEW S \in SUBSET buf, Flush(S) \/ FlushFails(S)
      PROVE  q \in Path /\ Known(q) /\ ~DeleteRow(q)
  BY <1>5 DEF Shape, MarkShape, OtherTypes, DeleteRow, Flush, FlushFails, Fault, bounds, history
<1>6. CASE FlushEnd \/ BatchEnd \/ FaultElsewhere \/ Crash
  BY <1>6 DEF Shape, MarkShape, OtherTypes, DeleteRow, FlushEnd, BatchEnd, FaultElsewhere,
     Fault, Crash, Nowhere, bounds, history
<1>7. ASSUME NEW p \in Path, SubStart(p) \/ SubFails(p) \/ SubEnd(p) \/ Extract(p) \/ ExtractNothing(p)
      PROVE  q \in Path /\ Known(q) /\ ~DeleteRow(q)
  BY <1>7 DEF Shape, MarkShape, OtherTypes, DeleteRow, SubStart, SubFails, Fault, SubEnd,
     Extract, Extracted, ExtractNothing, bounds, history
<1>8. CASE UNCHANGED scanVars
  BY <1>8 DEF Shape, MarkShape, OtherTypes, DeleteRow, scanVars, bounds, history
<1> QED
  BY <1>1, <1>2, <1>3, <1>4, <1>5, <1>6, <1>7, <1>8 DEF ScanNext, Disk, Walk, SubJobs

LEMMA SubShapeStep ==
  ASSUME RecordTypes, OtherTypes, Shape, [ScanNext]_scanVars
  PROVE  SubShape'
<1> SUFFICES ASSUME NEW q \in Path, sub'[q] \in {"running", "extracted"}
             PROVE  pc' = "batch" /\ Known(q) /\ ~DeleteRow(q)
  BY KnownStays DEF SubShape
<1>1. ASSUME NEW p \in Path, NEW c \in Content, NEW t \in 0..MaxTime, Put(p, c, t)
      PROVE  pc' = "batch" /\ Known(q) /\ ~DeleteRow(q)
  BY <1>1 DEF Shape, SubShape, OtherTypes, DeleteRow, Put, Noted, bounds, history
<1>2. ASSUME NEW p \in Path, Remove(p) \/ GrowOld(p) \/ DeleteRow(p)
      PROVE  pc' = "batch" /\ Known(q) /\ ~DeleteRow(q)
  BY <1>2 DEF Shape, SubShape, OtherTypes, DeleteRow, Remove, NoFile, Noted, GrowOld, NoRow,
     bounds, history
<1>3. CASE ScanStart \/ ReadHash \/ Store \/ StoreFails \/ WalkEnd \/ WalkEndFails \/ ScanReturns
  BY <1>3 DEF Shape, SubShape, OtherTypes, DeleteRow, ScanStart, ReadHash, Nowhere, Store,
     StoreFails, Fault, WalkEnd, WalkEndFails, ScanReturns, bounds, history
<1>4. ASSUME NEW p \in Path, VisitAbsent(p) \/ VisitUnchanged(p) \/ VisitChanged(p)
             \/ VisitFails(p) \/ Mark(p) \/ MarkFails(p)
      PROVE  pc' = "batch" /\ Known(q) /\ ~DeleteRow(q)
  BY <1>4 DEF Shape, SubShape, OtherTypes, DeleteRow, VisitAbsent, Visiting, VisitUnchanged,
     Restored, VisitChanged, VisitFails, Fault, Mark, MarkFails, bounds, history
<1>5. ASSUME NEW S \in SUBSET buf, Flush(S) \/ FlushFails(S)
      PROVE  pc' = "batch" /\ Known(q) /\ ~DeleteRow(q)
  BY <1>5 DEF Shape, SubShape, OtherTypes, DeleteRow, Flush, FlushFails, Fault, bounds, history
<1>6. CASE FlushEnd \/ BatchEnd \/ FaultElsewhere \/ Crash
  BY <1>6 DEF Shape, SubShape, OtherTypes, DeleteRow, FlushEnd, BatchEnd, FaultElsewhere, Fault,
     Crash, Nowhere, bounds, history
<1>7. ASSUME NEW p \in Path, SubStart(p) \/ SubFails(p) \/ SubEnd(p)
      PROVE  pc' = "batch" /\ Known(q) /\ ~DeleteRow(q)
  BY <1>7 DEF Shape, SubShape, OtherTypes, DeleteRow, SubStart, SubFails, Fault, SubEnd, bounds,
     history
<1>8. ASSUME NEW p \in Path, Extract(p) \/ ExtractNothing(p)
      PROVE  pc' = "batch" /\ Known(q) /\ ~DeleteRow(q)
  BY <1>8 DEF Shape, SubShape, OtherTypes, DeleteRow, Extract, Extracted, ExtractNothing, Fault,
     bounds, history
<1>9. CASE UNCHANGED scanVars
  BY <1>9 DEF Shape, SubShape, OtherTypes, DeleteRow, scanVars, bounds, history
<1> QED
  BY <1>1, <1>2, <1>3, <1>4, <1>5, <1>6, <1>7, <1>8, <1>9 DEF ScanNext, Disk, Walk, SubJobs

LEMMA ShapeStep ==
  ASSUME RecordTypes, OtherTypes, Shape, [ScanNext]_scanVars
  PROVE  Shape'
  BY RowShapeStep, AtShapeStep, MarkShapeStep, SubShapeStep DEF Shape

-----------------------------------------------------------------------------
(* Metadata *)

\* What excuses metadata that is not of the row's content, and the invariant of
\* one path.
Excused(q)   == Pending(q) \/ q \in lost \/ q \in raced
MetaFits(q)  == Known(q) /\ row[q].meta \notin {None, row[q].hash} => Excused(q)

LEMMA MetaStep ==
  ASSUME RecordTypes, OtherTypes, Shape, NEW q \in Path, MetaFits(q), [ScanNext]_scanVars
  PROVE  MetaFits(q)'
<1>1. ASSUME NEW p \in Path, NEW c \in Content, NEW t \in 0..MaxTime, Put(p, c, t)
      PROVE  MetaFits(q)'
  BY <1>1 DEF MetaFits, Excused, Pending, Known, Put, Noted, bounds, history
<1>2. ASSUME NEW p \in Path, Remove(p) PROVE MetaFits(q)'
  BY <1>2 DEF MetaFits, Excused, Pending, Known, Remove, NoFile, Noted, bounds, history
<1>3. ASSUME NEW p \in Path, GrowOld(p) PROVE MetaFits(q)'
  BY <1>3 DEF MetaFits, Excused, Pending, Known, GrowOld, RecordTypes, Rows, bounds, history
<1>4. CASE ScanStart \/ ReadHash \/ WalkEnd \/ ScanReturns \/ StoreFails
  BY <1>4 DEF MetaFits, Excused, Pending, Known, ScanStart, ReadHash, Nowhere, WalkEnd,
     ScanReturns, StoreFails, Fault, bounds, history
<1>5. ASSUME NEW p \in Path, VisitAbsent(p) \/ VisitFails(p) PROVE MetaFits(q)'
  BY <1>5 DEF MetaFits, Excused, Pending, Known, VisitAbsent, Visiting, VisitFails, Fault,
     bounds, history
<1>6. ASSUME NEW p \in Path, VisitUnchanged(p) \/ VisitChanged(p) PROVE MetaFits(q)'
  BY <1>6 DEF MetaFits, Excused, Pending, Known, VisitUnchanged, Visiting, Restored,
     VisitChanged, RecordTypes, Rows, bounds, history
<1>7. CASE Store
  BY <1>7, Records DEF MetaFits, Excused, Pending, Known, Store, Nowhere, RecordTypes, Rows,
     Shape, RowShape, NoRow, HasMetadata, bounds, history
<1>8. ASSUME NEW p \in Path, Mark(p) \/ MarkFails(p) PROVE MetaFits(q)'
  BY <1>8 DEF MetaFits, Excused, Pending, Known, Mark, MarkFails, Fault, RecordTypes, Rows,
     bounds, history
<1>9. CASE WalkEndFails
  BY <1>9 DEF MetaFits, Excused, Pending, Known, WalkEndFails, Fault, bounds, history
<1>10. ASSUME NEW S \in SUBSET buf, Flush(S) \/ FlushFails(S) PROVE MetaFits(q)'
  BY <1>10 DEF MetaFits, Excused, Pending, Known, Flush, FlushFails, Fault, OtherTypes, bounds,
     history
<1>11. CASE FlushEnd \/ BatchEnd \/ FaultElsewhere
  BY <1>11 DEF MetaFits, Excused, Pending, Known, FlushEnd, BatchEnd, FaultElsewhere, Fault,
     bounds, history
<1>12. ASSUME NEW p \in Path, SubStart(p) \/ SubFails(p) \/ SubEnd(p) PROVE MetaFits(q)'
  BY <1>12 DEF MetaFits, Excused, Pending, Known, SubStart, SubFails, Fault, SubEnd, OtherTypes,
     bounds, history
<1>13. ASSUME NEW p \in Path, Extract(p) \/ ExtractNothing(p) PROVE MetaFits(q)'
  BY <1>13 DEF MetaFits, Excused, Pending, Known, Extract, Extracted, ExtractNothing, Fault,
     OtherTypes, RecordTypes, Rows, bounds, history
<1>14. CASE Crash
  BY <1>14 DEF MetaFits, Excused, Pending, Known, Crash, Nowhere, OtherTypes, bounds, history
<1>15. ASSUME NEW p \in Path, DeleteRow(p) PROVE MetaFits(q)'
  BY <1>15 DEF MetaFits, Excused, Pending, Known, DeleteRow, NoRow, RecordTypes, Rows, bounds,
     history
<1>16. CASE UNCHANGED scanVars
  BY <1>16 DEF MetaFits, Excused, Pending, Known, scanVars, bounds, history
<1> QED
  BY <1>1, <1>2, <1>3, <1>4, <1>5, <1>6, <1>7, <1>8, <1>9, <1>10, <1>11, <1>12, <1>13, <1>14,
     <1>15, <1>16 DEF ScanNext, Disk, Walk, SubJobs

-----------------------------------------------------------------------------
(* Changes *)

\* The hash computed of the file being looked at is of content with at.mtime or
\* of a later one; the row keeps both.
AtDetectable(q) ==
  at.path = q /\ at.hash # None /\ Present(q) /\ file[q].content # at.hash
    => file[q].mtime > at.mtime \/ q \in backdated
RowDetectable(q) ==
  Present(q) /\ Known(q) /\ file[q].content # row[q].hash
    => file[q].mtime > row[q].mtime \/ q \in backdated
Detectable(q) == AtDetectable(q) /\ RowDetectable(q)

LEMMA DetectableStep ==
  ASSUME RecordTypes, Shape, NEW q \in Path, Detectable(q), [ScanNext]_scanVars
  PROVE  Detectable(q)'
<1>a. at # Nowhere => Stored(at.mtime) \in 0..at.mtime /\ at.mtime \in 0..MaxTime
  BY StoredIsEarlier DEF RecordTypes, Places
<1>1. ASSUME NEW p \in Path, NEW c \in Content, NEW t \in 0..MaxTime, Put(p, c, t)
      PROVE  Detectable(q)'
  BY <1>1 DEF Detectable, AtDetectable, RowDetectable, Known, Present, Put, Noted, RecordTypes,
     Files, Newest, bounds, history
<1>2. ASSUME NEW p \in Path, Remove(p) PROVE Detectable(q)'
  BY <1>2 DEF Detectable, AtDetectable, RowDetectable, Known, Present, Remove, NoFile, Noted,
     RecordTypes, Files, bounds, history
<1>3. ASSUME NEW p \in Path, GrowOld(p) PROVE Detectable(q)'
  BY <1>3 DEF Detectable, AtDetectable, RowDetectable, Known, Present, GrowOld, RecordTypes,
     Rows, bounds, history
<1>4. CASE ScanStart \/ WalkEnd \/ WalkEndFails \/ ScanReturns
  BY <1>4 DEF Detectable, AtDetectable, RowDetectable, Known, Present, ScanStart, WalkEnd,
     WalkEndFails, Fault, ScanReturns, bounds, history
<1>5. ASSUME NEW p \in Path, VisitAbsent(p) \/ VisitFails(p) \/ MarkFails(p) PROVE Detectable(q)'
  BY <1>5 DEF Detectable, AtDetectable, RowDetectable, Known, Present, VisitAbsent, Visiting,
     VisitFails, Fault, MarkFails, bounds, history
<1>6. ASSUME NEW p \in Path, VisitUnchanged(p) \/ Mark(p) PROVE Detectable(q)'
  BY <1>6 DEF Detectable, AtDetectable, RowDetectable, Known, Present, VisitUnchanged, Visiting,
     Restored, Mark, RecordTypes, Rows, bounds, history
<1>7. ASSUME NEW p \in Path, VisitChanged(p) PROVE Detectable(q)'
  BY <1>7 DEF Detectable, AtDetectable, RowDetectable, Known, Present, VisitChanged, Visiting,
     Restored, RecordTypes, Rows, bounds, history
<1>8. CASE ReadHash
  BY <1>8 DEF Detectable, AtDetectable, RowDetectable, Known, Present, ReadHash, Nowhere,
     RecordTypes, Places, bounds, history
<1>9. CASE Store
  BY <1>9, Records, <1>a DEF Detectable, AtDetectable, RowDetectable, Known, Present, Store,
     Nowhere, RecordTypes, Rows, bounds, history
<1>10. CASE StoreFails \/ Crash
  BY <1>10 DEF Detectable, AtDetectable, RowDetectable, Known, Present, StoreFails, Fault,
     Nowhere, Crash, bounds, history
<1>11. ASSUME NEW S \in SUBSET buf, Flush(S) \/ FlushFails(S) PROVE Detectable(q)'
  BY <1>11 DEF Detectable, AtDetectable, RowDetectable, Known, Present, Flush, FlushFails,
     Fault, bounds, history
<1>12. CASE FlushEnd \/ BatchEnd \/ FaultElsewhere
  BY <1>12 DEF Detectable, AtDetectable, RowDetectable, Known, Present, FlushEnd, BatchEnd,
     FaultElsewhere, Fault, bounds, history
<1>13. ASSUME NEW p \in Path, SubStart(p) \/ SubFails(p) \/ SubEnd(p) PROVE Detectable(q)'
  BY <1>13 DEF Detectable, AtDetectable, RowDetectable, Known, Present, SubStart, SubFails,
     Fault, SubEnd, bounds, history
<1>14. ASSUME NEW p \in Path, Extract(p) \/ ExtractNothing(p) PROVE Detectable(q)'
  BY <1>14 DEF Detectable, AtDetectable, RowDetectable, Known, Present, Extract, Extracted,
     ExtractNothing, Fault, RecordTypes, Rows, bounds, history
<1>15. ASSUME NEW p \in Path, DeleteRow(p) PROVE Detectable(q)'
  BY <1>15 DEF Detectable, AtDetectable, RowDetectable, Known, Present, DeleteRow, NoRow,
     RecordTypes, Rows, Shape, AtShape, Nowhere, bounds, history
<1>16. CASE UNCHANGED scanVars
  BY <1>16 DEF Detectable, AtDetectable, RowDetectable, Known, Present, scanVars, bounds, history
<1> QED
  BY <1>1, <1>2, <1>3, <1>4, <1>5, <1>6, <1>7, <1>8, <1>9, <1>10, <1>11, <1>12, <1>13, <1>14,
     <1>15, <1>16 DEF ScanNext, Disk, Walk, SubJobs

-----------------------------------------------------------------------------
(* Exactness *)

\* What the walk has made of a path that stood still: not come to it yet, at it,
\* or done with it; what the marking then leaves to do; and what is there in the
\* end.
Found(q) == Known(q) /\ row[q].missing = "no" /\ (row[q].hash = file[q].content \/ q \in backdated)

WalkExact(q) ==
  pc = "walk" =>
    /\ q \in todo => q \notin seen
    /\ q \notin todo /\ at.path # q =>
         IF Present(q) THEN q \in seen /\ Found(q) ELSE q \notin seen
    /\ at.path = q => Present(q) /\ q \in seen /\ row[q].missing = "no"
                      /\ at.hash \in {None, file[q].content}
MarkExact(q) ==
  pc = "mark" =>
    IF Present(q) THEN q \in seen /\ Found(q)
    ELSE q \notin seen /\ (Known(q) /\ row[q].missing = "no" => q \in todo)
FlushExact(q) ==
  pc = "flush" =>
    IF Present(q)
      THEN row[q].missing = "no" /\ (row[q].hash = file[q].content \/ q \in backdated)
      ELSE Known(q) => row[q].missing # "no"

\* A path is looked at once.
AtOnce(q) == pc = "walk" /\ q \in todo => at.path # q

Exact(q) == AtOnce(q) /\ (q \notin disturbed => WalkExact(q) /\ MarkExact(q) /\ FlushExact(q))

LEMMA ExactStep ==
  ASSUME RecordTypes, OtherTypes, Shape, NEW q \in Path, Detectable(q), Exact(q), [ScanNext]_scanVars
  PROVE  Exact(q)'
<1>b. None \notin Path
  BY ScanAssumption
<1>c. \A p \in Path : sub[p] = "running" => pc = "batch"
  BY DEF Shape, SubShape
<1>1. ASSUME NEW p \in Path, NEW c \in Content, NEW t \in 0..MaxTime, Put(p, c, t) PROVE Exact(q)'
  BY <1>1 DEF Exact, AtOnce, WalkExact, MarkExact, FlushExact, Found, Known, Present, Put,
     Noted, RecordTypes, Files, bounds, history
<1>2. ASSUME NEW p \in Path, Remove(p) PROVE Exact(q)'
  BY <1>2 DEF Exact, AtOnce, WalkExact, MarkExact, FlushExact, Found, Known, Present, Remove,
     NoFile, Noted, RecordTypes, Files, bounds, history
<1>3. ASSUME NEW p \in Path, GrowOld(p) PROVE Exact(q)'
  BY <1>3 DEF Exact, AtOnce, WalkExact, MarkExact, FlushExact, Found, Known, Present, GrowOld,
     RecordTypes, Rows, bounds, history
<1>4. CASE ScanStart
  BY <1>4, <1>b DEF Exact, AtOnce, WalkExact, MarkExact, FlushExact, Found, Known, Present,
     ScanStart, Shape, AtShape, Nowhere, bounds, history
<1>5. ASSUME NEW p \in Path, VisitAbsent(p) PROVE Exact(q)'
  BY <1>5, <1>b DEF Exact, AtOnce, WalkExact, MarkExact, FlushExact, Found, Known, Present,
     VisitAbsent, Visiting, Nowhere, bounds, history
<1>6. ASSUME NEW p \in Path, VisitFails(p) PROVE Exact(q)'
  BY <1>6 DEF Exact, AtOnce, WalkExact, MarkExact, FlushExact, Found, Known, Present,
     VisitFails, Visiting, Fault, bounds, history
<1>7. ASSUME NEW p \in Path, VisitUnchanged(p) PROVE Exact(q)'
  <2>1. /\ pc = "walk" /\ pc' = "walk" /\ at = Nowhere /\ at' = at /\ todo' = todo \ {p}
        /\ file' = file /\ backdated' = backdated /\ disturbed' = disturbed
        /\ row'[q].hash = row[q].hash
    BY <1>7 DEF VisitUnchanged, Visiting, Restored, RecordTypes, Rows, history
  <2>2. CASE q # p
    <3>1. row'[q] = row[q] /\ (q \in seen' <=> q \in seen)
      BY <1>7, <2>2 DEF VisitUnchanged, Restored, RecordTypes
    <3> QED
      BY <2>1, <2>2, <3>1, <1>b DEF Exact, AtOnce, WalkExact, MarkExact, FlushExact, Found, Known,
         Present, Nowhere
  <2>3. CASE q = p
    <3>1. Present(q) /\ Known(q) /\ q \in seen' /\ row'[q].missing = "no"
      BY <1>7, <2>3 DEF VisitUnchanged, Restored, RecordTypes, Rows
    <3>2. file[q].content = row[q].hash \/ q \in backdated
      <4>1. file[q].mtime <= row[q].mtime /\ file[q].mtime \in Int /\ row[q].mtime \in Int
        BY <1>7, <2>3 DEF VisitUnchanged, RecordTypes, Files, Rows
      <4> QED
        BY <3>1, <4>1 DEF Detectable, RowDetectable
    <3> QED
      BY <2>1, <2>3, <3>1, <3>2, <1>b DEF Exact, AtOnce, WalkExact, MarkExact, FlushExact, Found, Known,
         Present, Nowhere
  <2> QED
    BY <2>2, <2>3
<1>8. ASSUME NEW p \in Path, VisitChanged(p) PROVE Exact(q)'
  BY <1>8, <1>b DEF Exact, AtOnce, WalkExact, MarkExact, FlushExact, Found, Known, Present,
     VisitChanged, Visiting, Restored, RecordTypes, Rows, Nowhere, Shape, RowShape, NoRow, bounds,
     history
<1>9. CASE ReadHash
  BY <1>9, <1>b DEF Exact, AtOnce, WalkExact, MarkExact, FlushExact, Found, Known, Present,
     ReadHash, Nowhere, RecordTypes, Places, bounds, history
<1>10. CASE Store
  <2>1. /\ at # Nowhere /\ at.path \in Path /\ at' = Nowhere /\ pc = "walk" /\ pc' = "walk"
        /\ todo' = todo /\ seen' = seen /\ file' = file
        /\ backdated' = backdated /\ disturbed' = disturbed
    BY <1>10, Records DEF Store, Nowhere, history, Shape, AtShape
  <2>2. CASE q # at.path
    <3>1. row'[q] = row[q]
      BY <1>10, <2>2 DEF Store, RecordTypes
    <3> QED
      BY <2>1, <2>2, <3>1, <1>b DEF Exact, AtOnce, WalkExact, MarkExact, FlushExact, Found, Known,
         Present, Nowhere
  <2>3. CASE q = at.path
    <3>1. row'[q].hash = at.hash /\ at.hash # None /\ row'[q].missing = row[q].missing
      BY <1>10, <2>3 DEF Store, RecordTypes, Rows
    <3> QED
      BY <2>1, <2>3, <3>1, <1>b DEF Exact, AtOnce, WalkExact, MarkExact, FlushExact, Found, Known,
         Present, Nowhere
  <2> QED
    BY <2>2, <2>3
<1>11. CASE StoreFails
  BY <1>11, <1>b DEF Exact, AtOnce, WalkExact, MarkExact, FlushExact, Found, Known, Present,
     StoreFails, Fault, Nowhere, bounds, history
<1>12. CASE WalkEnd
  BY <1>12, <1>b DEF Exact, AtOnce, WalkExact, MarkExact, FlushExact, Found, Known, Present,
     WalkEnd, Nowhere, bounds, history
<1>13. CASE WalkEndFails \/ Crash
  BY <1>13 DEF Exact, AtOnce, WalkExact, MarkExact, FlushExact, Found, Known, Present,
     WalkEndFails, Fault, Crash, Nowhere, bounds, history
<1>14. ASSUME NEW p \in Path, Mark(p) PROVE Exact(q)'
  BY <1>14 DEF Exact, AtOnce, WalkExact, MarkExact, FlushExact, Found, Known, Present, Mark,
     RecordTypes, Rows, bounds, history
<1>15. ASSUME NEW p \in Path, MarkFails(p) PROVE Exact(q)'
  BY <1>15 DEF Exact, AtOnce, WalkExact, MarkExact, FlushExact, Found, Known, Present,
     MarkFails, Fault, bounds, history
<1>16. CASE ScanReturns
  BY <1>16 DEF Exact, AtOnce, WalkExact, MarkExact, FlushExact, Found, Known, Present,
     ScanReturns, bounds, history
<1>17. ASSUME NEW S \in SUBSET buf, Flush(S) \/ FlushFails(S) PROVE Exact(q)'
  BY <1>17 DEF Exact, AtOnce, WalkExact, MarkExact, FlushExact, Found, Known, Present, Flush,
     FlushFails, Fault, bounds, history
<1>18. CASE FlushEnd \/ BatchEnd \/ FaultElsewhere
  BY <1>18 DEF Exact, AtOnce, WalkExact, MarkExact, FlushExact, Found, Known, Present, FlushEnd,
     BatchEnd, FaultElsewhere, Fault, bounds, history
<1>19. ASSUME NEW p \in Path, SubStart(p) \/ SubFails(p) \/ SubEnd(p) PROVE Exact(q)'
  BY <1>19 DEF Exact, AtOnce, WalkExact, MarkExact, FlushExact, Found, Known, Present, SubStart,
     SubFails, Fault, SubEnd, bounds, history
<1>20. ASSUME NEW p \in Path, Extract(p) \/ ExtractNothing(p) PROVE Exact(q)'
  BY <1>20, <1>c DEF Exact, AtOnce, WalkExact, MarkExact, FlushExact, Found, Known, Present,
     Extract, Extracted, ExtractNothing, Fault, RecordTypes, Rows, bounds, history
<1>21. ASSUME NEW p \in Path, DeleteRow(p) PROVE Exact(q)'
  BY <1>21 DEF Exact, AtOnce, WalkExact, MarkExact, FlushExact, Found, Known, Present,
     DeleteRow, NoRow, bounds, history
<1>22. CASE UNCHANGED scanVars
  BY <1>22 DEF Exact, AtOnce, WalkExact, MarkExact, FlushExact, Found, Known, Present, scanVars, bounds, history
<1> QED
  BY <1>1, <1>2, <1>3, <1>4, <1>5, <1>6, <1>7, <1>8, <1>9, <1>10, <1>11, <1>12, <1>13, <1>14,
     <1>15, <1>16, <1>17, <1>18, <1>19, <1>20, <1>21, <1>22 DEF ScanNext, Disk, Walk, SubJobs

-----------------------------------------------------------------------------
(* Absence *)

\* A path that is not seen was away.
AwayNoted(q) ==
  /\ pc = "walk" => (~Present(q) \/ (q \notin todo /\ q \notin seen) => q \in away)
  /\ pc = "mark" => (q \notin seen => q \in away)

LEMMA AwayStep ==
  ASSUME NEW q \in Path, AwayNoted(q), RecordTypes, [ScanNext]_scanVars
  PROVE  AwayNoted(q)'
<1>1. ASSUME NEW p \in Path, NEW c \in Content, NEW t \in 0..MaxTime, Put(p, c, t)
      PROVE  AwayNoted(q)'
  BY <1>1, ScanAssumption DEF AwayNoted, Present, Put, Noted, RecordTypes, Files, bounds,
     history
<1>2. ASSUME NEW p \in Path, Remove(p) PROVE AwayNoted(q)'
  BY <1>2 DEF AwayNoted, Present, Remove, NoFile, Noted, RecordTypes, Files, bounds, history
<1>3. ASSUME NEW p \in Path, GrowOld(p) \/ DeleteRow(p) PROVE AwayNoted(q)'
  BY <1>3 DEF AwayNoted, Present, GrowOld, DeleteRow, NoRow, bounds, history
<1>4. CASE ScanStart
  BY <1>4 DEF AwayNoted, Present, ScanStart, bounds, history
<1>5. ASSUME NEW p \in Path, VisitAbsent(p) \/ VisitUnchanged(p) \/ VisitChanged(p)
      PROVE  AwayNoted(q)'
  BY <1>5 DEF AwayNoted, Present, VisitAbsent, Visiting, VisitUnchanged, Restored, VisitChanged,
     bounds, history
<1>6. ASSUME NEW p \in Path, VisitFails(p) PROVE AwayNoted(q)'
  BY <1>6 DEF AwayNoted, Present, VisitFails, Visiting, Fault, bounds, history
<1>7. CASE ReadHash \/ Store \/ StoreFails
  BY <1>7 DEF AwayNoted, Present, ReadHash, Nowhere, Store, StoreFails, Fault, bounds, history
<1>8. CASE WalkEnd
  BY <1>8 DEF AwayNoted, Present, WalkEnd, bounds, history
<1>9. CASE WalkEndFails \/ Crash
  BY <1>9 DEF AwayNoted, Present, WalkEndFails, Fault, Crash, Nowhere, bounds, history
<1>10. ASSUME NEW p \in Path, Mark(p) \/ MarkFails(p) PROVE AwayNoted(q)'
  BY <1>10 DEF AwayNoted, Present, Mark, MarkFails, Fault, bounds, history
<1>11. CASE ScanReturns
  BY <1>11 DEF AwayNoted, Present, ScanReturns, bounds, history
<1>12. ASSUME NEW S \in SUBSET buf, Flush(S) \/ FlushFails(S) PROVE AwayNoted(q)'
  BY <1>12 DEF AwayNoted, Present, Flush, FlushFails, Fault, bounds, history
<1>13. CASE FlushEnd \/ BatchEnd \/ FaultElsewhere
  BY <1>13 DEF AwayNoted, Present, FlushEnd, BatchEnd, FaultElsewhere, Fault, bounds, history
<1>14. ASSUME NEW p \in Path, SubStart(p) \/ SubFails(p) \/ SubEnd(p) \/ Extract(p) \/ ExtractNothing(p)
      PROVE  AwayNoted(q)'
  BY <1>14 DEF AwayNoted, Present, SubStart, SubFails, Fault, SubEnd, Extract, Extracted,
     ExtractNothing, bounds, history
<1>15. CASE UNCHANGED scanVars
  BY <1>15 DEF AwayNoted, Present, scanVars, bounds, history
<1> QED
  BY <1>1, <1>2, <1>3, <1>4, <1>5, <1>6, <1>7, <1>8, <1>9, <1>10, <1>11, <1>12, <1>13, <1>14,
     <1>15 DEF ScanNext, Disk, Walk, SubJobs

-----------------------------------------------------------------------------
(* The inductive invariant and what follows from it *)

ScanInv ==
  /\ RecordTypes /\ BoundTypes /\ OtherTypes /\ Shape
  /\ \A q \in Path : MetaFits(q) /\ Detectable(q) /\ Exact(q) /\ AwayNoted(q)

LEMMA InitInv == ScanInit => ScanInv
<1> SUFFICES ASSUME ScanInit PROVE ScanInv
  OBVIOUS
<1>1. RecordTypes
  <2>1. NoFile \in Files /\ NoRow \in Rows /\ Nowhere \in Places
    BY ScanAssumption DEF NoFile, NoRow, Nowhere, Files, Rows, Places
  <2> QED
    BY <2>1 DEF ScanInit, RecordTypes
<1>2. BoundTypes /\ OtherTypes
  BY ScanAssumption DEF ScanInit, BoundTypes, OtherTypes
<1>3. Shape
  BY DEF ScanInit, Shape, RowShape, AtShape, MarkShape, SubShape, Known, NoRow
<1>4. ASSUME NEW q \in Path PROVE MetaFits(q) /\ Detectable(q) /\ Exact(q) /\ AwayNoted(q)
  BY DEF ScanInit, MetaFits, Excused, Pending, Known, Present, NoRow, NoFile, Nowhere,
         Detectable, AtDetectable, RowDetectable,
         Exact, AtOnce, WalkExact, MarkExact, FlushExact, AwayNoted
<1> QED
  BY <1>1, <1>2, <1>3, <1>4 DEF ScanInv

LEMMA InvStep == ScanInv /\ [ScanNext]_scanVars => ScanInv'
<1> SUFFICES ASSUME ScanInv, [ScanNext]_scanVars PROVE ScanInv'
  OBVIOUS
<1>1. RecordTypes' /\ BoundTypes' /\ OtherTypes'
  BY RecordsStep, BoundsStep, OthersStep DEF ScanInv
<1>2. Shape'
  BY ShapeStep DEF ScanInv
<1>3. ASSUME NEW q \in Path PROVE MetaFits(q)' /\ Detectable(q)' /\ Exact(q)' /\ AwayNoted(q)'
  <2>1. RecordTypes /\ OtherTypes /\ Shape /\ MetaFits(q) /\ Detectable(q) /\ Exact(q) /\ AwayNoted(q)
    BY DEF ScanInv
  <2> QED
    BY <2>1, MetaStep, DetectableStep, ExactStep, AwayStep
<1> QED
  BY <1>1, <1>2, <1>3 DEF ScanInv

LEMMA InvHolds == ScanSpec => []ScanInv
  BY InitInv, InvStep, PTL DEF ScanSpec

\* The types of the state, whatever the disk, the job and its sub-jobs do.
THEOREM ScanTypes == ScanSpec => []TypeOK
<1>1. ScanInv => TypeOK
  BY TypeParts DEF ScanInv
<1> QED
  BY <1>1, InvHolds, PTL

\* Metadata of another content than the row's is about to be read again, unless
\* its sub-job was lost or the file changed under exiftool (UpdateFileInfo before
\* the sub-job, collection_scan.go).
THEOREM StaleMetadataStaysPending == ScanSpec => []StaleMetadataIsPending
<1>1. ScanInv => StaleMetadataIsPending
  BY DEF ScanInv, StaleMetadataIsPending, MetaFits, Excused
<1> QED
  BY <1>1, InvHolds, PTL

\* Stat before hash, and a column that rounds down: the fast path of the walk
\* never takes a changed file for the one known, whatever the grain.
THEOREM ChangesStayDetectable == ScanSpec => []ChangesAreDetectable
<1>1. ScanInv => ChangesAreDetectable
  BY DEF ScanInv, ChangesAreDetectable, Detectable, RowDetectable
<1> QED
  BY <1>1, InvHolds, PTL

\* A scan that comes to its end has every path that stood still as it is on disk.
THEOREM ScansAreExact == ScanSpec => []ScanIsExact
<1>1. ScanInv => ScanIsExact
  BY DEF ScanInv, ScanIsExact, Exact, FlushExact
<1> QED
  BY <1>1, InvHolds, PTL

\* Only a file that was away during the scan, or that could not be come by, is
\* marked missing.
THEOREM OnlyAbsentAreMarked == ScanSpec => OnlyAbsentMarkedMissing
<1>1. ScanInv /\ [ScanNext]_scanVars
        => [\A p \in Path : row[p].missing = "no" /\ row'[p].missing = "yes" => p \in away]_scanVars
  <2> SUFFICES ASSUME ScanInv, ScanNext, NEW q \in Path,
                      row[q].missing = "no", row'[q].missing = "yes"
               PROVE  q \in away
    OBVIOUS
  <2>0. RecordTypes /\ AwayNoted(q)
    BY DEF ScanInv
  <2>1. ASSUME NEW p \in Path, Mark(p) PROVE q \in away
    BY <2>0, <2>1 DEF Mark, AwayNoted, RecordTypes, Rows
  <2>2. ASSUME NEW p \in Path, GrowOld(p) \/ VisitUnchanged(p) \/ VisitChanged(p) PROVE q \in away
    BY <2>0, <2>2 DEF GrowOld, VisitUnchanged, VisitChanged, Restored, RecordTypes, Rows
  <2>3. ASSUME NEW p \in Path, Extract(p) \/ ExtractNothing(p) \/ DeleteRow(p) PROVE q \in away
    BY <2>0, <2>3 DEF Extract, ExtractNothing, Extracted, DeleteRow, NoRow, RecordTypes, Rows
  <2>4. CASE Store
    BY <2>0, <2>4 DEF Store, RecordTypes, Rows
  <2> QED
    BY <2>1, <2>2, <2>3, <2>4, Writers
<1> QED
  BY <1>1, InvHolds, PTL DEF ScanSpec, OnlyAbsentMarkedMissing

-----------------------------------------------------------------------------
(* The library is a scan *)

(* Every step of the library is one of the scan or leaves the scan alone. *)
LEMMA StepIsScan == [LibraryNext]_libraryVars => [ScanNext]_scanVars
<1> SUFFICES ASSUME LibraryNext PROVE [ScanNext]_scanVars
  BY DEF libraryVars, scanVars
<1>1. CASE WalkStep
  BY <1>1 DEF WalkStep, ScanNext, SubJobs
<1>2. ASSUME NEW p \in Path, ReadExif(p) \/ SetFlag(p) \/ GiveUp(p) PROVE [ScanNext]_scanVars
  BY <1>2 DEF ReadExif, SetFlag, GiveUp, ScanNext, SubJobs
<1>3. ASSUME NEW p \in Path,
             FindVariants(p) \/ MakeVariants(p) \/ ClearFinal(p) \/ MoveIntoPlace(p) \/ StartTiles(p)
      PROVE  UNCHANGED scanVars
  BY <1>3 DEF FindVariants, MakeVariants, ClearFinal, MoveIntoPlace, Generating, StartTiles
<1>4. ASSUME NEW p \in Path, PruneRow(p) \/ PruneFails(p) PROVE ScanNext
  BY <1>4 DEF PruneRow, PruneFails, ScanNext
<1>5. ASSUME \/ OrphanStart \/ PruneStart \/ JobEnd \/ DeleteEnd \/ EndTiles
             \/ \E S \in Under : DeleteStart(S)
      PROVE  UNCHANGED scanVars
  BY <1>5 DEF OrphanStart, PruneStart, JobStart, JobEnd, DeleteStart, DeleteEnd, EndTiles
<1>6. CASE DeleteEndFails \/ LibraryCrash
  BY <1>6 DEF DeleteEndFails, LibraryCrash, ScanNext
<1>7. ASSUME NEW c \in Content,
             RemoveDir(c) \/ RemoveDirFails(c) \/ DeleteDir(c) \/ DeleteDirFails(c)
      PROVE  [ScanNext]_scanVars
  BY <1>7 DEF RemoveDir, RemoveDirFails, DeleteDir, DeleteDirFails, ScanNext
<1> QED
  BY <1>1, <1>2, <1>3, <1>4, <1>5, <1>6, <1>7 DEF LibraryNext

\* The variables of the scan go through a behaviour of CollectionScan: generation,
\* requests, clean-up and deletion of derived files add nothing to it.
THEOREM LibraryImplementsScan == LibrarySpec => ScanSpec
<1>1. LibraryInit => ScanInit
  BY DEF LibraryInit
<1> QED
  BY <1>1, StepIsScan, PTL DEF LibrarySpec, ScanSpec

LEMMA ScanInvHolds == LibrarySpec => []ScanInv
  BY LibraryImplementsScan, InvHolds

-----------------------------------------------------------------------------
(* Types and shape *)

LibraryTypes ==
  /\ dir \in [Content -> SUBSET {"variants", "tiles", "partial"}] /\ flag \subseteq Path
  /\ gen \in [Path -> {"none", "temp", "cleared", "ready"}]
  /\ job \in {"none", "orphan", "prune"} /\ old \subseteq Path /\ trash \subseteq Content
  /\ web \subseteq Path /\ listed \subseteq Content
  /\ dzi \in Content \cup {None} /\ spoiled \subseteq Content

\* Variants are made in sub-jobs under way; a job has the dispatcher to itself;
\* what orphan_cleanup is to remove belongs to no row.
GenShape == \A p \in Path : gen[p] # "none" => sub[p] = "extracted"
JobShape ==
  /\ job # "none" => pc = "idle"
  /\ job = "none" => old = {} /\ trash = {}
  /\ job = "orphan" => old = {} /\ \A c \in trash, p \in Path : Own(p) # c
LibraryShape == LibraryTypes /\ GenShape /\ JobShape

LEMMA LibraryTypesStep ==
  ASSUME RecordTypes, Shape, LibraryTypes, GenShape, [LibraryNext]_libraryVars
  PROVE  LibraryTypes'
<1>0. /\ \A q \in Path : Own(q) \in Content \cup {None}
      /\ \A q \in Path : gen[q] = "cleared" => Own(q) \in Content
      /\ \A S \in SUBSET Path : Unfinished(S) \subseteq Content /\ Bare \subseteq Content
  <2>1. \A q \in Path : Own(q) \in Content \cup {None}
    BY DEF RecordTypes, Rows, Own
  <2>2. ASSUME NEW q \in Path, gen[q] = "cleared" PROVE Own(q) \in Content
    BY <2>1, <2>2 DEF GenShape, Shape, SubShape, Known, Own
  <2>3. ASSUME NEW S \in SUBSET Path PROVE Unfinished(S) \subseteq Content
    BY <2>2 DEF Unfinished
  <2> QED
    BY <2>1, <2>2, <2>3 DEF Bare, LibraryTypes, Known, Own
<1>1. CASE WalkStep
  BY <1>1 DEF LibraryTypes, WalkStep, derived, jobVars, webVars
<1>2. CASE EndTiles
  BY <1>2 DEF LibraryTypes, EndTiles, With, derived, jobVars, webVars
<1>3. CASE OrphanStart \/ PruneStart
  BY <1>3 DEF LibraryTypes, OrphanStart, JobStart, PruneStart, derived, jobVars, webVars
<1>4. CASE JobEnd
  BY <1>4 DEF LibraryTypes, JobEnd, derived, jobVars, webVars
<1>5. ASSUME NEW S \in Under, DeleteStart(S) PROVE LibraryTypes'
  BY <1>5, <1>0, LibraryAssumption DEF LibraryTypes, DeleteStart, Known, Own, derived, jobVars, webVars
<1>6. CASE DeleteEnd \/ DeleteEndFails
  BY <1>6, <1>0 DEF LibraryTypes, DeleteEnd, DeleteEndFails, FaultElsewhere, derived, jobVars,
     webVars
<1>7. CASE LibraryCrash
  BY <1>7, <1>0 DEF LibraryTypes, LibraryCrash, Crash, derived, jobVars, webVars
<1>8. ASSUME NEW p \in Path, ReadExif(p) PROVE LibraryTypes'
  BY <1>8 DEF LibraryTypes, ReadExif, Extract, ExtractNothing, Extracted, derived, jobVars,
     webVars
<1>9. ASSUME NEW p \in Path, FindVariants(p) \/ MakeVariants(p) PROVE LibraryTypes'
  BY <1>9 DEF LibraryTypes, FindVariants, Generating, scanVars, MakeVariants, derived, jobVars,
     webVars
<1>10. ASSUME NEW p \in Path, ClearFinal(p) \/ MoveIntoPlace(p) PROVE LibraryTypes'
  BY <1>10, <1>0 DEF LibraryTypes, ClearFinal, Generating, With, scanVars, MoveIntoPlace,
     derived, jobVars, webVars
<1>11. ASSUME NEW p \in Path, SetFlag(p) PROVE LibraryTypes'
  BY <1>11 DEF LibraryTypes, SetFlag, SubEnd, derived, jobVars, webVars
<1>12. ASSUME NEW p \in Path, GiveUp(p) PROVE LibraryTypes'
  BY <1>12, <1>0 DEF LibraryTypes, GiveUp, SubEnd, SubFails, derived, jobVars, webVars
<1>13. ASSUME NEW p \in Path, StartTiles(p) PROVE LibraryTypes'
  BY <1>13, <1>0 DEF LibraryTypes, StartTiles, With, scanVars, Known, Own, derived, jobVars,
     webVars
<1>14. ASSUME NEW p \in Path, PruneRow(p) PROVE LibraryTypes'
  BY <1>14, <1>0 DEF LibraryTypes, PruneRow, DeleteRow, Known, Own, derived, jobVars, webVars
<1>15. ASSUME NEW p \in Path, PruneFails(p) PROVE LibraryTypes'
  BY <1>15 DEF LibraryTypes, PruneFails, FaultElsewhere, derived, jobVars, webVars
<1>16. ASSUME NEW c \in Content, RemoveDir(c) PROVE LibraryTypes'
  BY <1>16 DEF LibraryTypes, RemoveDir, With, scanVars, derived, jobVars, webVars
<1>17. ASSUME NEW c \in Content, RemoveDirFails(c) PROVE LibraryTypes'
  BY <1>17 DEF LibraryTypes, RemoveDirFails, FaultElsewhere, derived, jobVars, webVars
<1>18. ASSUME NEW c \in Content, DeleteDir(c) \/ DeleteDirFails(c) PROVE LibraryTypes'
  BY <1>18 DEF LibraryTypes, DeleteDir, DeleteDirFails, FaultElsewhere, With, scanVars, derived,
     jobVars, webVars
<1>19. CASE UNCHANGED libraryVars
  BY <1>19 DEF LibraryTypes, libraryVars, scanVars, derived, jobVars, webVars
<1> QED
  BY <1>1, <1>2, <1>3, <1>4, <1>5, <1>6, <1>7, <1>8, <1>9, <1>10, <1>11, <1>12, <1>13, <1>14,
     <1>15, <1>16, <1>17, <1>18, <1>19 DEF LibraryNext

LEMMA GenShapeStep ==
  ASSUME OtherTypes, Shape, LibraryTypes, GenShape, NEW q \in Path,
         [LibraryNext]_libraryVars, gen'[q] # "none"
  PROVE  sub'[q] = "extracted"
<1>1. CASE WalkStep
  <2>1. gen[q] # "none" /\ sub[q] = "extracted" /\ pc = "batch"
    BY <1>1 DEF WalkStep, derived, GenShape, Shape, SubShape
  <2>2. ASSUME NEW p \in Path, SubStart(p) PROVE sub'[q] = "extracted"
    BY <2>1, <2>2 DEF SubStart, OtherTypes
  <2>3. ASSUME NEW S \in SUBSET buf, Flush(S) \/ FlushFails(S) PROVE FALSE
    BY <2>1, <2>3 DEF Flush, FlushFails
  <2>4. CASE Disk \/ FlushEnd \/ BatchEnd \/ Walk
    <3>1. sub' = sub
      BY <2>4 DEF Disk, Remove, GrowOld, Put, FlushEnd, BatchEnd, Walk, ScanStart, ReadHash, Store,
         StoreFails, WalkEnd, WalkEndFails, ScanReturns, VisitAbsent, VisitUnchanged, VisitChanged,
         VisitFails, Mark, MarkFails
    <3> QED
      BY <2>1, <3>1
  <2> QED
    BY <1>1, <2>2, <2>3, <2>4 DEF WalkStep
<1>2. ASSUME \/ EndTiles \/ OrphanStart \/ PruneStart \/ JobEnd \/ DeleteEnd \/ DeleteEndFails
             \/ \E S \in Under : DeleteStart(S)
      PROVE  sub'[q] = "extracted"
  BY <1>2 DEF GenShape, LibraryTypes, OtherTypes, EndTiles, With, OrphanStart, JobStart,
     PruneStart, JobEnd, DeleteStart, DeleteEnd, DeleteEndFails, FaultElsewhere, scanVars, derived,
     jobVars, webVars
<1>3. CASE LibraryCrash
  BY <1>3 DEF GenShape, LibraryTypes, OtherTypes, LibraryCrash, Crash, derived, jobVars, webVars
<1>4. ASSUME NEW p \in Path, ReadExif(p) PROVE sub'[q] = "extracted"
  BY <1>4 DEF GenShape, LibraryTypes, OtherTypes, ReadExif, Extract, ExtractNothing, Extracted,
     derived, jobVars, webVars
<1>5. ASSUME NEW p \in Path, FindVariants(p) \/ MakeVariants(p) \/ ClearFinal(p) \/ MoveIntoPlace(p)
      PROVE  sub'[q] = "extracted"
  BY <1>5 DEF GenShape, LibraryTypes, OtherTypes, FindVariants, Generating, scanVars,
     MakeVariants, ClearFinal, With, MoveIntoPlace, derived, jobVars, webVars
<1>6. ASSUME NEW p \in Path, SetFlag(p) PROVE sub'[q] = "extracted"
  BY <1>6 DEF GenShape, LibraryTypes, OtherTypes, SetFlag, SubEnd, derived, jobVars, webVars
<1>7. ASSUME NEW p \in Path, GiveUp(p) PROVE sub'[q] = "extracted"
  BY <1>7 DEF GenShape, LibraryTypes, OtherTypes, GiveUp, SubEnd, SubFails, derived, jobVars,
     webVars
<1>8. ASSUME NEW p \in Path, StartTiles(p) PROVE sub'[q] = "extracted"
  BY <1>8 DEF GenShape, LibraryTypes, OtherTypes, StartTiles, With, scanVars, derived, jobVars,
     webVars
<1>9. ASSUME NEW p \in Path, PruneRow(p) \/ PruneFails(p) PROVE sub'[q] = "extracted"
  BY <1>9 DEF GenShape, LibraryTypes, OtherTypes, PruneRow, DeleteRow, PruneFails,
     FaultElsewhere, derived, jobVars, webVars
<1>10. ASSUME NEW c \in Content,
              RemoveDir(c) \/ RemoveDirFails(c) \/ DeleteDir(c) \/ DeleteDirFails(c)
      PROVE  sub'[q] = "extracted"
  BY <1>10 DEF GenShape, LibraryTypes, OtherTypes, RemoveDir, With, scanVars, RemoveDirFails,
     FaultElsewhere, DeleteDir, DeleteDirFails, derived, jobVars, webVars
<1>11. CASE UNCHANGED libraryVars
  BY <1>11 DEF GenShape, LibraryTypes, OtherTypes, libraryVars, scanVars, derived, jobVars,
     webVars
<1> QED
  BY <1>1, <1>2, <1>3, <1>4, <1>5, <1>6, <1>7, <1>8, <1>9, <1>10, <1>11 DEF LibraryNext

LEMMA JobShapeStep ==
  ASSUME RecordTypes, Shape, LibraryTypes, JobShape, [LibraryNext]_libraryVars
  PROVE  JobShape'
<1>a. ASSUME job # "none", WalkStep PROVE pc' = "idle" /\ \A q \in Path : Own(q)' = Own(q)
  <2>1. pc = "idle" /\ at = Nowhere
    BY <1>a DEF JobShape, Shape, AtShape
  <2>2. ASSUME NEW p \in Path, SubStart(p) PROVE FALSE
    BY <2>1, <2>2 DEF SubStart
  <2>3. ASSUME NEW S \in SUBSET buf, Flush(S) \/ FlushFails(S) PROVE FALSE
    BY <2>1, <2>3 DEF Flush, FlushFails
  <2>4. CASE Disk
    BY <2>1, <2>4 DEF Disk, Remove, GrowOld, Put, Own, RecordTypes, Rows
  <2> QED
    BY <1>a, <2>1, <2>2, <2>3, <2>4 DEF WalkStep, FlushEnd, BatchEnd
<1>1. CASE WalkStep
  <2>1. CASE job = "none"
    BY <1>1, <2>1 DEF WalkStep, JobShape, jobVars, webVars
  <2>2. CASE job # "none"
    BY <1>1, <2>2, <1>a DEF WalkStep, JobShape, jobVars, webVars
  <2> QED
    BY <2>1, <2>2
<1>2. ASSUME \/ EndTiles \/ DeleteEnd \/ DeleteEndFails
             \/ \E S \in Under : DeleteStart(S)
      PROVE  JobShape'
  BY <1>2 DEF JobShape, Own, EndTiles, With, DeleteStart, DeleteEnd, DeleteEndFails,
     FaultElsewhere, scanVars, derived, jobVars, webVars
<1>3. CASE OrphanStart
  BY <1>3 DEF JobShape, Own, OrphanStart, JobStart, scanVars, derived, jobVars, webVars
<1>4. CASE PruneStart \/ JobEnd
  BY <1>4 DEF JobShape, Own, PruneStart, JobStart, JobEnd, scanVars, derived, jobVars, webVars
<1>5. CASE LibraryCrash
  BY <1>5 DEF JobShape, Own, LibraryCrash, Crash, derived, jobVars, webVars
<1>6. ASSUME NEW p \in Path, ReadExif(p) PROVE JobShape'
  BY <1>6 DEF JobShape, Own, ReadExif, Extract, ExtractNothing, Extracted, Shape, SubShape,
     derived, jobVars, webVars
<1>7. ASSUME NEW p \in Path, FindVariants(p) \/ MakeVariants(p) \/ ClearFinal(p) \/ MoveIntoPlace(p)
      PROVE  JobShape'
  BY <1>7 DEF JobShape, Own, FindVariants, Generating, scanVars, MakeVariants, ClearFinal, With,
     MoveIntoPlace, derived, jobVars, webVars
<1>8. ASSUME NEW p \in Path, StartTiles(p) PROVE JobShape'
  BY <1>8 DEF JobShape, Own, StartTiles, With, scanVars, derived, jobVars, webVars
<1>9. ASSUME NEW p \in Path, SetFlag(p) \/ GiveUp(p) PROVE JobShape'
  BY <1>9 DEF JobShape, Own, SetFlag, SubEnd, GiveUp, SubFails, derived, jobVars, webVars
<1>10. ASSUME NEW p \in Path, PruneRow(p) PROVE JobShape'
  BY <1>10 DEF JobShape, Own, PruneRow, DeleteRow, LibraryTypes, derived, jobVars, webVars
<1>11. ASSUME NEW p \in Path, PruneFails(p) PROVE JobShape'
  BY <1>11 DEF JobShape, Own, PruneFails, FaultElsewhere, derived, jobVars, webVars
<1>12. ASSUME NEW c \in Content,
              RemoveDir(c) \/ RemoveDirFails(c) \/ DeleteDir(c) \/ DeleteDirFails(c)
      PROVE  JobShape'
  BY <1>12 DEF JobShape, Own, RemoveDir, With, scanVars, RemoveDirFails, FaultElsewhere,
     DeleteDir, DeleteDirFails, derived, jobVars, webVars
<1>13. CASE UNCHANGED libraryVars
  BY <1>13 DEF JobShape, Own, libraryVars, scanVars, derived, jobVars, webVars
<1> QED
  BY <1>1, <1>2, <1>3, <1>4, <1>5, <1>6, <1>7, <1>8, <1>9, <1>10, <1>11, <1>12, <1>13 DEF
     LibraryNext

-----------------------------------------------------------------------------
(* Flags *)

\* Why an item whose flag is set, or is about to be, may do without variants.
Swapped(q) == \E r \in Path : gen[r] = "cleared" /\ Own(r) = Own(q)
Backed(q)  == q \in flag /\ Known(q) =>
                \/ HasVariants(Own(q)) \/ Own(q) \in spoiled
                \/ Pending(q) \/ q \in lost \/ q \in web \/ Swapped(q)
Ready(q)   == gen[q] = "ready" => HasVariants(Own(q)) \/ Own(q) \in spoiled \/ Swapped(q)

\* Rows have their content for good in a batch, and but for new sub-jobs and
\* DeleteRow at any time.
LEMMA OwnStays ==
  ASSUME RecordTypes, Shape, NEW q \in Path, [ScanNext]_scanVars
  PROVE  /\ Own(q)' = Own(q) \/ q \in buf' \/ ~Known(q)'
         /\ pc = "batch" => Own(q)' = Own(q)
<1>1. CASE Store
  <2>1. pc = "walk"
    BY <1>1 DEF Store, Shape, AtShape, Nowhere
  <2>2. CASE q # at.path
    BY <1>1, <2>1, <2>2 DEF Store, Own, RecordTypes
  <2>3. CASE q = at.path
    BY <1>1, <2>1, <2>3, Records DEF Store, Own, RecordTypes, Rows, Nowhere
  <2> QED
    BY <2>2, <2>3
<1>2. ASSUME NEW p \in Path, DeleteRow(p)
      PROVE  pc # "batch" /\ (Own(q)' = Own(q) \/ ~Known(q)')
  BY <1>2 DEF DeleteRow, NoRow, Own, Known, RecordTypes
<1>3. ASSUME NEW p \in Path,
             \/ Extract(p) \/ ExtractNothing(p) \/ GrowOld(p) \/ VisitUnchanged(p)
             \/ VisitChanged(p) \/ Mark(p)
      PROVE  Own(q)' = Own(q)
  BY <1>3 DEF Extract, ExtractNothing, Extracted, GrowOld, VisitUnchanged, VisitChanged, Mark, Restored,
     Own, RecordTypes, Rows
<1> QED
  BY <1>1, <1>2, <1>3, Writers DEF Own

\* The walk and the flush drop no sub-job but to lost.
LEMMA WalkKeepsPending ==
  ASSUME OtherTypes, NEW q \in Path, Pending(q) \/ q \in lost, WalkStep
  PROVE  Pending(q)' \/ q \in lost'
<1>1. CASE Disk
  BY <1>1 DEF Disk, Remove, GrowOld, Put, Pending, history
<1>2. CASE FlushEnd \/ BatchEnd
  BY <1>2 DEF FlushEnd, BatchEnd, Pending, history
<1>3. CASE ScanStart \/ ReadHash \/ Store \/ StoreFails \/ WalkEnd \/ WalkEndFails \/ ScanReturns
  BY <1>3 DEF ScanStart, ReadHash, Store, StoreFails, WalkEnd, WalkEndFails, ScanReturns,
     Pending, history
<1>4. ASSUME NEW p \in Path,
             \/ VisitAbsent(p) \/ VisitUnchanged(p) \/ VisitChanged(p) \/ VisitFails(p)
             \/ Mark(p) \/ MarkFails(p)
      PROVE  Pending(q)' \/ q \in lost'
  BY <1>4 DEF VisitAbsent, VisitUnchanged, VisitChanged, VisitFails, Mark, MarkFails, Pending, history
<1>5. ASSUME NEW S \in SUBSET buf, Flush(S) \/ FlushFails(S) PROVE Pending(q)' \/ q \in lost'
  BY <1>5 DEF Flush, FlushFails, Pending, OtherTypes, history
<1>6. ASSUME NEW p \in Path, SubStart(p) PROVE Pending(q)' \/ q \in lost'
  BY <1>6 DEF SubStart, Pending, OtherTypes
<1> QED
  BY <1>1, <1>2, <1>3, <1>4, <1>5, <1>6 DEF WalkStep, Walk

\* What the two lemmas below start from.
Given(q) == /\ RecordTypes /\ OtherTypes /\ Shape /\ LibraryTypes /\ GenShape /\ JobShape
                 /\ Backed(q) /\ Ready(q)

\* A step that changes no row, sub-job, flag or request, and at most the tiles of a
\* directory.
LEMMA TilesKeepBacked ==
  ASSUME NEW q \in Path, Given(q), UNCHANGED <<row, buf, sub, lost, flag, gen, web, spoiled>>,
         \A c \in Content : HasVariants(c)' = HasVariants(c)
  PROVE  Backed(q)' /\ Ready(q)'
<1>1. Known(q) => Own(q) \in Content
  BY DEF Given, RecordTypes, Rows, Known, Own
<1>2. gen[q] = "ready" => Known(q)
  BY DEF Given, GenShape, Shape, SubShape
<1> QED
  BY <1>1, <1>2 DEF Given, Backed, Ready, Swapped, Pending, Known, Own

LEMMA BackedStep ==
  ASSUME NEW q \in Path, Given(q), [LibraryNext]_libraryVars
  PROVE  Backed(q)' /\ Ready(q)'
<1>0. RecordTypes /\ OtherTypes /\ Shape /\ LibraryTypes /\ GenShape /\ JobShape /\ Backed(q) /\ Ready(q)
  BY DEF Given
<1>s. /\ Own(q)' = Own(q) \/ q \in buf' \/ ~Known(q)'
      /\ \A p \in Path : pc = "batch" => Own(p)' = Own(p)
  BY <1>0, StepIsScan, OwnStays
<1>g. \A p \in Path : gen[p] # "none" => pc = "batch" /\ sub[p] = "extracted" /\ Known(p)
  BY <1>0 DEF GenShape, Shape, SubShape
<1>c. \A p \in Path : Known(p) => Own(p) \in Content
  BY <1>0 DEF RecordTypes, Rows, Known, Own
<1>1. CASE WalkStep
  <2>1. /\ dir' = dir /\ flag' = flag /\ gen' = gen /\ web' = web /\ spoiled' = spoiled
    BY <1>1 DEF WalkStep, derived, webVars
  <2>2. Swapped(q) => Swapped(q)'
    BY <2>1, <1>s, <1>g DEF Swapped
  <2>3. Pending(q) \/ q \in lost => Pending(q)' \/ q \in lost'
    BY <1>1, <1>0, WalkKeepsPending
  <2>4. Ready(q)'
    BY <2>1, <2>2, <1>0, <1>s, <1>g DEF Ready, HasVariants
  <2>5. CASE Own(q)' = Own(q)
    BY <2>1, <2>2, <2>3, <2>4, <2>5, <1>0 DEF Backed, HasVariants, Known, Own
  <2>6. CASE q \in buf'
    BY <2>4, <2>6 DEF Backed, Pending
  <2> QED
    BY <2>4, <2>5, <2>6, <1>s DEF Backed
<1>2. CASE EndTiles
  <2>1. \A c \in Content : HasVariants(c)' = HasVariants(c)
    BY <1>2, <1>0 DEF EndTiles, With, HasVariants, LibraryTypes
  <2> QED
    BY <1>2, <2>1, TilesKeepBacked DEF EndTiles, scanVars, history, webVars
<1>3. ASSUME NEW p \in Path, StartTiles(p) PROVE Backed(q)' /\ Ready(q)'
  <2>1. \A c \in Content : HasVariants(c)' = HasVariants(c)
    BY <1>3, <1>0 DEF StartTiles, With, HasVariants, LibraryTypes
  <2> QED
    BY <1>3, <2>1, TilesKeepBacked DEF StartTiles, scanVars, history, webVars
<1>4. CASE OrphanStart \/ PruneStart \/ JobEnd
  BY <1>4, TilesKeepBacked
     DEF OrphanStart, PruneStart, JobStart, JobEnd, scanVars, history, derived, webVars, HasVariants
<1>r. ASSUME UNCHANGED <<row, buf, sub, gen>>
      PROVE  /\ Own(q)' = Own(q) /\ Known(q)' = Known(q) /\ Pending(q)' = Pending(q)
             /\ Swapped(q)' = Swapped(q)
  BY <1>r DEF Own, Known, Pending, Swapped
<1>5. ASSUME NEW S \in Under, DeleteStart(S) PROVE Backed(q)' /\ Ready(q)'
  <2>1. UNCHANGED <<row, buf, sub, lost, dir, flag, gen, spoiled>> /\ web = {}
    BY <1>5 DEF DeleteStart, scanVars, history, derived
  <2> QED
    BY <2>1, <1>r, <1>0 DEF Backed, Ready, HasVariants
<1>6. CASE DeleteEnd
  <2>1. UNCHANGED <<row, buf, sub, lost, dir, gen, spoiled>> /\ flag' = flag \ web
    BY <1>6 DEF DeleteEnd, scanVars, history
  <2> QED
    BY <2>1, <1>r, <1>0 DEF Backed, Ready, HasVariants
<1>7. CASE DeleteEndFails
  <2>1. UNCHANGED <<row, buf, sub, lost, dir, flag, gen>> /\ spoiled' = spoiled \cup Bare
    BY <1>7 DEF DeleteEndFails, FaultElsewhere, history, derived
  <2>2. q \in flag /\ q \in web /\ Known(q) => HasVariants(Own(q)) \/ Own(q) \in Bare
    BY DEF Bare
  <2> QED
    BY <2>1, <2>2, <1>r, <1>0 DEF Backed, Ready, HasVariants
<1>8. CASE LibraryCrash
  BY <1>8, <1>0, <1>c DEF Backed, Ready, Swapped, HasVariants, Pending, Known, Own,
     LibraryCrash, Crash, LibraryTypes, OtherTypes, Bare, Unfinished, derived, jobVars, webVars
<1>9. ASSUME NEW p \in Path, ReadExif(p) PROVE Backed(q)' /\ Ready(q)'
  BY <1>9, <1>0, <1>g DEF Backed, Ready, Swapped, HasVariants, Pending, Known, Own, ReadExif,
     Extract, ExtractNothing, Extracted, RecordTypes, Rows, OtherTypes, LibraryTypes, bounds,
     derived, jobVars, webVars
<1>10. ASSUME NEW p \in Path, FindVariants(p) \/ MakeVariants(p) PROVE Backed(q)' /\ Ready(q)'
  <2>1. UNCHANGED <<row, buf, sub, lost, flag, web>>
    BY <1>10 DEF FindVariants, MakeVariants, Generating, scanVars, history, webVars
  <2>2. /\ \A r \in Path : Own(r)' = Own(r)
        /\ Known(q)' <=> Known(q)
        /\ Pending(q)' <=> Pending(q)
    BY <2>1 DEF Own, Known, Pending
  <2>3. /\ gen[p] = "none" /\ UNCHANGED <<dir, spoiled>>
        /\ gen'[p] # "cleared" /\ (gen'[p] = "ready" => HasVariants(Own(p)))
        /\ \A r \in Path \ {p} : gen'[r] = gen[r]
    BY <1>10, <1>0 DEF FindVariants, MakeVariants, Generating, LibraryTypes
  <2>4. Swapped(q) => Swapped(q)'
    BY <2>2, <2>3 DEF Swapped
  <2> QED
    BY <2>1, <2>2, <2>3, <2>4, <1>0 DEF Backed, Ready, HasVariants
<1>11. ASSUME NEW p \in Path, ClearFinal(p) PROVE Backed(q)' /\ Ready(q)'
  <2>1. UNCHANGED <<row, buf, sub, lost, flag, web>>
    BY <1>11 DEF ClearFinal, Generating, scanVars, history, webVars
  <2>2. /\ \A r \in Path : Own(r)' = Own(r)
        /\ Known(q)' <=> Known(q)
        /\ Pending(q)' <=> Pending(q)
    BY <2>1 DEF Own, Known, Pending
  <2>3. /\ gen[p] = "temp" /\ gen'[p] = "cleared" /\ spoiled' = spoiled
        /\ \A r \in Path \ {p} : gen'[r] = gen[r]
        /\ \A c \in Content : c # Own(p) => dir'[c] = dir[c]
    BY <1>11, <1>0 DEF ClearFinal, Generating, With, LibraryTypes
  <2>4. Swapped(q) => Swapped(q)'
    BY <2>2, <2>3 DEF Swapped
  <2>5. CASE Own(q) = Own(p)
    BY <2>2, <2>3, <2>5 DEF Backed, Ready, Swapped
  <2>6. CASE Own(q) # Own(p)
    BY <2>1, <2>2, <2>3, <2>4, <2>6, <1>0, <1>c, <1>g DEF Backed, Ready, HasVariants
  <2> QED
    BY <2>5, <2>6
<1>12. ASSUME NEW p \in Path, MoveIntoPlace(p) PROVE Backed(q)' /\ Ready(q)'
  <2>1. UNCHANGED <<row, buf, sub, lost, flag, web>>
    BY <1>12 DEF MoveIntoPlace, Generating, scanVars, history, webVars
  <2>2. /\ \A r \in Path : Own(r)' = Own(r)
        /\ Known(q)' <=> Known(q)
        /\ Pending(q)' <=> Pending(q)
    BY <2>1 DEF Own, Known, Pending
  <2>3. /\ gen[p] = "cleared" /\ gen'[p] = "ready" /\ spoiled' = spoiled \ {Own(p)}
        /\ \A r \in Path \ {p} : gen'[r] = gen[r]
        /\ \A c \in Content : c # Own(p) => dir'[c] = dir[c]
    BY <1>12, <1>0 DEF MoveIntoPlace, Generating, With, LibraryTypes
  <2>4. CASE Own(q) = Own(p)
    <3>1. Own(p) \in Content
      BY <2>3, <1>g, <1>c
    <3>2. HasVariants(Own(p))'
      BY <1>12, <2>2, <3>1, <1>0 DEF MoveIntoPlace, With, HasVariants, LibraryTypes
    <3>3. HasVariants(Own(q))'
      BY <2>2, <2>4, <3>2 DEF HasVariants
    <3> QED
      BY <3>3 DEF Backed, Ready
  <2>5. CASE Own(q) # Own(p)
    <3>1. Swapped(q) => Swapped(q)'
      BY <2>2, <2>3, <2>5 DEF Swapped
    <3> QED
      BY <2>1, <2>2, <2>3, <2>5, <3>1, <1>0, <1>c, <1>g DEF Backed, Ready, HasVariants
  <2> QED
    BY <2>4, <2>5
<1>13. ASSUME NEW p \in Path, SetFlag(p) PROVE Backed(q)' /\ Ready(q)'
  <2>1. /\ UNCHANGED <<row, buf, lost, dir, web, spoiled>> /\ flag' = flag \cup {p}
        /\ gen[p] = "ready" /\ gen'[p] = "none" /\ sub[p] = "extracted"
        /\ \A r \in Path \ {p} : gen'[r] = gen[r] /\ sub'[r] = sub[r]
    BY <1>13, <1>0 DEF SetFlag, SubEnd, history, webVars, LibraryTypes, OtherTypes
  <2>2. /\ \A r \in Path : Own(r)' = Own(r)
        /\ Known(q)' <=> Known(q)
        /\ Pending(q) => Pending(q)'
    BY <2>1 DEF Own, Known, Pending
  <2>3. Swapped(q) => Swapped(q)'
    BY <2>1, <2>2 DEF Swapped
  <2> QED
    BY <2>1, <2>2, <2>3, <1>0 DEF Backed, Ready, HasVariants
<1>14. ASSUME NEW p \in Path, GiveUp(p) PROVE Backed(q)' /\ Ready(q)'
  <2>1. /\ UNCHANGED <<row, buf, dir, flag, web>> /\ spoiled' = spoiled \cup Unfinished({p})
        /\ gen'[p] = "none" /\ (sub[p] = "running" => p \in lost') /\ lost \subseteq lost'
        /\ sub[p] # "queued"
        /\ \A r \in Path \ {p} : gen'[r] = gen[r] /\ sub'[r] = sub[r]
    BY <1>14, <1>0 DEF GiveUp, SubEnd, SubFails, history, webVars, LibraryTypes, OtherTypes
  <2>2. /\ \A r \in Path : Own(r)' = Own(r)
        /\ Known(q)' <=> Known(q)
        /\ Pending(q) \/ q \in lost => Pending(q)' \/ q \in lost'
    BY <2>1 DEF Own, Known, Pending
  <2>3. Swapped(q) => Swapped(q)' \/ HasVariants(Own(q)) \/ Own(q) \in spoiled'
    BY <2>1, <2>2 DEF Swapped, Unfinished
  <2> QED
    BY <2>1, <2>2, <2>3, <1>0 DEF Backed, Ready, HasVariants
<1>15. ASSUME NEW p \in Path, PruneRow(p) PROVE Backed(q)' /\ Ready(q)'
  BY <1>15, <1>0, <1>g DEF Backed, Ready, Swapped, HasVariants, Pending, Known, Own, PruneRow,
     DeleteRow, RecordTypes, JobShape, NoRow, derived, jobVars, webVars
<1>16. ASSUME NEW p \in Path, PruneFails(p) PROVE Backed(q)' /\ Ready(q)'
  BY <1>16, TilesKeepBacked DEF PruneFails, FaultElsewhere, history, derived, webVars, HasVariants
<1>17. ASSUME NEW c \in Content, RemoveDir(c) PROVE Backed(q)' /\ Ready(q)'
  <2>1. /\ UNCHANGED <<row, buf, sub, lost, flag, web, gen>> /\ spoiled \subseteq spoiled'
        /\ \A d \in Content : d # c => dir'[d] = dir[d]
        /\ job = "prune" /\ (\E p \in flag : Own(p) = c) => c \in spoiled'
        /\ c \in trash
    BY <1>17, <1>0 DEF RemoveDir, With, scanVars, history, webVars, LibraryTypes
  <2>2. /\ \A r \in Path : Own(r)' = Own(r)
        /\ Known(q)' <=> Known(q)
        /\ Pending(q)' <=> Pending(q)
        /\ Swapped(q)' <=> Swapped(q)
    BY <2>1 DEF Own, Known, Pending, Swapped
  <2>3. Ready(q)'
    BY <2>1, <1>g, <1>0 DEF Ready, JobShape
  <2>4. q \in flag /\ Own(q) = c => c \in spoiled'
    BY <2>1, <1>0 DEF JobShape, LibraryTypes
  <2> QED
    BY <2>1, <2>2, <2>3, <2>4, <1>0, <1>c DEF Backed, HasVariants
<1>18. ASSUME NEW c \in Content, RemoveDirFails(c) PROVE Backed(q)' /\ Ready(q)'
  BY <1>18, TilesKeepBacked DEF RemoveDirFails, FaultElsewhere, history, derived, webVars, HasVariants
<1>19. ASSUME NEW c \in Content, DeleteDir(c) PROVE Backed(q)' /\ Ready(q)'
  <2>1. /\ UNCHANGED <<row, buf, sub, lost, flag, web, gen>> /\ spoiled \subseteq spoiled'
        /\ \A d \in Content : d # c => dir'[d] = dir[d]
    BY <1>19, <1>0 DEF DeleteDir, With, scanVars, history, LibraryTypes
  <2>2. Own(q) = c /\ (gen[q] = "ready" \/ q \in flag \ web) => c \in spoiled'
    BY <1>19 DEF DeleteDir
  <2>3. Ready(q)'
    BY <2>1, <2>2, <1>r, <1>g, <1>c, <1>0 DEF Ready, HasVariants
  <2>4. Backed(q)'
    BY <2>1, <2>2, <1>r, <1>c, <1>0 DEF Backed, HasVariants
  <2> QED
    BY <2>3, <2>4
<1>20. ASSUME NEW c \in Content, DeleteDirFails(c) PROVE Backed(q)' /\ Ready(q)'
  BY <1>20, TilesKeepBacked DEF DeleteDirFails, FaultElsewhere, history, derived, HasVariants
<1>21. CASE UNCHANGED libraryVars
  BY <1>21, TilesKeepBacked DEF libraryVars, scanVars, history, derived, webVars, HasVariants
<1> QED
  BY <1>1, <1>2, <1>3, <1>4, <1>5, <1>6, <1>7, <1>8, <1>9, <1>10, <1>11, <1>12, <1>13, <1>14,
     <1>15, <1>16, <1>17, <1>18, <1>19, <1>20, <1>21 DEF LibraryNext

-----------------------------------------------------------------------------
(* The inductive invariant and what follows from it *)

LibraryInv ==
  ScanInv /\ LibraryShape /\ \A q \in Path : Backed(q) /\ Ready(q)

LEMMA LibraryInvHolds == LibrarySpec => []LibraryInv
<1>1. LibraryInit => LibraryInv
  <2> SUFFICES ASSUME LibraryInit PROVE LibraryInv
    OBVIOUS
  <2>1. ScanInv
    BY InitInv DEF LibraryInit
  <2>2. LibraryShape
    BY DEF LibraryInit, LibraryShape, LibraryTypes, GenShape, JobShape
  <2>3. \A q \in Path : Backed(q) /\ Ready(q)
    BY DEF LibraryInit, Backed, Ready
  <2> QED
    BY <2>1, <2>2, <2>3 DEF LibraryInv
<1>2. LibraryInv /\ [LibraryNext]_libraryVars => LibraryInv'
  <2> SUFFICES ASSUME LibraryInv, [LibraryNext]_libraryVars PROVE LibraryInv'
    OBVIOUS
  <2>1. RecordTypes /\ OtherTypes /\ Shape /\ LibraryTypes /\ GenShape /\ JobShape
    BY DEF LibraryInv, ScanInv, LibraryShape
  <2>2. ScanInv'
    BY StepIsScan, InvStep DEF LibraryInv
  <2>3. LibraryTypes' /\ JobShape'
    BY <2>1, LibraryTypesStep, JobShapeStep
  <2>4. GenShape'
    BY <2>1, GenShapeStep DEF GenShape
  <2>5. ASSUME NEW q \in Path PROVE Backed(q)' /\ Ready(q)'
    <3>1. Given(q)
      BY <2>1 DEF Given, LibraryInv
    <3> QED
      BY <3>1, BackedStep
  <2> QED
    BY <2>2, <2>3, <2>4, <2>5 DEF LibraryInv, LibraryShape
<1> QED
  BY <1>1, <1>2, PTL DEF LibrarySpec

\* The types of rows, jobs and derived directories.
THEOREM LibraryTypesHold == LibrarySpec => []LibraryTypeOK
<1>1. LibraryInv => LibraryTypeOK
  BY TypeParts DEF LibraryInv, ScanInv, LibraryShape, LibraryTypes, LibraryTypeOK
<1> QED
  BY <1>1, LibraryInvHolds, PTL

\* variants_generated_at is backed by files, with the exceptions FilesBehindFlags
\* names and no other, for any number of items, copies and requests.
THEOREM FlagsAreBacked == LibrarySpec => []FilesBehindFlags
<1>1. LibraryInv => FilesBehindFlags
  BY DEF LibraryInv, LibraryShape, LibraryTypes, FilesBehindFlags, Backed, Swapped
<1> QED
  BY <1>1, LibraryInvHolds, PTL

\* In the composition, too, a scan leaves every path that stood still as it is on
\* disk, changed files stay detectable and stale metadata pending.
THEOREM LibraryScansAreExact ==
  LibrarySpec => [](ScanIsExact /\ ChangesAreDetectable /\ StaleMetadataIsPending)
  BY LibraryImplementsScan, ScansAreExact, ChangesStayDetectable, StaleMetadataStaysPending, PTL
=============================================================================
