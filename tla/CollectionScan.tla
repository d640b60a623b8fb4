--------------------------- MODULE CollectionScan ---------------------------
(* One collection: its files, their rows in media_items, the scan that brings   *)
(* the rows up to date and the sub-jobs that read metadata. The dispatcher runs *)
(* one top-level job at a time, so nothing else writes the rows during a scan.  *)
(* A content stands for the files that have its hash.                           *)
EXTENDS Integers

CONSTANTS Path, Content,
          MaxTime,      \* mtimes are 0..MaxTime
          Grain,        \* ticks of a file's clock in one of the column's (1000 ns)
          MaxChanges, MaxFaults, MaxCrashes   \* bounds of the instance

None  == "none"         \* no file, no row, no metadata
Blank == "blank"        \* a metadata row that exiftool had nothing to say for
Nowhere == [path |-> None, mtime |-> 0, hash |-> None]

ASSUME ScanAssumption ==
  /\ MaxTime \in Nat /\ Grain \in Nat \ {0}
  /\ MaxChanges \in Nat /\ MaxFaults \in Nat /\ MaxCrashes \in Nat
  /\ None \notin Path /\ {None, Blank} \cap Content = {}

VARIABLES
  file,       \* what is on disk: content and mtime of each path
  row,        \* media_items: hash, file_modified_at, missing_since, and what the metadata was read from
  pc,         \* where the job is: idle, walk, mark, flush, batch; again after a restart
  todo,       \* paths the present loop has not come to
  seen,       \* seenPaths
  at,         \* the file being looked at: its path, mtime and, once computed, its hash
  buf,        \* buffered sub-jobs
  sub,        \* scan_photo or scan_video of a path: none, queued, running, extracted
  changes, faults, crashes,
  lost,       \* paths whose sub-job was lost to a crash, a failed statement or a missing row
  raced,      \* paths whose metadata was read from something else than the row's content
  backdated,  \* paths written, or touched, with an mtime no later than the one known
  away,       \* paths that were not there to be seen all through this scan
  disturbed   \* paths that changed, or failed, since this scan began

bounds    == <<changes, faults, crashes>>
history   == <<lost, raced, backdated, away, disturbed>>
scanVars  == <<file, row, pc, todo, seen, at, buf, sub, bounds, history>>

NoFile == [content |-> None, mtime |-> 0]
NoRow  == [hash |-> None, mtime |-> 0, missing |-> "no", meta |-> None]
Stored_Next(t) == (t \div Grain + 1) * Grain
Stored(t) == (t \div Grain) * Grain     \* timestamptz: microseconds

Present(p)     == file[p].content # None
Known(p)       == row[p].hash # None
HasMetadata(p) == row[p].meta # None
Pending(p)     == p \in buf \/ sub[p] \in {"queued", "running"}

Fault == faults < MaxFaults /\ faults' = faults + 1 /\ UNCHANGED <<changes, crashes>>

ScanInit ==
  /\ file = [p \in Path |-> NoFile] /\ row = [p \in Path |-> NoRow]
  /\ pc = "idle" /\ todo = {} /\ seen = {} /\ at = Nowhere
  /\ buf = {} /\ sub = [p \in Path |-> "none"]
  /\ changes = 0 /\ faults = 0 /\ crashes = 0
  /\ lost = {} /\ raced = {} /\ backdated = {} /\ away = {} /\ disturbed = {}

-----------------------------------------------------------------------------
(* The disk *)

\* The mtimes of p the server knows or is about to store.
Newest(p, t) ==
  /\ Known(p) => t > row[p].mtime
  /\ at.path = p => t > at.mtime

\* A scan has begun and not yet handed its sub-jobs over.
Noted(S, p) == IF pc \in {"walk", "mark", "flush"} THEN S \cup {p} ELSE S

\* A file is written, replaced, restored from a backup, moved here, or touched.
Put(p, c, t) ==
  /\ changes < MaxChanges /\ changes' = changes + 1
  /\ file[p] # [content |-> c, mtime |-> t]
  /\ file' = [file EXCEPT ![p] = [content |-> c, mtime |-> t]]
  /\ backdated' = IF Newest(p, t) THEN backdated \ {p} ELSE backdated \cup {p}
  /\ disturbed' = Noted(disturbed, p)
  /\ UNCHANGED <<row, pc, todo, seen, at, buf, sub, faults, crashes, lost, raced, away>>

Remove(p) ==
  /\ changes < MaxChanges /\ changes' = changes + 1
  /\ Present(p) /\ file' = [file EXCEPT ![p] = NoFile]
  /\ away' = Noted(away, p) /\ disturbed' = Noted(disturbed, p)
  /\ UNCHANGED <<row, pc, todo, seen, at, buf, sub, faults, crashes, lost, raced, backdated>>

\* Ninety days go by.
GrowOld(p) ==
  /\ row[p].missing = "yes" /\ row' = [row EXCEPT ![p].missing = "old"]
  /\ UNCHANGED <<file, pc, todo, seen, at, buf, sub, bounds, history>>

-----------------------------------------------------------------------------
(* The walk *)

ScanStart ==
  /\ pc \in {"idle", "again"}
  /\ pc' = "walk" /\ todo' = Path /\ seen' = {}
  /\ away' = {p \in Path : ~Present(p)} /\ disturbed' = {}
  /\ UNCHANGED <<file, row, at, buf, sub, bounds, lost, raced, backdated>>

Visiting(p) == pc = "walk" /\ at = Nowhere /\ p \in todo /\ todo' = todo \ {p}

\* MediaItemClearMissing
Restored(p) == [row EXCEPT ![p].missing = "no"]

\* Not there: the walk does not come by.
VisitAbsent(p) ==
  /\ Visiting(p) /\ ~Present(p)
  /\ UNCHANGED <<file, row, pc, seen, at, buf, sub, bounds, history>>

\* "Fast path: mtime unchanged": nothing but a sub-job for missing metadata.
VisitUnchanged_Unseen(p) ==
  /\ Visiting(p) /\ Present(p) /\ Known(p)
  /\ file[p].mtime <= row[p].mtime
  /\ seen' = IF HasMetadata(p) THEN seen ELSE seen \cup {p}
  /\ row' = Restored(p)
  /\ buf' = IF HasMetadata(p) THEN buf ELSE buf \cup {p}
  /\ UNCHANGED <<file, pc, at, sub, bounds, history>>
VisitUnchanged(p) ==
  /\ Visiting(p) /\ Present(p) /\ Known(p)
  /\ file[p].mtime <= row[p].mtime
  /\ seen' = seen \cup {p} /\ row' = Restored(p)
  /\ buf' = IF HasMetadata(p) THEN buf ELSE buf \cup {p}
  /\ UNCHANGED <<file, pc, at, sub, bounds, history>>

\* A new file, or an mtime after the stored one: the hash decides.
VisitChanged_KeepMissing(p) ==
  /\ Visiting(p) /\ Present(p)
  /\ Known(p) => file[p].mtime > row[p].mtime
  /\ seen' = seen \cup {p}
  /\ row' = row
  /\ at' = [path |-> p, mtime |-> file[p].mtime, hash |-> None]
  /\ UNCHANGED <<file, pc, buf, sub, bounds, history>>
VisitChanged(p) ==
  /\ Visiting(p) /\ Present(p)
  /\ Known(p) => file[p].mtime > row[p].mtime
  /\ seen' = seen \cup {p}
  /\ row' = IF Known(p) THEN Restored(p) ELSE row
  /\ at' = [path |-> p, mtime |-> file[p].mtime, hash |-> None]
  /\ UNCHANGED <<file, pc, buf, sub, bounds, history>>

\* Its directory cannot be read, and is skipped; or stat or ClearMissing fails.
VisitFails(p) ==
  /\ Visiting(p) /\ Present(p) /\ Fault
  /\ \/ seen' = seen /\ away' = away \cup {p}
     \/ seen' = seen \cup {p} /\ away' = away
  /\ disturbed' = disturbed \cup {p}
  /\ UNCHANGED <<file, row, pc, at, buf, sub, lost, raced, backdated>>

\* computeFileHash
ReadHash ==
  /\ at # Nowhere /\ at.hash = None
  /\ at' = IF Present(at.path) THEN [at EXCEPT !.hash = file[at.path].content] ELSE Nowhere
  /\ UNCHANGED <<file, row, pc, todo, seen, buf, sub, bounds, history>>

\* MediaItemUpsert of a new file, MediaItemUpdateFileInfo of a changed one,
\* MediaItemUpdateModifiedAt of one that was only touched.
Store_StatLast ==
  /\ at.hash # None
  /\ LET p == at.path IN
     /\ row' = [row EXCEPT ![p].hash = at.hash, ![p].mtime = Stored(file[p].mtime)]
     /\ buf' = IF Known(p) /\ row[p].hash = at.hash /\ HasMetadata(p) THEN buf ELSE buf \cup {p}
  /\ at' = Nowhere
  /\ UNCHANGED <<file, pc, todo, seen, sub, bounds, history>>
Store_NoSubJob ==
  /\ at.hash # None
  /\ LET p == at.path IN
     /\ row' = [row EXCEPT ![p].hash = at.hash, ![p].mtime = Stored(at.mtime)]
     /\ buf' = IF Known(p) /\ HasMetadata(p) THEN buf ELSE buf \cup {p}
  /\ at' = Nowhere
  /\ UNCHANGED <<file, pc, todo, seen, sub, bounds, history>>
Store ==
  /\ at.hash # None
  /\ LET p == at.path IN
     /\ row' = [row EXCEPT ![p].hash = at.hash, ![p].mtime = Stored(at.mtime)]
     /\ buf' = IF Known(p) /\ row[p].hash = at.hash /\ HasMetadata(p) THEN buf ELSE buf \cup {p}
  /\ at' = Nowhere
  /\ UNCHANGED <<file, pc, todo, seen, sub, bounds, history>>

\* Hashing fails, the statement does, or the file's directory has appeared since
\* walkFolders. A failing UpdateModifiedAt does not keep the sub-job back.
StoreFails ==
  /\ at # Nowhere /\ Fault
  /\ LET p == at.path IN
     /\ buf' = IF Known(p) /\ row[p].hash = at.hash /\ ~HasMetadata(p) THEN buf \cup {p} ELSE buf
     /\ disturbed' = disturbed \cup {p}
  /\ at' = Nowhere
  /\ UNCHANGED <<file, row, pc, todo, seen, sub, lost, raced, backdated, away>>

-----------------------------------------------------------------------------
(* Marking what was not seen *)

\* MediaItemsForScan
WalkEnd ==
  /\ pc = "walk" /\ todo = {} /\ at = Nowhere
  /\ pc' = "mark" /\ todo' = {p \in Path : Known(p) /\ row[p].missing = "no"}
  /\ UNCHANGED <<file, row, seen, at, buf, sub, bounds, history>>

\* Its error is the handler's: the job has failed and what it buffered is gone.
WalkEndFails ==
  /\ pc = "walk" /\ todo = {} /\ at = Nowhere /\ Fault
  /\ pc' = "idle" /\ seen' = {} /\ buf' = {} /\ lost' = lost \cup buf
  /\ away' = {} /\ disturbed' = {}
  /\ UNCHANGED <<file, row, todo, at, sub, raced, backdated>>

\* MediaItemMarkMissing
Mark(p) ==
  /\ pc = "mark" /\ p \in todo /\ todo' = todo \ {p}
  /\ row' = IF p \in seen THEN row ELSE [row EXCEPT ![p].missing = "yes"]
  /\ UNCHANGED <<file, pc, seen, at, buf, sub, bounds, history>>

MarkFails(p) ==
  /\ pc = "mark" /\ p \in todo \ seen /\ todo' = todo \ {p} /\ Fault
  /\ disturbed' = disturbed \cup {p}
  /\ UNCHANGED <<file, row, pc, seen, at, buf, sub, lost, raced, backdated, away>>

ScanReturns ==
  /\ pc = "mark" /\ todo = {}
  /\ pc' = "flush" /\ seen' = {}
  /\ UNCHANGED <<file, row, todo, at, buf, sub, bounds, history>>

-----------------------------------------------------------------------------
(* The sub-jobs: FlushSubJobs, then the batches *)

\* JobCreateBatch: a chunk is inserted, or fails and is skipped.
Flush(S) ==
  /\ pc = "flush" /\ S # {} /\ S \subseteq buf /\ buf' = buf \ S
  /\ sub' = [p \in Path |-> IF p \in S THEN "queued" ELSE sub[p]]
  /\ UNCHANGED <<file, row, pc, todo, seen, at, bounds, history>>
FlushFails(S) ==
  /\ pc = "flush" /\ S # {} /\ S \subseteq buf /\ buf' = buf \ S /\ Fault
  /\ lost' = lost \cup S
  /\ UNCHANGED <<file, row, pc, todo, seen, at, sub, raced, backdated, away, disturbed>>

FlushEnd ==
  /\ pc = "flush" /\ buf = {} /\ pc' = "batch"
  /\ away' = {} /\ disturbed' = {}
  /\ UNCHANGED <<file, row, todo, seen, at, buf, sub, bounds, lost, raced, backdated>>

\* MediaItemForProcessing finds only rows that are not missing.
SubStart(p) ==
  /\ pc = "batch" /\ sub[p] = "queued"
  /\ IF Known(p) /\ row[p].missing = "no"
       THEN sub' = [sub EXCEPT ![p] = "running"] /\ UNCHANGED lost
       ELSE sub' = [sub EXCEPT ![p] = "none"] /\ lost' = lost \cup {p}
  /\ UNCHANGED <<file, row, pc, todo, seen, at, buf, bounds, raced, backdated, away, disturbed>>

\* extractExif, which never fails, then PhotoUpsert or VideoUpsert.
Extracted(p, data) ==
  /\ sub[p] = "running" /\ sub' = [sub EXCEPT ![p] = "extracted"]
  /\ row' = [row EXCEPT ![p].meta = data]
  /\ raced' = IF data = row[p].hash THEN raced \ {p} ELSE raced \cup {p}
  /\ lost' = lost \ {p}
  /\ UNCHANGED <<file, pc, todo, seen, at, buf, backdated, away, disturbed>>
Extract(p) ==
  /\ Extracted(p, IF Present(p) THEN file[p].content ELSE Blank)
  /\ UNCHANGED bounds
ExtractNothing(p) ==
  Fault /\ Extracted(p, Blank)

\* The upsert fails, or what comes after it; the sub-job is not tried again.
SubFails(p) ==
  /\ sub[p] \in {"running", "extracted"} /\ Fault
  /\ sub' = [sub EXCEPT ![p] = "none"]
  /\ lost' = IF sub[p] = "running" THEN lost \cup {p} ELSE lost
  /\ UNCHANGED <<file, row, pc, todo, seen, at, buf, raced, backdated, away, disturbed>>

SubEnd(p) ==
  /\ sub[p] = "extracted" /\ sub' = [sub EXCEPT ![p] = "none"]
  /\ UNCHANGED <<file, row, pc, todo, seen, at, buf, bounds, history>>

BatchEnd ==
  /\ pc = "batch" /\ \A p \in Path : sub[p] = "none"
  /\ pc' = "idle"
  /\ UNCHANGED <<file, row, todo, seen, at, buf, sub, bounds, history>>

\* Process exit, then JobsResetStuck: the job runs again, from the start or, once
\* its sub-jobs are under way, from those left.
Crash ==
  /\ crashes < MaxCrashes /\ crashes' = crashes + 1
  /\ pc' = IF pc \in {"idle", "batch"} THEN pc ELSE "again"
  /\ todo' = {} /\ seen' = {} /\ at' = Nowhere
  /\ buf' = {} /\ lost' = lost \cup buf
  /\ sub' = [p \in Path |-> IF sub[p] = "none" THEN "none" ELSE "queued"]
  /\ away' = {} /\ disturbed' = {}
  /\ UNCHANGED <<file, row, changes, faults, raced, backdated>>

-----------------------------------------------------------------------------
(* DeleteMediaItem, by the integrity check *)

DeleteRow(p) ==
  /\ pc = "idle" /\ Known(p) /\ row' = [row EXCEPT ![p] = NoRow]
  /\ lost' = lost \ {p} /\ raced' = raced \ {p} /\ backdated' = backdated \ {p}
  /\ UNCHANGED <<file, pc, todo, seen, at, buf, sub, bounds, away, disturbed>>

Disk == \E p \in Path : Remove(p) \/ GrowOld(p) \/ \E c \in Content, t \in 0..MaxTime : Put(p, c, t)

Walk ==
  \/ ScanStart \/ ReadHash \/ Store \/ StoreFails \/ WalkEnd \/ WalkEndFails \/ ScanReturns
  \/ \E p \in Path : VisitAbsent(p) \/ VisitUnchanged(p) \/ VisitChanged(p) \/ VisitFails(p) \/ Mark(p) \/ MarkFails(p)

SubJobs ==
  \/ \E S \in SUBSET buf : Flush(S) \/ FlushFails(S)
  \/ FlushEnd \/ BatchEnd
  \/ \E p \in Path : SubStart(p) \/ Extract(p) \/ ExtractNothing(p) \/ SubFails(p) \/ SubEnd(p)

\* A statement of another job fails, or a request's.
FaultElsewhere ==
  Fault /\ UNCHANGED <<file, row, pc, todo, seen, at, buf, sub, history>>

ScanNext == Disk \/ Walk \/ SubJobs \/ Crash \/ FaultElsewhere \/ \E p \in Path : DeleteRow(p)
ScanSpec == ScanInit /\ [][ScanNext]_scanVars

-----------------------------------------------------------------------------

\* Types of the state.
TypeOK ==
  /\ file \in [Path -> [content : Content \cup {None}, mtime : 0..MaxTime]]
  /\ row \in [Path -> [hash : Content \cup {None}, mtime : 0..MaxTime,
                       missing : {"no", "yes", "old"}, meta : Content \cup {None, Blank}]]
  /\ pc \in {"idle", "walk", "mark", "flush", "batch", "again"}
  /\ todo \subseteq Path /\ seen \subseteq Path /\ buf \subseteq Path
  /\ at \in [path : Path \cup {None}, mtime : 0..MaxTime, hash : Content \cup {None}]
  /\ sub \in [Path -> {"none", "queued", "running", "extracted"}]
  /\ changes \in 0..MaxChanges /\ faults \in 0..MaxFaults /\ crashes \in 0..MaxCrashes
  /\ lost \subseteq Path /\ raced \subseteq Path /\ backdated \subseteq Path
  /\ away \subseteq Path /\ disturbed \subseteq Path

\* Metadata that was read from another content than the row's is about to be read
\* again. The exceptions are two: the sub-job was lost between UpdateFileInfo and
\* its end, or the file changed while exiftool had its turn; no later scan tells.
StaleMetadataIsPending ==
  \A p \in Path : Known(p) /\ row[p].meta \notin {None, row[p].hash}
                    => Pending(p) \/ p \in lost \/ p \in raced

\* A file whose content is not the row's has a later mtime than the row, so that
\* the fast path cannot skip it: the stat comes before the hash, and the column
\* rounds down. Only a file put there with an older mtime goes unnoticed.
ChangesAreDetectable ==
  \A p \in Path : Present(p) /\ Known(p) /\ file[p].content # row[p].hash
                    => file[p].mtime > row[p].mtime \/ p \in backdated

\* A scan that ends has every file that stood still in its right place: a row that
\* is not missing, with the file's hash, if it is there, and no such row if not.
ScanIsExact ==
  pc = "flush" =>
    \A p \in Path \ disturbed :
      IF Present(p)
        THEN row[p].missing = "no" /\ (row[p].hash = file[p].content \/ p \in backdated)
        ELSE Known(p) => row[p].missing # "no"

\* An item is marked missing only if its file was away at some moment of the scan
\* that marks it, or lay in a directory that could not be read.
OnlyAbsentMarkedMissing ==
  [][\A p \in Path : row[p].missing = "no" /\ row'[p].missing = "yes" => p \in away]_scanVars
=============================================================================
