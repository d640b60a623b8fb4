------------------------------ MODULE Library ------------------------------
(* A collection of photos with the files derived from them. A derived directory *)
(* belongs to a content, not to an item: items that are copies share it. It is  *)
(* written by scan sub-jobs, which may run at the same time, and by requests    *)
(* for tiles; it is removed by orphan_cleanup, by integrity_check and by a      *)
(* request of an administrator. Sources are larger than the largest variant.    *)
EXTENDS CollectionScan

CONSTANT Under   \* for each collection that can be named, the paths under it

ASSUME LibraryAssumption == Under \subseteq SUBSET Path

VARIABLES
  dir,      \* derived_media: of variants (all of them), tiles, partial tiles, what each content has
  flag,     \* items with variants_generated_at set
  gen,      \* what the sub-job of a path has got to: none, temp, cleared, ready
  job,      \* a job other than the scan: none, orphan, prune
  old,      \* the stale items it has yet to delete
  trash,    \* the directories it has yet to remove
  web,      \* the paths under the collection deleteDerivatives is at work on
  listed,   \* the directories it has yet to remove
  dzi,      \* the content whose tiles are being made
  spoiled   \* contents that lost their directory for good while an item's flag says it is there

derived     == <<dir, flag, gen>>
jobVars     == <<job, old, trash>>
webVars     == <<web, listed>>
libraryVars == <<scanVars, derived, jobVars, webVars, dzi, spoiled>>

Own(p)        == row[p].hash
HasVariants(c) == "variants" \in dir[c]
With(c, D)    == [dir EXCEPT ![c] = D]      \* RemoveAll is With(c, {})

LibraryInit ==
  /\ ScanInit
  /\ dir = [c \in Content |-> {}] /\ flag = {} /\ gen = [p \in Path |-> "none"]
  /\ job = "none" /\ old = {} /\ trash = {}
  /\ web = {} /\ listed = {} /\ dzi = None /\ spoiled = {}

-----------------------------------------------------------------------------
(* The scan: its walk touches no derived file. Jobs run one after the other.    *)

WalkStep ==
  /\ \/ Disk \/ FlushEnd \/ BatchEnd
     \/ Walk /\ job = "none"
     \/ \E S \in SUBSET buf : Flush(S) \/ FlushFails(S)
     \/ \E p \in Path : SubStart(p)
  /\ UNCHANGED <<derived, jobVars, webVars, dzi, spoiled>>

\* PhotoUpsert resets variants_generated_at.
ReadExif(p) ==
  /\ Extract(p) \/ ExtractNothing(p)
  /\ flag' = flag \ {p}
  /\ UNCHANGED <<dir, gen, jobVars, webVars, dzi, spoiled>>

-----------------------------------------------------------------------------
(* GenerateItemVariants, in the sub-job *)

Generating(p, from, to) ==
  /\ sub[p] = "extracted" /\ gen[p] = from /\ gen' = [gen EXCEPT ![p] = to]
  /\ UNCHANGED <<scanVars, flag, jobVars, webVars, dzi>>

\* VariantsExist: a copy, or an earlier run, has made them.
FindVariants(p) == Generating(p, "none", "ready") /\ HasVariants(Own(p)) /\ UNCHANGED <<dir, spoiled>>

MakeVariants(p) ==
  /\ Generating(p, "none", "temp") /\ ~HasVariants(Own(p)) /\ Present(p)
  /\ UNCHANGED <<dir, spoiled>>

ClearFinal(p) == Generating(p, "temp", "cleared") /\ dir' = With(Own(p), {}) /\ UNCHANGED spoiled

MoveIntoPlace(p) ==
  /\ Generating(p, "cleared", "ready")
  /\ dir[Own(p)] = {} /\ dir' = With(Own(p), {"variants"})
  /\ spoiled' = spoiled \ {Own(p)}

\* PhotoUpdateVariants.
SetFlag(p) ==
  /\ gen[p] = "ready" /\ SubEnd(p)
  /\ flag' = flag \cup {p} /\ gen' = [gen EXCEPT ![p] = "none"]
  /\ UNCHANGED <<dir, jobVars, webVars, dzi, spoiled>>

\* The contents whose directory goes missing if the sub-jobs of S end here.
Unfinished(S) == {Own(p) : p \in {q \in S : gen[q] = "cleared" /\ ~HasVariants(Own(q))}}

\* No source to load; or the directory is not empty any more and rename refuses;
\* or anything else fails.
GiveUp(p) ==
  /\ \/ SubEnd(p) /\ \/ gen[p] = "none" /\ ~HasVariants(Own(p)) /\ ~Present(p)
                     \/ gen[p] = "cleared" /\ dir[Own(p)] # {}
     \/ SubFails(p)
  /\ gen' = [gen EXCEPT ![p] = "none"] /\ spoiled' = spoiled \cup Unfinished({p})
  /\ UNCHANGED <<dir, flag, jobVars, webVars, dzi>>

-----------------------------------------------------------------------------
(* GenerateDZIIfNotPresent, for a request or a dzi_gen_item job *)

StartTiles(p) ==
  /\ dzi = None /\ Known(p) /\ row[p].missing = "no" /\ "tiles" \notin dir[Own(p)]
  /\ dzi' = Own(p) /\ dir' = With(Own(p), dir[Own(p)] \cup {"partial"})
  /\ UNCHANGED <<scanVars, flag, gen, jobVars, webVars, spoiled>>

\* A failure, and it fails if its directory has been removed, takes the partial
\* output away.
EndTiles ==
  /\ dzi # None /\ dzi' = None
  /\ \E made \in SUBSET {"tiles" : x \in dir[dzi] \cap {"partial"}} :
       dir' = With(dzi, (dir[dzi] \ {"partial"}) \cup made)
  /\ UNCHANGED <<scanVars, flag, gen, jobVars, webVars, spoiled>>

-----------------------------------------------------------------------------
(* Jobs that remove *)

JobStart(kind, rows, dirs) ==
  /\ pc = "idle" /\ job = "none"
  /\ job' = kind /\ old' = rows /\ trash' = dirs
  /\ UNCHANGED <<scanVars, derived, webVars, dzi, spoiled>>

\* orphan_cleanup: directories of no row, missing rows included.
OrphanStart_Present ==
  JobStart("orphan", {}, {c \in Content : dir[c] # {} /\ \A p \in Path : row[p].missing = "no" => Own(p) # c})
OrphanStart ==
  JobStart("orphan", {}, {c \in Content : dir[c] # {} /\ \A p \in Path : Own(p) # c})

\* integrity_check: MediaItemsStale, then each row and its directory.
PruneStart == JobStart("prune", {p \in Path : row[p].missing = "old"}, {})

PruneRow(p) ==
  /\ p \in old /\ trash = {} /\ DeleteRow(p)
  /\ old' = old \ {p} /\ trash' = {Own(p)} /\ flag' = flag \ {p}
  /\ UNCHANGED <<dir, gen, job, webVars, dzi, spoiled>>

PruneFails(p) ==
  /\ p \in old /\ trash = {} /\ FaultElsewhere /\ old' = old \ {p}
  /\ UNCHANGED <<derived, job, trash, webVars, dzi, spoiled>>

RemoveDir(c) ==
  /\ c \in trash /\ trash' = trash \ {c} /\ dir' = With(c, {})
  /\ spoiled' = IF job = "prune" /\ \E p \in flag : Own(p) = c THEN spoiled \cup {c} ELSE spoiled
  /\ UNCHANGED <<scanVars, flag, gen, job, old, webVars, dzi>>

\* Logged, and the directory stays.
RemoveDirFails(c) ==
  /\ c \in trash /\ trash' = trash \ {c} /\ FaultElsewhere
  /\ UNCHANGED <<derived, job, old, webVars, dzi, spoiled>>

JobEnd ==
  /\ job # "none" /\ old = {} /\ trash = {} /\ job' = "none"
  /\ UNCHANGED <<scanVars, derived, old, trash, webVars, dzi, spoiled>>

-----------------------------------------------------------------------------
(* deleteDerivatives, of a collection and its sub-collections *)

DeleteStart(S) ==
  /\ web = {} /\ S # {} /\ web' = S
  /\ listed' = {Own(p) : p \in {q \in S : Known(q) /\ row[q].missing = "no"}}
  /\ UNCHANGED <<scanVars, derived, jobVars, dzi, spoiled>>

\* A copy under another collection keeps its flag. And a sub-job that has just
\* seen the variants will set its flag after all.
DeleteDir(c) ==
  /\ c \in listed /\ listed' = listed \ {c} /\ dir' = With(c, {})
  /\ spoiled' = IF \E p \in Path : Own(p) = c /\ (gen[p] = "ready" \/ p \in flag \ web)
                THEN spoiled \cup {c} ELSE spoiled
  /\ UNCHANGED <<scanVars, flag, gen, jobVars, web, dzi>>

\* Logged, and the others are removed.
DeleteDirFails(c) ==
  /\ c \in listed /\ listed' = listed \ {c} /\ FaultElsewhere
  /\ UNCHANGED <<derived, jobVars, web, dzi, spoiled>>

\* PhotoClearVariantsGenerated, of that collection and its sub-collections.
DeleteEnd ==
  /\ web # {} /\ listed = {} /\ web' = {} /\ flag' = flag \ web
  /\ UNCHANGED <<scanVars, dir, gen, jobVars, listed, dzi, spoiled>>

\* What has gone from behind the flags that were to be cleared.
Bare == {Own(p) : p \in {q \in flag \cap web : Known(q) /\ ~HasVariants(Own(q))}}
DeleteEndFails ==
  /\ web # {} /\ listed = {} /\ web' = {} /\ FaultElsewhere /\ spoiled' = spoiled \cup Bare
  /\ UNCHANGED <<derived, jobVars, listed, dzi>>

-----------------------------------------------------------------------------

\* A restart runs the job again from its list; the request is gone.
LibraryCrash ==
  /\ Crash
  /\ gen' = [p \in Path |-> "none"] /\ job' = "none" /\ old' = {} /\ trash' = {}
  /\ web' = {} /\ listed' = {} /\ dzi' = None
  /\ spoiled' = spoiled \cup Unfinished(Path) \cup Bare
  /\ UNCHANGED <<dir, flag>>

LibraryNext ==
  \/ WalkStep \/ EndTiles \/ OrphanStart \/ PruneStart \/ JobEnd
  \/ DeleteEnd \/ DeleteEndFails \/ LibraryCrash \/ \E S \in Under : DeleteStart(S)
  \/ \E p \in Path : \/ ReadExif(p) \/ FindVariants(p) \/ MakeVariants(p) \/ ClearFinal(p)
                     \/ MoveIntoPlace(p) \/ SetFlag(p) \/ GiveUp(p) \/ StartTiles(p)
                     \/ PruneRow(p) \/ PruneFails(p)
  \/ \E c \in Content : RemoveDir(c) \/ RemoveDirFails(c) \/ DeleteDir(c) \/ DeleteDirFails(c)

LibrarySpec == LibraryInit /\ [][LibraryNext]_libraryVars

-----------------------------------------------------------------------------

\* Types of the state.
LibraryTypeOK ==
  /\ TypeOK
  /\ dir \in [Content -> SUBSET {"variants", "tiles", "partial"}] /\ flag \subseteq Path
  /\ gen \in [Path -> {"none", "temp", "cleared", "ready"}]
  /\ job \in {"none", "orphan", "prune"} /\ old \subseteq Path /\ trash \subseteq Content
  /\ web \subseteq Path /\ listed \subseteq Content
  /\ dzi \in Content \cup {None} /\ spoiled \subseteq Content

\* A flag is not set without the files behind it, missing items included, but
\* while another sub-job swaps the directory, while deleteDerivatives is at work
\* on the item's own collection, or while the content has changed and its sub-job
\* is to come (or was lost). Contents whose directory the code removes for good
\* under a flag it leaves set are spoiled: of a copy under another collection, of
\* a copy of a pruned row, or where a failure, an exit or a deletion cuts in.
FilesBehindFlags ==
  \A p \in flag : Known(p) =>
    \/ HasVariants(Own(p)) \/ Own(p) \in spoiled
    \/ Pending(p) \/ p \in lost \/ p \in web
    \/ \E q \in Path : gen[q] = "cleared" /\ Own(q) = Own(p)
=============================================================================
