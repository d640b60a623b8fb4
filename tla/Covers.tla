------------------------------- MODULE Covers -------------------------------
(* The cover of a collection, an artist, an album or a video: a file (two for   *)
(* an album) written by jobs and by uploads, and the flag that tells the jobs   *)
(* that an administrator has chosen the picture. The file and the flag are      *)
(* written in two steps, and the jobs read them in two.                         *)
EXTENDS Naturals

CONSTANTS Worker,      \* sub-jobs of a scan that may run at once
          Upload,      \* the uploads, each of a picture of its own
          MaxFaults    \* bound of the instance

ASSUME CoversAssumption == Upload \cap {"none", "auto"} = {} /\ MaxFaults \in Nat

VARIABLES
  kind,      \* whose cover it is
  small,     \* the picture in the 400 px file: none, auto, or the upload it is from
  large,     \* the same for the 1280 px file, albums only
  manual,    \* manual_thumbnail, manual_cover
  job,       \* the job that is running: none, scan, thumbnail_scan, cover_cycle
  act,       \* what a worker of it has got to: idle, listed, small, large
  up,        \* the step each upload is at: new, large, flag, done
  del,       \* the step a delete is at: none, large, flag
  faults,
  \* history
  forfeit,   \* the last upload met a job or a delete, left no second file, or was lost
  mixed      \* the last upload met another one, or did not get to its second file

jobVars == <<job, act>>
vars    == <<kind, small, large, manual, jobVars, up, del, faults, forfeit, mixed>>

Kind    == {"collection", "artist", "album", "video"}
Quiet   == \A w \in Worker : act[w] = "idle"
Serving == {u \in Upload : up[u] \in {"large", "flag"}}
Fault   == faults < MaxFaults /\ faults' = faults + 1

Init ==
  /\ kind \in Kind /\ small = "none" /\ large = "none" /\ manual = FALSE
  /\ job = "none" /\ act = [w \in Worker |-> "idle"]
  /\ up = [u \in Upload |-> "new"] /\ del = "none" /\ faults = 0
  /\ forfeit = FALSE /\ mixed = FALSE

-----------------------------------------------------------------------------
(* The jobs *)

\* The covers each job looks after, and those it leaves alone when they are manual.
CaresFor == {"scan"} \X Kind \cup {"thumbnail_scan"} \X {"collection", "album", "video"}
              \cup {"cover_cycle"} \X {"collection", "artist"}
ReadsFlag == {"scan"} \X {"artist", "album", "video"} \cup {<<"thumbnail_scan", "video">>}
               \cup {"cover_cycle"} \X {"collection", "artist"}

JobStart(j) ==
  /\ job = "none" /\ <<j, kind>> \in CaresFor /\ job' = j
  /\ UNCHANGED <<kind, small, large, manual, act, up, del, faults, forfeit, mixed>>
JobEnd ==
  /\ job # "none" /\ Quiet /\ job' = "none"
  /\ UNCHANGED <<kind, small, large, manual, act, up, del, faults, forfeit, mixed>>

\* The flag is read with the list of what is to be done; only a scan has sub-jobs.
List_All(w) ==
  /\ job # "none" /\ act[w] = "idle" /\ (job = "scan" \/ Quiet)
  /\ job # "cover_cycle" /\ <<job, kind>> \in ReadsFlag => ~manual
  /\ act' = [act EXCEPT ![w] = "listed"]
  /\ forfeit' = (forfeit \/ Serving # {})
  /\ UNCHANGED <<kind, small, large, manual, job, up, del, faults, mixed>>
List(w) ==
  /\ job # "none" /\ act[w] = "idle" /\ (job = "scan" \/ Quiet)
  /\ <<job, kind>> \in ReadsFlag => ~manual
  /\ act' = [act EXCEPT ![w] = "listed"]
  /\ forfeit' = (forfeit \/ Serving # {})
  /\ UNCHANGED <<kind, small, large, manual, job, up, del, faults, mixed>>

\* The files are looked at when their turn comes; cover_cycle replaces them anyway.
Wanted ==
  \/ job = "cover_cycle" \/ small = "none"
  \/ job = "thumbnail_scan" /\ kind = "album" /\ large = "none"

Look(w) ==
  /\ act[w] = "listed"
  /\ act' = [act EXCEPT ![w] = IF Wanted THEN "small" ELSE "idle"]
  /\ UNCHANGED <<kind, small, large, manual, job, up, del, faults, forfeit, mixed>>

\* No track, item or album to take a picture from.
NoSource(w) ==
  /\ act[w] = "small" /\ act' = [act EXCEPT ![w] = "idle"]
  /\ UNCHANGED <<kind, small, large, manual, job, up, del, faults, forfeit, mixed>>

\* Each file is replaced by a rename. An album's second file is tried even if the
\* first has failed.
WriteSmall(w) ==
  /\ act[w] = "small"
  /\ act' = [act EXCEPT ![w] = IF kind = "album" THEN "large" ELSE "idle"]
  /\ \/ small' = "auto" /\ UNCHANGED faults
     \/ Fault /\ UNCHANGED small
  /\ UNCHANGED <<kind, large, manual, job, up, del, forfeit, mixed>>
WriteLarge(w) ==
  /\ act[w] = "large" /\ act' = [act EXCEPT ![w] = "idle"]
  /\ \/ large' = "auto" /\ UNCHANGED faults
     \/ Fault /\ UNCHANGED large
  /\ UNCHANGED <<kind, small, manual, job, up, del, forfeit, mixed>>

-----------------------------------------------------------------------------
(* Uploads and deletes *)

\* Only an album has a second file.
AfterSmall_Flag == "flag"
AfterSmall_Large == "large"
AfterSmall == IF kind = "album" THEN "large" ELSE "flag"

UploadSmall(u) ==
  /\ up[u] = "new" /\ up' = [up EXCEPT ![u] = AfterSmall] /\ small' = u
  /\ forfeit' = (~Quiet \/ del # "none") /\ mixed' = (Serving # {})
  /\ UNCHANGED <<kind, large, manual, jobVars, del, faults>>

\* A failure is logged, and the upload goes on.
UploadLarge(u) ==
  /\ up[u] = "large" /\ up' = [up EXCEPT ![u] = "flag"]
  /\ \/ large' = u /\ UNCHANGED <<faults, forfeit, mixed>>
     \/ Fault /\ mixed' = TRUE /\ forfeit' = (forfeit \/ large = "none") /\ UNCHANGED large
  /\ UNCHANGED <<kind, small, manual, jobVars, del>>

UploadFlag(u) ==
  /\ up[u] = "flag" /\ up' = [up EXCEPT ![u] = "done"]
  /\ \/ manual' = TRUE /\ UNCHANGED faults
     \/ Fault /\ UNCHANGED manual
  /\ UNCHANGED <<kind, small, large, jobVars, del, forfeit, mixed>>

DeleteSmall ==
  /\ del = "none" /\ small' = "none" /\ del' = AfterSmall
  /\ forfeit' = (forfeit \/ Serving # {})
  /\ UNCHANGED <<kind, large, manual, jobVars, up, faults, mixed>>

DeleteLarge ==
  /\ del = "large" /\ large' = "none" /\ del' = "flag"
  /\ UNCHANGED <<kind, small, manual, jobVars, up, faults, forfeit, mixed>>

DeleteFlag ==
  /\ del = "flag" /\ del' = "none"
  /\ \/ manual' = FALSE /\ UNCHANGED <<faults, forfeit>>
     \/ Fault /\ forfeit' = TRUE /\ UNCHANGED manual
  /\ UNCHANGED <<kind, small, large, jobVars, up, mixed>>

-----------------------------------------------------------------------------

\* A video's cover lies in the directory of its content: it is out of sight when
\* the content changes, and removed with the derivatives.
LoseDirectory ==
  /\ kind = "video" /\ small # "none" /\ small' = "none" /\ forfeit' = TRUE
  /\ UNCHANGED <<kind, large, manual, jobVars, up, del, faults, mixed>>

\* Process exit: jobs and requests stop where they are.
Crash ==
  /\ Fault /\ job' = "none" /\ act' = [w \in Worker |-> "idle"] /\ del' = "none"
  /\ up' = [u \in Upload |-> IF u \in Serving THEN "done" ELSE up[u]]
  /\ forfeit' = (forfeit \/ del # "none" \/ (large = "none" /\ \E u \in Upload : up[u] = "large"))
  /\ mixed' = (mixed \/ \E u \in Upload : up[u] = "large")
  /\ UNCHANGED <<kind, small, large, manual>>

Next ==
  \/ \E j \in {"scan", "thumbnail_scan", "cover_cycle"} : JobStart(j)
  \/ \E w \in Worker : List(w) \/ Look(w) \/ NoSource(w) \/ WriteSmall(w) \/ WriteLarge(w)
  \/ JobEnd \/ LoseDirectory \/ Crash
  \/ \E u \in Upload : UploadSmall(u) \/ UploadLarge(u) \/ UploadFlag(u)
  \/ DeleteSmall \/ DeleteLarge \/ DeleteFlag

Spec == Init /\ [][Next]_vars

-----------------------------------------------------------------------------

\* Types of the state; only an album has a large file, written or removed last.
TypeOK ==
  /\ kind \in Kind /\ {small, large} \subseteq Upload \cup {"none", "auto"} /\ manual \in BOOLEAN
  /\ job \in {"none", "scan", "thumbnail_scan", "cover_cycle"}
  /\ act \in [Worker -> {"idle", "listed", "small", "large"}]
  /\ up \in [Upload -> {"new", "large", "flag", "done"}] /\ del \in {"none", "large", "flag"}
  /\ kind # "album" => large = "none" /\ del # "large" /\ \A u \in Upload : up[u] # "large"
  /\ faults \in 0..MaxFaults /\ forfeit \in BOOLEAN /\ mixed \in BOOLEAN

\* No job replaces a picture that the flag protects. It takes an upload that ran
\* into a job already at work on the cover or into a delete, an album left without a
\* large file (thumbnail_scan then makes both again, whatever the flag), or a video
\* that lost its directory: in these cases the code does replace it (H38).
ManualCoverKept == manual /\ del = "none" => small \in Upload \/ forfeit

\* When nobody is at work on an album, its two files are of one upload: the jobs
\* change neither, and no half of a delete is left. It takes one of the cases above,
\* or that the last upload ran beside another one, failed to write its large file or
\* was cut off before it: then the sizes do differ, and stay so.
ManualSizesAgree ==
  kind = "album" /\ manual /\ del = "none" /\ Serving = {} => large = small \/ forfeit \/ mixed
=============================================================================
