--------------------------- MODULE VideoTranscode ---------------------------
(* The way of a video from its scan sub-job to a transcoded rendition: who may  *)
(* attach a video_transcode_item, to what container, what the dispatcher does   *)
(* with the container, and the integrity check that asks for a rendition again. *)
CONSTANTS Video,
          Heavy,       \* videos with a bitrate above TRANSCODE_BITRATE_KBPS
          Unmeasured   \* videos whose row has no bitrate: parseVideoBitrate takes
                       \* strings only, and exiftool -n answers with numbers

VARIABLES
  scan,        \* scan_video sub-job of a video: none, queued, done, failed
  meta,        \* videos with a video_metadata row
  transcoded,  \* those of them with transcoded_at set
  hls,         \* rendition on disk: none, partial, whole
  parent,      \* the video_transcode container: none, queued
  child,       \* videos with a video_transcode_item under the container
  top,         \* videos with a video_transcode_item of its own
  busy         \* the video being transcoded, if any

rows  == <<scan, meta, transcoded>>
items == <<parent, child, top, busy>>
vars  == <<rows, hls, items>>

Nobody == "nobody"

Init ==
  /\ scan = [v \in Video |-> "none"] /\ meta = {} /\ transcoded = {}
  /\ hls = [v \in Video |-> "none"]
  /\ parent = "none" /\ child = {} /\ top = {} /\ busy = Nobody

\* A JobContext has its dispatcher from processNext, for a job of the queue;
\* runSubJob builds one without.
HasDispatcher == [job |-> TRUE, subJob |-> FALSE]

\* AttachTranscodeSubJob returns at once when it has no dispatcher.
AttachTranscodeSubJob(context, v) ==
  IF HasDispatcher[context]
    THEN parent' = "queued" /\ child' = child \cup {v} /\ UNCHANGED <<top, busy>>
    ELSE UNCHANGED items

\* The collection scan queues a sub-job for a new or changed file.
QueueScan(v) ==
  /\ scan[v] \in {"none", "failed"} /\ scan' = [scan EXCEPT ![v] = "queued"]
  /\ UNCHANGED <<meta, transcoded, hls, items>>

\* VideoUpsert keeps transcoded_at.
ScanVideo(v) ==
  /\ scan[v] = "queued"
  /\ \/ /\ scan' = [scan EXCEPT ![v] = "done"] /\ meta' = meta \cup {v}
        /\ IF v \in Heavy \ transcoded
             THEN AttachTranscodeSubJob("subJob", v)
             ELSE UNCHANGED items
     \/ scan' = [scan EXCEPT ![v] = "failed"] /\ UNCHANGED <<meta, items>>
  /\ UNCHANGED <<transcoded, hls>>

\* An administrator may queue an empty container.
CreateContainer ==
  /\ parent = "none" /\ parent' = "queued"
  /\ UNCHANGED <<rows, hls, child, top, busy>>

\* The container's handler does nothing and buffers nothing, so that the
\* dispatcher marks it done, which deletes what is attached to it.
RunContainer ==
  /\ parent = "queued" /\ busy = Nobody
  /\ parent' = "none" /\ child' = {}
  /\ UNCHANGED <<rows, hls, top, busy>>

\* HandleVideoTranscodeItem: skipped when it is done or the bitrate is known to be
\* low; a video without one is transcoded, though its scan asks for nothing.
StartTranscode(v) ==
  /\ v \in top /\ busy = Nobody
  /\ IF v \in (meta \cap (Heavy \cup Unmeasured)) \ transcoded
       THEN busy' = v /\ hls' = [hls EXCEPT ![v] = "partial"] /\ UNCHANGED top
       ELSE top' = top \ {v} /\ UNCHANGED <<busy, hls>>
  /\ UNCHANGED <<rows, parent, child>>

\* VideoSetTranscodedAt; its error is only logged.
EndTranscode ==
  /\ busy # Nobody /\ busy' = Nobody /\ top' = top \ {busy}
  /\ \/ hls' = [hls EXCEPT ![busy] = "whole"] /\ transcoded' \in {transcoded, transcoded \cup {busy}}
     \/ UNCHANGED <<hls, transcoded>>
  /\ UNCHANGED <<scan, meta, parent, child>>

\* checkVideoDerivatives, for one video: the manifest is gone.
RequeueBroken(v) ==
  /\ busy = Nobody /\ v \in transcoded /\ hls[v] = "none"
  /\ transcoded' = transcoded \ {v}
  /\ top' \in {top, top \cup {v}}
  /\ UNCHANGED <<scan, meta, hls, parent, child, busy>>

\* Orphan cleanup, a pruned copy or an administrator removes the directory.
LoseRendition(v) ==
  /\ hls[v] # "none" /\ hls' = [hls EXCEPT ![v] = "none"]
  /\ UNCHANGED <<rows, items>>

Next ==
  \/ CreateContainer \/ RunContainer \/ EndTranscode
  \/ \E v \in Video : QueueScan(v) \/ ScanVideo(v) \/ StartTranscode(v) \/ RequeueBroken(v) \/ LoseRendition(v)

Spec == Init /\ [][Next]_vars

\* "attach transcode sub-job if needed": once the scan of a heavy video has
\* ended well, it is transcoded or a transcode of it is to come.
HeavyVideoIsQueued ==
  \A v \in Heavy : scan[v] = "done" => v \in transcoded \cup child \cup top
=============================================================================
