# bokeh-media-server: verification project

A media server in Go: it scans collections of photos, videos and audio on disk
into PostgreSQL, derives thumbnails, tiles and HLS renditions, and serves them
to authenticated devices. All background work goes through one job dispatcher;
on-the-fly video streaming pauses it.

This directory holds TLA+ modules of the parts of the server whose correctness
depends on the order of steps of several actors, TLC configurations that check
them on small instances, and proofs checked by TLAPS.

## 1. The system: components, state, operations

| Component | Source | State | Operations | Here |
|---|---|---|---|---|
| Job dispatcher and jobs table | `internal/jobs/dispatcher.go`, `jobs_common.go`, `internal/repository/jobs.go` | rows of `jobs`; in-memory queue, `wakeCh`, `paused`, handler table; position of the loop | `Enqueue`, `Register`, `Pause`/`Resume`, `loadFromDB`, `processNext`, `FlushSubJobs`, `executeSubJobs`, `runSubJob`, `JobsResetStuck` | modelled, proved |
| Segment set | `internal/streaming/segmentset.go` | sorted list of ranges of available segments | `add`, `contains`, `firstAvailableAfter` | modelled, proved |
| Streaming session | `internal/streaming/session.go` | ffmpeg process, segment set, current segment of an item | `ServeSegment`, `seekTo`, `killAfterCurrentSegment`, `watchSegments`, `waitAndLog`, `proactiveGapFill`, `cleanupSession` | modelled, proved |
| Session table and sweeper | `streaming/session.go`, `api/video.go` | the global session map, last activity, the pause of the dispatcher | `GetOrCreateSession`, `GetSession`, `ServeManifest`, `sweepIdleSessions` | modelled, proved |
| Devices, tokens, guard | `api/auth.go`, `api/device_guard.go`, `api/middleware.go`, `internal/auth`, `repository/devices.go`, `users.go`, `device_cleanup.go` | `devices` rows with current and previous refresh-token hash, bans; in-memory banned and revoked sets | login, refresh, logout, ban/unban, revoke, password change, user deletion, cleanup | modelled, proved |
| Collection scan | `jobs/definitions/collection_scan.go`, `scan_*.go`, `metadata_scan_common.go`, `repository/media_item.go` | `media_items` rows (hash, size, mtime, `missing_since`), metadata rows | walk, create/update/mark missing, buffer `scan_*` sub-jobs, apply metadata | modelled, proved |
| Derived data | `internal/imaging`, `dzi_gen.go`, `orphan.go`, `integrity.go`, `api/admin.go` | files under the data path keyed by hash, `variants_generated_at` | generate variants and tiles, prune stale items, delete orphans, delete derivatives | modelled, proved |
| Video pipeline | `scan_video.go`, `video_transcode.go`, `integrity.go` | `video_metadata.transcoded_at`, HLS directory of a hash | attach, transcode, clear and re-queue | partly modelled |
| Cover cycling and manual covers | `cover_cycle.go`, `thumbnail_scan.go`, `scan_audio.go`, `api/admin.go` | cover files, `manual_thumbnail` and `manual_cover` flags | generate, cycle, upload, delete | modelled, proved |
| Scheduler | `internal/jobs/scheduler.go`, `repository/job_schedule.go` | loaded cron schedules, time of the last load, `reloadCh` | `reloadSchedules`, wait for the earliest trigger, `triggerCollectionScans`, `triggerByType` | modelled, proved |
| Login rate limiter | `api/rate_limiter.go` | attempts and locks per key in LRU caches | `IsLocked`, `Record` | not modelled |
| Exiftool process | `jobs/utils/exifutil.go` | a pool of processes behind mutexes | extract, replace a dead process | not modelled |
| Admin handlers, HTTP reads, start-up, schema, parsing | `internal/api`, `cmd/server`, `internal/db` | none of their own | statements, queries | where another module meets them |

How they interact: HTTP handlers and the scheduler insert rows through
`Enqueue`, which also appends to the in-memory queue and signals the loop; the
loop polls the table every 15 s, so the table is the durable queue and the
memory a cache of it. Handlers buffer sub-jobs in their `JobContext`; the
dispatcher flushes them after the handler returns and runs them in parallel.
Streaming calls `Pause` when a session is created, and its 30 s sweeper calls
`Resume` when the last session is gone. The device guard is a write-through
cache of bans and revocations that every authenticated request reads. A scan
writes rows whose hash names the directory of derived files; its own sub-jobs,
other jobs and HTTP requests write and remove those directories, which copies
of a file share.

What is hard: the two copies of the queue; restarts between any two statements;
statements that fail or whose answer is lost; check-then-insert by concurrent
callers; the pause flag against work under way; seeks, watchers and the sweeper
sharing one session; token rotation with lost answers; a file system that
changes during a walk that may take hours; files, flags and rows that are not
updated together; a timer, a signal and a clock that meet in one `select`.

`PROJECT.json` lists each hazard with its line, and the properties that would
catch it going wrong. What makes each part correct, in a line:

| Component | Correct when |
|---|---|
| Dispatcher | one job at a time; no job lost, run again once finished, or left in `running`; sub-jobs run before their parent ends; at most one top-level start while paused; queued jobs end |
| Streaming | the range list says what is on disk; one reachable ffmpeg per session; every request ends; once a stream has paused the jobs, no more than one already picked starts, and they resume when nobody streams |
| Devices | the number of devices stays bounded, racing evictions counted; an honest client is never taken for a thief; the guard agrees with the table; what is deleted is refused |
| Collection scan | after a scan every file that stood still has a row with its hash, and no other row is there; a changed file cannot hide from the next scan; stale metadata is about to be read again; only what was absent is marked missing |
| Derived data | a flag that says files exist is true, or a sub-job is queued that makes it so |
| Covers | a cover an administrator chose is not overwritten; an album's two sizes are of one picture |
| Video pipeline | a video over the bitrate threshold is transcoded or queued |
| Scheduler | every due time after a load is triggered, once; a change is in force eventually |

## 2. Modules

Which module extends, instantiates or is proved by which:

| Component module | Abstract specification | Instance for TLC | Proofs |
|---|---|---|---|
| `Dispatcher` | `SequentialQueue`, implemented under the mapping `Promise` | `MCDispatcher` | `DispatcherProofs` |
| `SegmentSet` | its history variable `added`, a set | | `SegmentSetProofs` |
| `StreamEncoder` | | | `StreamEncoderProofs` |
| `StreamSessions` | | | `StreamSessionsProofs` |
| `DeviceAuth` | | `MCDeviceAuth` | `DeviceAuthProofs` |
| `CollectionScan` | | | `LibraryProofs`, first part |
| `Library`, which composes `CollectionScan` with the derived files | `CollectionScan!ScanSpec` | `MCLibrary` | `LibraryProofs`, second part |
| `VideoTranscode` | | | |
| `Covers` | | | `CoversProofs` |
| `Scheduler` | | `MCScheduler` | `SchedulerProofs` |

### Dispatcher (core)

`Dispatcher.tla` models the jobs table, the loop and the goroutines that enqueue.
One action is one SQL statement or one `queueMu` critical section, in the order
of the code, so every point where another goroutine, a crash or a failing
statement can intervene is a state.

| Code | Model |
|---|---|
| row of `jobs` | `status[j]`, `type[j]`, `related[j]`, `parent[j]`; "absent" before INSERT and after DELETE; ids of top-level rows (`TopId`) and of sub-jobs (`SubId`) are two ranges, for the two never mix in a query |
| `Dispatcher.queue`, `wakeCh`, `paused`, `handlers` | `queue`, `wake`, `paused`, `regs` (the number of `Register` calls made) |
| position in `run`/`processNext`/`executeSubJobs` | `pc`: idle, load, process, fetch, handler, flush, claim, batch, finish; `cur` is the job |
| `JobContext.subJobBuf`, FlushSubJobs's count | `buf`, `flushed` |
| goroutines of a batch | `batch`, the claimed sub-jobs that have not ended |
| `createJob`, the scheduler | a client goes `CheckActive`, `EnqueueRow`, `EnqueueEntry` |
| an SQL statement | an outcome o: "ok", "err" (not executed), "lost" (executed, error returned) |
| restart | `Crash` (also `Stop`, whose cancelled context makes later statements fail), then `Boot` (JobsResetStuck, `Start`) and the `Register` calls, which race the loop |

`createCollection` enqueues a scan for a row it has just created; with a fresh
related id the active check could not fail, so it is a client too. What a handler
does is a parameter: it fails, inserts top-level rows (integrity_check), or
leaves one of the buffers in `Emits[type]`.

`SequentialQueue.tla` is the abstract specification: jobs are submitted, taken
one at a time, finished or given back; a finished job is never taken.
`Dispatcher` implements it under the mapping `Promise`: `running` is the job the
goroutine executes, `waiting` the other unfinished rows, `finished` the ended ones.

`MCDispatcher.tla` gives TLC two handler tables: the shipped one with a type per
kind of handler, and one whose transcode container buffers sub-jobs (the
dispatcher supports it; the shipped container never does).

### SegmentSet

The list of available segments, `segmentset.go`. `Pos` is the binary search by
what it finds; `Merge`, `ExtendLeft`, `ExtendRight` and `InsertNew` are the four
cases of `add`; `ContainsRun` and `FirstAvailableAfter` are its two queries.
`added` is the set the list stands for, against which everything is compared.

### StreamEncoder

One session, `session.go`. It uses the *set* of available segments, which
SegmentSet shows the list to be.

| Code | Model |
|---|---|
| `Session.segments`, `currentSegment`, `cmd` | `segments`, `currentSegment`, `cmd` |
| the directory, and fsnotify's queue | `file`, `events` |
| an ffmpeg process (external) | `proc[p]`: it creates a segment file, finishes it, goes on, exits; `reaped` says whether a `Wait` has taken its status |
| `ServeSegment` and the goroutines of `proactiveGapFill` | `thread[t]`: check (the gap), head (read `currentSegment`), kill, start, publish (store `s.cmd`), wait, served. The lock is released between any two of them |
| `waitAndLog`, one goroutine per ffmpeg | `waiter[p]`: spawned, waiting (with the `cmd` it read), scanned, done |
| `watchSegments` | `WatchEvent`, with the test of line 394 as it is written |
| `cleanupSession` | `CleanupSession`; handlers still under way go on without the session |

The test of line 394 is inverted (section 5); the properties are about what it
leaves intact. `overlapped` remembers that two `seekTo` have been under way at
once: then two ffmpegs run (a finding), and `EncoderIsReachable` and
`NoZombies` say what holds until then.

### StreamSessions

The table of sessions, the sweeper, the pause flag and, as far as they can see it, the
dispatcher's loop.

| Code | Model |
|---|---|
| `sessionsMu` | `sweep` (the sweeper holds it for a whole sweep) and `Creating` (`GetOrCreateSession` holds it while it makes a session); a handler that looks a session up waits, one that already has one does not |
| `GetOrCreateSession` | `FindSession`, or `StartFFmpeg`, `InsertSession` and `Pause`: three steps, between which the loop runs |
| `processNext` | `PickJob` (reads the flag), `StartJob` (does not read it again), `LoopAround` |
| `lastActivity` | `stale`, one bit: older or not than 15 minutes. A request that began before the last touch has ended by then (its deadline is 12 seconds), which is what `touched` is for |

`besides` counts the top-level jobs started since the first stream's `Pause`. Before it,
while ffmpeg already runs, the loop starts what it likes, and a job in hand goes on with
its batches (section 5).

### DeviceAuth

The `devices` table and the guard. One action is one statement or one critical
section of the guard.

| Code | Model |
|---|---|
| row of `devices` | `row[id]`: installation, present, current and previous hash, banned, stale, order of last use. A deleted row keeps its installation, for its access tokens outlive it |
| `DeviceGuard.banned` | `banned` |
| `DeviceGuard.revoked` | `revoked[id]`: no entry; one that "covers" every access token of the id; one "older" than a token issued after it, which it will not outlive |
| access tokens | `access`, the ids with one that has not expired |
| refresh tokens | numbers in the order they are stored; `held[d]` is what the installation has (external: a client stores what it is sent) |
| a request in flight | `r[q]`: count, evict, delete, evicted, create (login of a new device), find, update (rotation), accused, revoke (theft), respond, guardBan, guardUnban |
| `HandleDeviceCleanup` | `CleanupList`, `CleanupDelete`, between which rows change |
| start-up | `Restart`: bans are loaded, revocations and requests in flight are gone |

`LoginChoose` and `LoginEvict` are the subquery and the DELETE of `DeviceEvictLRU`. Under
READ COMMITTED two of them may choose the same row; the second then finds it gone,
deletes nothing, and the login goes on to create its device. `missed` counts these, and
the bound of `DevicesBounded` grows with it.

History variables name what a property has to leave out because the code does it:
`missed`, as above; `unbans`, how often an unban has added a device; `spoiled`, users one of
whose installations lost an answer, sent two requests at once, or had its data
copied; `unguarded`, deleted ids whose deletion the guard is not told of (password
change, user deletion, cleanup) or has forgotten (restart); `disputed`, ids with a
ban and an unban in flight together; `foreign`, ids that another user, or anybody before
the row was there, has banned or unbanned (`Meddling`): the statement touches no row and
the guard is changed all the same.

Abstractions: hashes are compared, never computed; the refresh token's expiry and
the year of the cleanup job are one bit, `stale`, set only when nothing of the
device is in flight; roles, local-only access, passwords and the rate limiter are left
out. A ban or unban may name any id and come from any authorized device.

### CollectionScan

One collection. `Disk` is the file system, which changes at any moment; `Walk` and
`SubJobs` are the job, one statement or one look at the disk per action.

| Code | Model |
|---|---|
| a file on disk | `file[p]`: its content (what the hash tells apart) and mtime |
| row of `media_items`, with its `photo_`/`video_metadata` row | `row[p]`: `hash`, `mtime` (as the column keeps it: `Stored` rounds down to its precision, `Grain`), `missing` ("old" after the ninety days of the integrity check), `meta`: what content the metadata was read from, or "blank" |
| the handler's position, `walkFolders`'s progress | `pc` (idle, walk, mark, flush, batch; again after a restart), `todo` |
| `seenPaths` | `seen` |
| `processFile`: `os.Stat`, `computeFileHash`, the statement | `VisitChanged` (stat), `ReadHash`, `Store`; `at` holds the stat and the hash between them |
| the fast path | `VisitUnchanged` |
| `MediaItemsForScan`, `MediaItemMarkMissing` | `WalkEnd`, `Mark` |
| `FlushSubJobs`, the batches | `Flush`, `SubStart`, `Extract`, `SubEnd`; `buf` and `sub[p]` |
| an error of a statement, a file or a directory | `VisitFails`, `StoreFails`, `WalkEndFails`, `MarkFails`, `FlushFails`, `SubFails`, `ExtractNothing` |
| process exit and `JobsResetStuck` | `Crash` |

The walk takes paths in any order, which contains the lexical order of `WalkDir`.
A sub-job runs only if its row is not missing (`MediaItemForProcessing`).
History variables excuse what the code cannot know: `lost`, sub-jobs gone with a
crash or a failure; `raced`, metadata read from a file that had changed since it was
hashed; `backdated`, files put in place with an mtime no later than the one
known; `away` and `disturbed`, paths that were absent, or changed, since the scan began.

### Library

Extends CollectionScan with the directories of derived files, keyed by content.
Every step of it is a step of `ScanSpec` or leaves the scan alone; that is proved.

| Code | Model |
|---|---|
| the directory of a hash | `dir[c]`: "variants" (all or none: `rename` moves a complete set), "tiles", "partial" tiles |
| `variants_generated_at` | `flag`; `PhotoUpsert` resets it (`ReadExif`), `PhotoUpdateVariants` sets it (`SetFlag`) |
| `GenerateItemVariants` | `gen[p]`: temp directory made, final directory removed ("cleared"), renamed ("ready"). Two sub-jobs of one content interleave |
| `GenerateDZIIfNotPresent`, under its key's lock | `StartTiles`, `EndTiles`; `dzi` |
| `orphan_cleanup`, `integrity_check`'s prune | `job`, `old` (the rows listed), `trash` (the directories); listed first, removed one by one |
| `deleteDerivatives` | `web`, the paths under the named collection and its sub-collections; `listed`, the hashes it found there; then `PhotoClearVariantsGenerated` (`DeleteEnd`), of those paths only |

`spoiled` names the contents whose directory went while an item's flag stayed, which
nothing repairs: the prune of a copy; `deleteDerivatives` of a collection that has a copy
of an item of another one; a crash or a failure between the removal and the rename, or
between the removal and the clearing of the flags; a sub-job that had just seen the
variants. `FilesBehindFlags` holds everything else to the rule. `Under` says which paths are
under each collection a request may name. Sources are taken to be larger than the
largest variant; those that are not get no thumbnail file and are generated again
by every sub-job.

### VideoTranscode

The way of a video to its rendition: `scan_video`, `AttachTranscodeSubJob`, the container
and its deletion by `JobMarkDone`, `HandleVideoTranscodeItem`, and `checkVideoDerivatives`.
`HasDispatcher` is the point of it: `runSubJob` builds its context without a dispatcher,
and `scan_video` only runs there. `StartTranscode`, `EndTranscode` and `RequeueBroken`
are written as the code is, and cannot happen from an empty database: nothing ever
queues a first transcode. `Unmeasured` are the videos without a bitrate, which would be
transcoded if asked for, though their scan never asks.

### Covers

One cover, whose `kind` is chosen at the start and decides which jobs care for it
(`CaresFor`) and which of them read the flag (`ReadsFlag`). `small` and `large` say whose
picture each file holds: a job's, or that of one of the uploads, which overlap freely and
each write small file, large file and flag in three steps (`up[u]`). `manual` is the flag,
`act[w]` a worker between its query, its look at the disk and its writes, `del` a delete.
`forfeit` and `mixed` name the uploads the code does not protect: those that met a job or a
delete half way or left no large file; and those that met another upload, or got no
further than the first file, so that the two sizes are of two pictures (section 5).

### Scheduler

The loop of `scheduler.go`. Time is counted in half minutes, the tolerance of a
trigger: an even instant is a minute a cron expression can name.

| Code | Model |
|---|---|
| `jobs_schedule` | `table`, written by the API (`Write`) or by hand (`WriteUntold`) |
| `reloadCh`, of capacity one | `signal` |
| `schedules`, `lastLoad` | `loaded`, `lastLoad` |
| position of `run` | `pc`: load, plan (compute the next times), wait, trigger, exit |
| `items`, the times computed for one wait | `items`; `since` is when the wait began |
| the three cases of `select` | `WakeReload`, `WakeHour`, `WakeTimer`: any that is ready |
| `triggerCollectionScans`, `triggerByType` | `Trigger`, per schedule; `active` are the jobs under way |

`done` and `twice` record what was triggered; `excused` the due times that passed while
the loop was elsewhere (loading, triggering, woken by another case, overslept);
`late` that a sleep was overrun; `untold` that the table may differ without a signal.

## 3. Runs

| Run | Question | Result |
|---|---|---|
| dispatcher_faults | two callers, pause, one crash and one failing or unanswered statement anywhere: one job at a time, rows and loop agree, at most one top-level start while paused, finished jobs stay finished, refinement of SequentialQueue | holds |
| dispatcher_live | one caller, yielding transcodes, a restart: queued jobs end once streaming no longer pauses; one active job per request; undisturbed, no sub-job is deleted before it ends | holds under `FairSpec` |
| segment_set | every order of adding ten segments: the list is canonical, exact, and its queries are right | holds |
| stream_encoder | a handler, a gap fill, three ffmpegs: reachable encoder, no zombie, requests end | holds under `LiveSpec` |
| stream_one_ffmpeg | one ffmpeg per session, with two handlers | violated: seeks overlap |
| stream_sessions | two items, two handlers, the sweeper, the loop: at most one job starts beside streams that have paused it, and it resumes when they stop | holds under `LiveSpec` |
| device_auth | two installations of a user and one of another, two requests at once, two changes: device limit, honest clients, guard against table | holds |
| device_relogin | a second device that signs in again succeeds | violated: UNIQUE on the empty hash |
| library | two files that may be copies, changing during and between scans, every job and request that makes or removes derived files, of one collection or another, a failure and a crash: rows against the disk, metadata against rows, flags against files | holds |
| video_never_transcoded | a scanned video over the threshold is transcoded or queued | violated: nothing attaches it |
| covers | each kind of cover, three uploads that may overlap, deletes, every job that generates covers: an administrator's picture stays, an album's two sizes agree | holds |
| scheduler | two schedules, changes, failures, oversleeping: every due time is triggered once, every change is in force eventually | holds under `Spec`'s fairness |

Each property of a passing run has a mutant in `PROJECT.json`: the operator with a
suffix beside the definition it changes (`LoginCount_OffByOne`), with which TLC
finds the property violated.

Bounds.

- Dispatcher: `MaxTop` and `MaxSub` (2 and 2) bound the rows ever inserted, `MaxCrashes` and
  `MaxFaults` the crashes and failing statements (1 and 1; the liveness run has 1 and 0);
  `FlushSize` and `ClaimLimit` are 1 (500 and 100 in the code), so two buffered
  sub-jobs take two flushes and two claims. Two top-level rows give a queued job
  behind a running one and a duplicate queue entry; a second crash or fault repeats
  the first, since a crash leaves only the table and a fault only a row's status.
- SegmentSet: with ten numbers up to five ranges exist at once, so there are ranges
  on both sides of a merge, and gaps of one and of several segments.
- StreamEncoder: two segments, a look-ahead of 0 (so that a request for the segment
  after the one being encoded already seeks) and three ffmpegs: the first, the one of
  a seek, and the one that replaces that.
- StreamSessions: two items and two handlers: one session idle while another is in use,
  and two requests on one session. No other bound; `besides` never passes 1.
- DeviceAuth: a limit of one device; two installations of a user, so that a second login
  evicts, and one of another user, so that strangers ban; two requests, which may choose
  the same row. `MaxId` (2) rows ever inserted, `MaxToken` (2) sessions stored, and `MaxChanges` (2)
  of everything that is not a login or a refresh. Two rows give an eviction or a sibling,
  two tokens a rotation and a replay of the first; 2.3 million states. More devices and
  tokens are for the proofs, which have no such bound.
- Library: two paths and two contents (a copy, a replacement, a move), mtimes 0 and 1
  (the column as precise as the disk), two changes of the disk, one failure, one crash;
  every job may run any number of times. Two changes give a file that comes back and one
  that is replaced during a scan. Paths and contents are symmetric; 3.7 million
  states. Each path is under a collection of its own (`Under`), so that of two copies `deleteDerivatives` is
  asked for one; collections with several paths, and nested ones, are for the proofs.
  With `Grain` above 1 the fast path is only taken less often; the proofs cover it.
- VideoTranscode: three videos: over the threshold, without a bitrate, and neither.
- Covers: two workers, so that two sub-jobs overlap; three uploads, so that two overlap over the
  picture of a third; two failures or exits.
- Scheduler: two schedules of two expressions that coincide once, three minutes in half-minute
  ticks, an "hour" of a minute and a half so that it falls between due times; one change
  through the API, and one failure or change by hand.

Deadlock is checked for the dispatcher, SegmentSet and StreamSessions. The other
configurations say `CHECK_DEADLOCK FALSE`, because these systems may really stop: a
session that is closed, whose handlers are done, has nothing left to do
(StreamEncoder); a server whose devices have used up the bounds is idle
(DeviceAuth); likewise Library and Covers once nothing is asked of them;
VideoTranscode has nothing to do after a scan; the scheduler exits, and its clock ends.

Fairness.

- `Dispatcher!FairSpec`: the loop is a goroutine that runs while the process is up, and
  handlers are assumed to return (their work is bounded by files and by ffmpeg's
  exit); the ticker keeps firing; main goes on to the Register calls; docker-compose
  restarts the container (`restart: unless-stopped`); an Enqueue that has inserted its
  row appends its entry. No client is forced to enqueue, no Pause or Resume to happen.
- `StreamEncoder!LiveSpec`: goroutines of the process run, a wait has a deadline of 7 or 12
  seconds, and ffmpeg, which reads a finite file, makes segments or exits. No
  handler is forced to ask for a segment, no session to be cleaned up.
- `StreamSessions!LiveSpec`: time passes, so an untouched session becomes stale; the 30 s
  ticker and the sweep run; a request ends by its deadline. No request has to come.
- `Scheduler!Spec`: the loop goes on wherever it does not wait (weak fairness of `Load`, `Plan`,
  `Trigger`, `Triggered`). A waiting signal is taken at some time (strong fairness of
  `WakeReload`): Go's `select` chooses at random among the ready cases, so that one
  which is ready again and again is not passed over for ever. Neither the timer, the hour nor
  the clock has to advance.
- Library, DeviceAuth, Covers and VideoTranscode state no fairness: nothing forces a scan to be started, and their
  properties are safety properties.

## 4. Proofs

For every value of the constants that the named assumptions allow:

| Module | Theorems | Assumptions |
|---|---|---|
| `DispatcherProofs` | `TypeCorrect`, `RowsAndLoop`, `OneRowRunning`, `RunningSubJobsAreRun`, `PauseHolds`, `ActiveJobsStayBounded`, `FinishedStaysFinished`, `UndisturbedSubJobsEnd`, `Implements` | `BoundsAssumption`, `TypesAssumption`, `SubJobsAssumption` |
| `SegmentSetProofs` | `ListTypes`, `StaysCanonical`, `StaysExact`, `AnswersAreExact`, `GapBoundIsExact` | `LastSegAssumption` |
| `StreamEncoderProofs` | `EncoderTypes`, `EncoderStaysReachable`, `NoZombiesStay`, `OneFFmpegUntilSeeksOverlap` | `StreamEncoderAssumption` |
| `StreamSessionsProofs` | `TypeCorrect`, `StreamsHoldJobs` | `StreamSessionsAssumption` |
| `DeviceAuthProofs` | `TypeCorrect`, `DevicesStayBounded`, `GuardStaysInStep`, `DeletedStaysBlocked`, `HonestStaysTrusted`, `ClientsAgree` | `DeviceAuthAssumption` |
| `LibraryProofs` | `ScanTypes`, `StaleMetadataStaysPending`, `ChangesStayDetectable`, `ScansAreExact`, `OnlyAbsentAreMarked` (of `CollectionScan`); `LibraryImplementsScan`, `LibraryTypesHold`, `FlagsAreBacked`, `LibraryScansAreExact` | `ScanAssumption`, `LibraryAssumption` |
| `CoversProofs` | `CoverTypes`, `ManualCoversStay`, `ManualSizesStayAlike` | `CoversAssumption` |
| `SchedulerProofs` | `SchedulerTypes`, `TimesAreServedOnce`, `ChangesAreSignalled` | `SchedulerAssumption` |

The assumptions say that bounds are natural numbers, that the "null" values are not
among the values they stand beside, and, where a cardinality is taken, that the set of
clients is finite. `SubJobsAssumption` says that only handlers of types with `SupportsSubjobs` buffer
sub-jobs: in the code `AddSubJob` is called by the collection scan and by the tile job, which have it (for any
other type the dispatcher would mark the job done over its sub-jobs). `ActiveJobsStayBounded` has two hypotheses of its own: finitely many
clients, and no client asks for what a handler re-queues.

- Dispatcher. The base invariant is `TypeOK /\ RowsAndLoopAgree`. Its last part,
  that a done row has no children, is not inductive alone: FlushSubJobs inserts children under `cur`, so one needs that
  `cur` is a running row whenever the goroutine flushes (`LoopState`), which needs that
  queue entries and ids held by callers are rows (`HeldBorn`), which needs that the
  ids below the identity column are exactly the rows (`RowsBorn`). There is one
  lemma per action. `LoopInv` adds that a started row is the loop's (`StartedIsCurrent`), that
  a running sub-job is in the batch, and that starts while paused are counted by the
  position of the loop (`PauseCounted`). `ActiveBounded` counts, for a request, its active rows and the
  callers past the check: only the check adds a caller, and only at zero active rows for it.
  `UndisturbedSubJobsEnd` has an invariant of its own, `SubJobsWhole`, which holds while nothing has crashed or
  failed: a row that is absent or queued has no children (`RowsWhole`), and the row in hand has none
  before its handler returns, is of a type that waits for them once it has buffered some, and has only ended
  ones when it is about to be done (`LoopWhole`). A claim that comes back empty then means that all
  have ended, since every unfinished child of a row between batches is a queued one.
  `Implements` is the refinement `Spec => ImplementsSequentialQueue`:
  every step has one of six effects on the top-level rows (`Effect`), each of which
  is a step of SequentialQueue or a stutter.
- SegmentSet. The list is canonical and exact together: a merge is exact only because
  the two ranges are neighbours, and stays canonical only because nothing lies
  between them. Each case of `add` is a lemma; the lemmas on `InsertAt` and
  `RemoveAt` say which elements the result has.
- StreamEncoder. `EncoderInv` is the types, `Shape` (what a thread's position says about its
  process and the waiters) and `RoomAhead` (seeks under way plus processes started never pass
  the bound, so that no process outside `Proc` is named). On it rests
  `SeekInv == ~overlapped => Serial`: until two seeks overlap there is at most one thread
  in a seek (`OneSeek`), every running ffmpeg is the stored handle or in the
  seeker's hands (`EveryoneReachable`), and every one that ended is or will be waited for (`EveryoneWaitedFor`).
  `OneFFmpegUntilSeeksOverlap` counts from there: the seeker with a process in hand has emptied the handle
  before, so at most one ffmpeg encodes; finding 1 needs the overlap.
- StreamSessions. `JobsHeld` is what makes the count inductive: beside a session whose making is over the
  flag is up; while it is down nothing has been counted; and after the one job was counted the loop has
  none picked. A session becomes a settled one in no step but the `Pause` that ends its creation
  (`SettledShrinks`), and a sweep that finds the table empty finds no session in the making either, for
  it has `sessionsMu`.
- DeviceAuth. `DevicesBounded` counts a login that is past the eviction as a device, which makes it
  inductive: a login that found room adds one to at most `MaxDevices - 1` and the
  other requests; one that found none takes a device away, or is counted in `missed`;
  the insertion moves one from one count to the other. The four steps that can add are
  lemmas of their own; all the others only keep or delete rows (`RowsStayOrGo`,
  `NoneBeginsToCreate`). The guard's two properties follow from `Guarded(id)`, per id: a guard
  entry, or a request (`RequestKnowsRow`), names a row that was inserted or an id that a stranger named
  (`GuardKnowsRows`), `Follows` and `Blocked` count the steps a request in flight still owes the guard.
  Most steps leave an id alone or only weaken what is asked (`Quiet`), which one lemma settles.
  The two properties about tokens follow from `TokenInv`. `Homes`: a token that an installation holds,
  has sent or has in its row is no other installation's, or both belong to one spoiled user; so
  whoever presents a rotated token, or one with another uuid, is spoiled. `RowsInOrder`: an installation's
  live row is its last, so it has one. `Fits`: what each position of a request says of
  the row it read. `Honest`: an unspoiled user's installation has one request at most, the row knows the
  token it holds or is about to receive, and there is no row while a login makes room. `FadesKeep` settles
  the steps that bring nobody anything, `StepOfOne` those of one installation: the others
  are spared (`Spared`); a login's insertion and a refresh's rotation share `StoringKeepsTokens`.
- CollectionScan. `ScanInv` is the types, the shape of the walk (what `at`, `todo` and `sub` name are
  known rows; a row without a hash has no metadata) and four facts per path. `MetaFits`
  ties metadata to hash. `Detectable` compares the file with the row and, separately, with
  the stat in hand: that is what makes "stat before hash" essential. `Exact` says, for a path that
  has stood still, where it is in each phase: not visited or seen and stored, then not marked or right.
  `AwayNoted` says why an unseen path is unseen.
- Library. `LibraryImplementsScan` shows that each step is a step of `ScanSpec` or a stutter, so
  everything proved of the scan holds of the composition (`LibraryScansAreExact`).
  `LibraryInv` adds `Backed` (the property) and `Ready` (a sub-job that is about to set a flag has its
  variants, or they are about to come back, or the loss is noted), per path, because setting the flag
  turns the second into the first.
- Covers. A worker that may still write is idle, or the cover is not protected, or its write was
  noted (`WorkerMayWrite`); an upload half way and a chosen picture are in place
  (`UploadInPlace`, `ChosenInPlace`, `LargeInPlace`); an upload that met no other has its own small file
  until it has written the large one (`AloneInPlace`), from which the two sizes agree
  (`SizesAgree`); only covers `cover_cycle` looks after meet it (`JobKnown`).
- Scheduler. `DueTriggeredOnce` speaks of the wait only; the invariant follows a due time through the loop.
  `Served`: each time between the load and now is triggered, excused, or the one the loop holds in `items` for a
  schedule it waits for or has still to trigger. `ItemsAreNext`: what it holds is the first due time
  after the wait began, so planning passes over none, and one that has gone by was overslept and excused.
  `OnceOnly`: a loop that never overslept has triggered nothing ahead of the clock, so that what it
  plans is new. `NextTime` has its defining property because a set of naturals has a least element. `ChangesAreSignalled` is the
  safety half of `ChangeIsLoaded`: the signal that is dropped because the channel is full
  is not missed, for the one that waits is consumed by a load that comes after the change.

Every safety invariant and every action property of the passing runs is a theorem. Only model-checked:
the four liveness properties (`QueuedJobsEnd`, `RequestsEnd`, `ResumedWhenIdle`, `ChangeIsLoaded`), whose proofs
need fairness and ENABLED, which are out of the prover's reach; and the three violated properties, whose
counterexamples are the result. VideoTranscode has no proofs: what it shows is a counterexample.

## 5. Findings

Each is the only property of a run that TLC finds violated.

1. `OneFFmpegProcess` (session.go:289): two overlapping seeks leave two ffmpegs in one directory,
   one of which nothing can kill.
2. `ReloginSucceeds` (auth.go:206): a repeated login stores the empty string in a UNIQUE column;
   only one device at a time can have signed in again.
3. `HeavyVideoIsQueued` (dispatcher.go:399): `scan_video` runs only as a sub-job, whose context has no
   dispatcher, so `AttachTranscodeSubJob` returns at its first line and no video is ever transcoded.
   There may be a second reason: `parseVideoBitrate` (scan_video.go:226) accepts only a string, while exiftool
   runs with `-n` (exifutil.go:41) and answers with a number; a video without a bitrate is not
   attached either, though `video_transcode_item` would transcode it (video_transcode.go:70).

Read in the code and contained in the models, with no run of their own.

Jobs and streaming:

- `Start` runs the loop before the handlers are registered (main.go:98): a job recovered in
  between is failed for good;
- one failing claim ends the sub-jobs (dispatcher.go:350), and the parent's completion deletes those left;
- two callers that check for an active job before either inserts both insert one;
- jobs start between ffmpeg's start and the `Pause` of its session (session.go:143, 164), a job picked before
  it starts after it, and a batch under way goes on starting sub-jobs;
- a statement that is executed but whose answer is lost leaves a row `running` until the next restart;
- a batch of sub-jobs that cannot be inserted is logged and skipped (jobs_common.go:118);
- a crash after the flush runs the handler again over the sub-jobs of its first run;
- the test of session.go:394 is inverted: a segment that exists is never marked by the watcher;
- `waitAndLog` and `killAfterCurrentSegment` act on a file they read before a wait, so an
  absent segment can be marked and a complete one removed;
- a request on a session that has been torn down goes on to its deadline;
- the integrity check's `video_transcode_item` is not in the in-memory queue: the 15 s poll finds it.

Devices:

- logins that race at the limit may choose the same device to evict (devices.go:130): the second deletes
  nothing and creates its own, and each such pair leaves one device more above the limit;
- a ban or unban of an id that is another user's, or that has no row, changes no row but does change the guard
  (auth.go:437, 457): the two differ until a restart;
- after a restart the access tokens of rows deleted before it are accepted again until they expire;
- a refresh that has read its row rotates it even if it is banned meanwhile (the guard
  still refuses the device), and answers with tokens even if it is deleted;
- password change, user deletion and cleanup delete rows the guard is not told of, whose
  access tokens last until they expire.

Scan and derived files:

- a file replaced by one with an older mtime is never read again ("mtime unchanged → file
  definitely not modified");
- the stored mtime is cut to microseconds, so on a disk with finer times the fast path is seldom taken and
  the file is hashed at every scan;
- an exiftool that fails leaves blank metadata, which no later scan reads again;
- a sub-job lost between `UpdateFileInfo` and its end leaves the old metadata for good;
- `deleteDerivatives` says "A subsequent scan will regenerate them" (admin.go:306), but the fast path skips
  items that have metadata; a sub-job that has just seen the variants sets its flag after the delete; and
  copies under another collection lose the files they share and keep their flags (admin.go:313, 330);
- the prune of a moved file's old row removes the directory its copy, or its new row, uses;
- the rename of new variants is refused when a request has made a tile directory in between.

Covers:

- an upload that meets `cover_cycle`, a scan or a delete half way may lose its picture, with the flag set;
- `thumbnail_scan` makes both files of an album that lacks the large one, whatever the flag: an upload whose large
  file failed is lost with it;
- two uploads to one album that overlap, or one whose large file fails over an earlier one, leave two pictures in two sizes;
- a manual video cover goes out of sight when the file changes, and with its derivatives;
- `VideoHasManualThumbnail` answers the opposite of its name, which its caller expects.

Scheduler:

- a reload, or the hour, that is ready together with the timer may be taken instead: the trigger is
  lost. So is one that falls into a busy loop, or into a sleep overrun by 30 seconds;
- an overslept loop starts a neighbour's job early, and again on time;
- the hour begins anew with every wait, so a schedule due hourly or more often keeps the
  periodic reload from happening; the signal still works.

## 6. Plan

Done: the dispatcher and its abstract queue; the streaming session, its segment list and
the table; devices and guard; the collection scan, composed with the derived
files; covers; the way of a video to its transcode; the scheduler.

Left, in order:

1. **Video pipeline**: a theorem that no behaviour from an empty database transcodes anything, which
   generalises finding 3.
2. **Exiftool process**: the replacement of dead processes, as a pool of two.
3. **Login rate limiter**: `IsLocked` and `Record` around the authentication, and the eviction of a
   locked key from its LRU cache.
4. Sub-collections: `walkFolders` creates and hides collections while the walk of the
   parent is under way.

## 7. Not modelled

- The rate limiter: two critical sections whose limit concurrent attempts exceed by design;
  no other component reads it.
- The exiftool pool: what a dead process does to a scan is in CollectionScan (`ExtractNothing`).
- HTTP reads and search, configuration, routing, string parsing: no state that
  interleaves beyond the database's own isolation.
- Admin handlers beyond those named above: single statements on rows no module here reads.
- Of the video pipeline: the choice between a rendition and a live stream, and playlists.
- Pixels, audio and video data, exiftool's and ffmpeg's output: external.
- The standalone `internal/transcoder`: not reachable from the server.
- Progress columns, logs, listings: no control depends on them.
- PostgreSQL: a statement is atomic and isolated; constraints are modelled where a
  statement meets them.
