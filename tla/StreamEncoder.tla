----------------------------- MODULE StreamEncoder -----------------------------
(***************************************************************************)
(* One streaming Session (internal/streaming/session.go): the HTTP handlers *)
(* in ServeSegment, the goroutines of proactiveGapFill, the fsnotify        *)
(* watcher, the waitAndLog goroutines, the cleanup by the sweeper, and the  *)
(* ffmpeg processes they start and kill.  ffmpeg and fsnotify are external: *)
(* ffmpeg creates seg_first.ts, seg_first+1.ts, ... in order and each file  *)
(* is complete when it moves on; fsnotify reports the creation of files     *)
(* that did not exist, in order.                                            *)
(***************************************************************************)
EXTENDS Integers, Sequences, FiniteSets, FiniteSetsExt

CONSTANTS
  LastSeg,     \* the number of the last segment of the video
  Lookahead,   \* restart threshold, in segments (3 when transcoding, 100 when remuxing)
  Clients,     \* request handlers
  Fillers,     \* goroutines of proactiveGapFill
  MaxProc      \* bound: ffmpeg processes started in one session

ASSUME StreamEncoderAssumption ==
  /\ LastSeg \in Nat /\ Lookahead \in Nat /\ MaxProc \in Nat \ {0}
  /\ Clients \cap Fillers = {} /\ IsFiniteSet(Clients \cup Fillers)

Seg     == 0..LastSeg
Target  == 0..(LastSeg + 2)    \* proactiveGapFill asks for up to two segments past the last
Proc    == 1..MaxProc
None    == 0                   \* a nil *exec.Cmd
Threads == Clients \cup Fillers

VARIABLES
  segments,        \* Session.segments: marked available
  currentSegment,  \* Session.currentSegment
  cmd,             \* Session.cmd
  closed,          \* cleanupSession has run
  file,            \* the segment files in tempDir: "none", "partial" or "complete"
  events,          \* watcher.Events: numbers of created segment files
  proc,            \* the ffmpeg processes: state, segment, whether its file is open, last segment
  reaped,          \* processes whose exit status some Wait has taken
  nextProc,        \* the next process
  thread,          \* per thread: where it is in ServeSegment or seekTo, and its locals
  waiter,          \* the waitAndLog goroutine spawned with each process: where it is, its locals
  overlapped       \* history: two seekTo calls have been under way at once

procVars == <<proc, reaped, nextProc>>
vars == <<segments, currentSegment, cmd, closed, file, events, procVars, thread, waiter, overlapped>>

\* The locals of a thread: the segment it is after, the last segment of the gap,
\* killAfterCurrentSegment's current, and the process it has started.
At(point, n) == [at |-> point, target |-> n, bound |-> 0, head |-> 0, mine |-> None]
Idle         == At("idle", 0)

IsAt(t, point) == thread[t].at = point

\* The locals of waitAndLog: the process it waits for, the highest file it saw.
Log(point, p, n) == [at |-> point, cmd |-> p, highest |-> n]

Running(p) == proc[p].st = "running"
Ended(st)  == [st |-> st, seg |-> 0, open |-> FALSE, last |-> 0]
Seeking    == {t \in Threads : thread[t].at \in {"check", "head", "kill", "start", "publish"}}

Kill(p) == [proc EXCEPT ![p] = IF @.st = "running" THEN Ended("killed") ELSE @]

-----------------------------------------------------------------------------
(* ffmpeg *)

\* The first run of GetOrCreateSession and every restart of seekTo.
Started(first, last) == [st |-> "running", seg |-> first, open |-> FALSE, last |-> last]

\* It creates the next segment file, truncating one that exists.  Without the
\* directory it fails.
OpenSegment(p) ==
  /\ Running(p) /\ ~proc[p].open /\ proc[p].seg <= proc[p].last
  /\ LET n == proc[p].seg IN
       IF closed
         THEN /\ proc' = [proc EXCEPT ![p] = Ended("killed")]
              /\ UNCHANGED <<file, events>>
         ELSE /\ proc' = [proc EXCEPT ![p].open = TRUE]
              /\ file' = [file EXCEPT ![n] = "partial"]
              /\ events' = IF file[n] = "none" THEN Append(events, n) ELSE events
  /\ UNCHANGED <<segments, currentSegment, cmd, closed, reaped, nextProc, thread, waiter, overlapped>>

\* It finishes a segment; the file may have been removed under it.
FinishSegment(p) ==
  /\ Running(p) /\ proc[p].open
  /\ proc' = [proc EXCEPT ![p].open = FALSE, ![p].seg = @ + 1]
  /\ file' = [file EXCEPT ![proc[p].seg] = IF @ = "none" THEN "none" ELSE "complete"]
  /\ UNCHANGED <<segments, currentSegment, cmd, closed, events, reaped, nextProc, thread, waiter, overlapped>>

\* It ends by itself: after its last segment, or on an error at any time.
ExitFFmpeg(p) ==
  /\ Running(p)
  /\ proc' = [proc EXCEPT ![p] = Ended(IF @.seg > @.last THEN "exited" ELSE "killed")]
  /\ UNCHANGED <<segments, currentSegment, cmd, closed, file, events, reaped, nextProc, thread, waiter, overlapped>>

-----------------------------------------------------------------------------
(* ServeSegment *)

WithinReach(n) == currentSegment <= n /\ n <= currentSegment + Lookahead

\* Room for one more seek under the bound MaxProc.
CanSeek == nextProc + Cardinality({t \in Seeking : ~IsAt(t, "publish")}) <= MaxProc

RequestSegment(c, n) ==
  /\ IsAt(c, "idle") /\ ~closed
  /\ \E point \in {"served", "wait", "check"} :
       /\ point = "served" <=> n \in segments
       /\ point = "wait" <=> n \notin segments /\ WithinReach(n)
       /\ point = "check" => CanSeek
       /\ thread' = [thread EXCEPT ![c] = At(point, n)]
  /\ UNCHANGED <<segments, currentSegment, cmd, closed, file, events, procVars, waiter, overlapped>>

\* A segment was marked available while the handler waits; or the 12 s deadline
\* has passed, or the client went away.
ServeWaiting(c) ==
  /\ IsAt(c, "wait")
  /\ \/ thread[c].target \in segments /\ thread' = [thread EXCEPT ![c].at = "served"]
     \/ thread' = [thread EXCEPT ![c] = Idle]
  /\ UNCHANGED <<segments, currentSegment, cmd, closed, file, events, procVars, waiter, overlapped>>

\* proactiveGapFill after a serve.  Which of the two segments the goroutine is
\* sent to depends on two reads made without s.mu, racing with add: either.
\* Under the bound MaxProc, a goroutine past it is one that never gets to run.
Fill(c) ==
  /\ IsAt(c, "served")
  /\ LET n      == thread[c].target + 1
         inHand == {n, n + 1} \subseteq segments \/ WithinReach(n)
     IN  \/ (inHand \/ ~CanSeek) /\ thread' = [thread EXCEPT ![c] = Idle]
         \/ /\ ~inHand /\ CanSeek
            /\ \E f \in Fillers, seg \in {n, n + 1} :
                 /\ IsAt(f, "idle")
                 /\ thread' = [thread EXCEPT ![c] = Idle, ![f] = At("check", seg)]
  /\ UNCHANGED <<segments, currentSegment, cmd, closed, file, events, procVars, waiter, overlapped>>

-----------------------------------------------------------------------------
(* seekTo, in a handler or in a goroutine of proactiveGapFill *)

AfterSeek(t) == IF t \in Clients THEN At("wait", thread[t].target) ELSE Idle

\* The last segment of the gap that begins at n.
GapEnd_Inclusive(n) ==
  LET later == {m \in segments : m > n}
  IN  IF later = {} THEN LastSeg + 1 ELSE Min(later)
GapEnd(n) ==
  LET later == {m \in segments : m > n}
  IN  IF later = {} THEN LastSeg ELSE Min(later) - 1

CheckGap(t) ==
  /\ IsAt(t, "check")
  /\ LET n == thread[t].target IN
       IF n \in segments
         THEN thread' = [thread EXCEPT ![t] = AfterSeek(t)] /\ UNCHANGED overlapped
         ELSE /\ thread' = [thread EXCEPT ![t].at = "head", ![t].bound = GapEnd(n)]
              /\ overlapped' = (overlapped \/ \E u \in Seeking \ {t} : ~IsAt(u, "check"))
  /\ UNCHANGED <<segments, currentSegment, cmd, closed, file, events, procVars, waiter>>

ReadHead(t) ==
  /\ IsAt(t, "head")
  /\ thread' = [thread EXCEPT ![t].at = "kill", ![t].head = currentSegment]
  /\ UNCHANGED <<segments, currentSegment, cmd, closed, file, events, procVars, waiter, overlapped>>

RemoveFile(n) == IF n \in Seg THEN [file EXCEPT ![n] = "none"] ELSE file

\* killAfterCurrentSegment once its wait is over: the segment was marked
\* available (then the one after it is removed), or 7 s went by (then it is).
KillCurrent_NoDeadline(t) ==
  /\ IsAt(t, "kill") /\ thread[t].head \in segments
  /\ proc' = IF cmd = None THEN proc ELSE Kill(cmd)
  /\ reaped' = reaped \cup ({cmd} \ {None})
  /\ cmd' = None
  /\ file' = RemoveFile(thread[t].head + 1)
  /\ thread' = [thread EXCEPT ![t].at = "start"]
  /\ UNCHANGED <<segments, currentSegment, closed, events, nextProc, waiter, overlapped>>
KillCurrent_Forgets(t) ==
  /\ IsAt(t, "kill")
  /\ cmd' = None
  /\ thread' = [thread EXCEPT ![t].at = "start"]
  /\ UNCHANGED <<segments, currentSegment, closed, file, events, procVars, waiter, overlapped>>
KillCurrent(t) ==
  /\ IsAt(t, "kill")
  /\ proc' = IF cmd = None THEN proc ELSE Kill(cmd)
  /\ reaped' = reaped \cup ({cmd} \ {None})
  /\ cmd' = None
  /\ LET current == thread[t].head IN
       \/ current \in segments /\ file' = RemoveFile(current + 1)
       \/ file' = RemoveFile(current)
  /\ thread' = [thread EXCEPT ![t].at = "start"]
  /\ UNCHANGED <<segments, currentSegment, closed, events, nextProc, waiter, overlapped>>

\* cmd.Start, which may fail.
StartFFmpeg(t) ==
  /\ IsAt(t, "start")
  /\ \/ /\ thread' = [thread EXCEPT ![t].at = "publish", ![t].mine = nextProc]
        /\ proc' = [proc EXCEPT ![nextProc] = Started(thread[t].target, thread[t].bound)]
        /\ nextProc' = nextProc + 1
     \/ /\ thread' = [thread EXCEPT ![t] = AfterSeek(t)]
        /\ UNCHANGED <<proc, nextProc>>
  /\ UNCHANGED <<segments, currentSegment, cmd, closed, file, events, reaped, waiter, overlapped>>

Publish_NoWaiter(t) ==
  /\ IsAt(t, "publish")
  /\ cmd' = thread[t].mine
  /\ currentSegment' = thread[t].target
  /\ thread' = [thread EXCEPT ![t] = AfterSeek(t)]
  /\ UNCHANGED <<segments, closed, file, events, procVars, waiter, overlapped>>
Publish(t) ==
  /\ IsAt(t, "publish")
  /\ cmd' = thread[t].mine
  /\ currentSegment' = thread[t].target
  /\ thread' = [thread EXCEPT ![t] = AfterSeek(t)]
  /\ waiter' = [waiter EXCEPT ![thread[t].mine] = Log("spawned", None, 0)]
  /\ UNCHANGED <<segments, closed, file, events, procVars, overlapped>>

-----------------------------------------------------------------------------
(* watchSegments *)

WatchEvent(n) ==
  /\ events # <<>> /\ ~closed /\ n = Head(events)
  /\ events' = Tail(events)
  /\ segments' = IF n > 0 /\ file[n - 1] = "none" THEN segments \cup {n - 1} ELSE segments
  /\ currentSegment' = n
  /\ UNCHANGED <<cmd, closed, file, procVars, thread, waiter, overlapped>>

-----------------------------------------------------------------------------
(* waitAndLog: the goroutine started with process p *)

\* It waits for whatever process s.cmd is by the time it runs.
ReadCmd(p) ==
  /\ waiter[p].at = "spawned"
  /\ waiter' = [waiter EXCEPT ![p] = IF cmd = None THEN Log("done", None, 0) ELSE Log("waiting", cmd, 0)]
  /\ UNCHANGED <<segments, currentSegment, cmd, closed, file, events, procVars, thread, overlapped>>

\* cmd.Wait returns.  Only the first Wait gets the status; after a clean exit the
\* directory is scanned for the highest segment file.
WaitReturns(p) ==
  /\ waiter[p].at = "waiting"
  /\ LET q      == waiter[p].cmd
         onDisk == {n \in Seg : file[n] # "none"}
         clean  == proc[q].st = "exited" /\ q \notin reaped
     IN  /\ ~Running(q)
         /\ reaped' = reaped \cup {q}
         /\ waiter' = [waiter EXCEPT ![p] = IF clean /\ onDisk # {}
                                              THEN Log("scanned", None, Max(onDisk))
                                              ELSE Log("done", None, 0)]
  /\ UNCHANGED <<segments, currentSegment, cmd, closed, file, events, proc, nextProc, thread, overlapped>>

MarkHighest(p) ==
  /\ waiter[p].at = "scanned"
  /\ waiter' = [waiter EXCEPT ![p] = Log("done", None, 0)]
  /\ segments' = segments \cup {waiter[p].highest}
  /\ UNCHANGED <<currentSegment, cmd, closed, file, events, procVars, thread, overlapped>>

-----------------------------------------------------------------------------
\* cleanupSession, 15 minutes after the last serve: requests may be in flight.
CleanupSession ==
  /\ ~closed
  /\ closed' = TRUE
  /\ proc' = IF cmd = None THEN proc ELSE Kill(cmd)
  /\ reaped' = reaped \cup ({cmd} \ {None})
  /\ file' = [n \in Seg |-> "none"]
  /\ events' = <<>>
  /\ UNCHANGED <<segments, currentSegment, cmd, nextProc, thread, waiter, overlapped>>

\* GetOrCreateSession: an empty directory and ffmpeg started at 0.
Init ==
  /\ segments = {} /\ currentSegment = 0 /\ cmd = 1 /\ closed = FALSE
  /\ file = [n \in Seg |-> "none"] /\ events = <<>>
  /\ proc = [p \in Proc |-> IF p = 1 THEN Started(0, LastSeg) ELSE Ended("none")]
  /\ reaped = {} /\ nextProc = 2
  /\ thread = [t \in Threads |-> Idle]
  /\ waiter = [p \in Proc |-> Log(IF p = 1 THEN "spawned" ELSE "none", None, 0)]
  /\ overlapped = FALSE

FFmpeg(p)   == OpenSegment(p) \/ FinishSegment(p) \/ ExitFFmpeg(p)
Seek(t)     == CheckGap(t) \/ ReadHead(t) \/ KillCurrent(t) \/ StartFFmpeg(t) \/ Publish(t)
Handle(c)   == ServeWaiting(c) \/ Fill(c)
WaitLog(p)  == ReadCmd(p) \/ WaitReturns(p) \/ MarkHighest(p)

Next ==
  \/ \E p \in Proc : FFmpeg(p) \/ WaitLog(p)
  \/ \E t \in Threads : Seek(t)
  \/ \E c \in Clients : Handle(c) \/ \E n \in Seg : RequestSegment(c, n)
  \/ \E n \in Seg : WatchEvent(n)
  \/ CleanupSession

Spec == Init /\ [][Next]_vars

\* Goroutines run and deadlines fire; ffmpeg ends by itself.
Fairness ==
  /\ \A p \in Proc : WF_vars(FFmpeg(p)) /\ WF_vars(WaitLog(p))
  /\ \A t \in Threads : WF_vars(Seek(t))
  /\ \A c \in Clients : WF_vars(Handle(c))
  /\ WF_vars(\E n \in Seg : WatchEvent(n))

LiveSpec == Spec /\ Fairness

-----------------------------------------------------------------------------
TypeOK ==
  /\ segments \subseteq Seg /\ currentSegment \in Target /\ cmd \in Proc \cup {None}
  /\ closed \in BOOLEAN /\ overlapped \in BOOLEAN
  /\ file \in [Seg -> {"none", "partial", "complete"}] /\ events \in Seq(Seg)
  /\ proc \in [Proc -> [st : {"none", "running", "exited", "killed"}, seg : 0..(LastSeg + 2),
                        open : BOOLEAN, last : Seg]]
  /\ reaped \subseteq Proc /\ nextProc \in 2..(MaxProc + 1)
  /\ thread \in [Threads -> [at : {"idle", "check", "head", "kill", "start", "publish", "wait", "served"},
                             target : Target, bound : Seg, head : Target, mine : Proc \cup {None}]]
  /\ waiter \in [Proc -> [at : {"none", "spawned", "waiting", "scanned", "done"},
                          cmd : Proc \cup {None}, highest : Seg]]

\* As long as no two seeks have overlapped, an ffmpeg that is encoding is the one
\* the session's handle leads to, or one a seek has just started and is about to
\* store: the next seek and the sweeper can kill it.
EncoderIsReachable ==
  ~overlapped =>
    \A p \in Proc : Running(p) => p = cmd \/ \E t \in Threads : IsAt(t, "publish") /\ thread[t].mine = p

\* Short of overlapping seeks, every ffmpeg whose status nobody has taken has a
\* waitAndLog that waits for it or will, although each goroutine waits for
\* whatever s.cmd is when it first runs: none stays a zombie.
NoZombies ==
  ~overlapped =>
    \A p \in 1..(nextProc - 1) :
      \/ p \in reaped
      \/ \E q \in Proc : waiter[q].at = "waiting" /\ waiter[q].cmd = p
      \/ p = cmd /\ \E q \in Proc : waiter[q].at = "spawned"
      \/ \E t \in Threads : IsAt(t, "publish") /\ thread[t].mine = p

\* A request is answered, by its segment or by an error, whatever becomes of the
\* encoder, the session and the other seeks.
RequestsEnd == \A c \in Clients : ~IsAt(c, "idle") ~> IsAt(c, "idle")

\* "concurrent users watching the same file share one ffmpeg process".
OneFFmpegProcess == Cardinality({p \in Proc : Running(p)}) <= 1

=============================================================================
