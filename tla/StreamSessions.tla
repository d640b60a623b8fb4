---------------------------- MODULE StreamSessions ----------------------------
(***************************************************************************)
(* The table of streaming sessions (internal/streaming/session.go): the     *)
(* manifest and segment handlers of internal/api/video.go that look a       *)
(* session up and touch it, the idle sweeper that tears sessions down, and  *)
(* the pausing of the job dispatcher, whose loop reads the flag on its own. *)
(***************************************************************************)
EXTENDS Naturals, FiniteSets

CONSTANTS
  Items,     \* video items
  Clients    \* request handlers

ASSUME StreamSessionsAssumption == Items # {} /\ IsFiniteSet(Items)

VARIABLES
  sessions,   \* the items that have a session (the map of item to session)
  stale,      \* those whose lastActivity is older than SessionIdleTimeout
  paused,     \* Dispatcher.paused
  request,    \* per handler: what it does, its item, whether that session has been
              \* touched since the request began, whether it has been torn down
  sweep,      \* sweepIdleSessions: the items still to look at, the one found idle
  loop,       \* processNext: idle, picked (the flag has been read), busy
  besides     \* history: top-level jobs started beside a stream since it paused them

vars == <<sessions, stale, paused, request, sweep, loop, besides>>

NoRequest == [at |-> "none"]
Request(kind, i, touched) == [at |-> kind, item |-> i, touched |-> touched, dead |-> FALSE]

OnLive(c, i) == request[c] # NoRequest /\ request[c].item = i /\ ~request[c].dead

\* The requests under way on item i's session have seen it touched.
Touched(i) ==
  [c \in Clients |-> IF OnLive(c, i) THEN [request[c] EXCEPT !.touched = TRUE] ELSE request[c]]

\* The session of item i is gone from under the requests on it.
TornDown(i) ==
  [c \in Clients |-> IF OnLive(c, i) THEN [request[c] EXCEPT !.dead = TRUE] ELSE request[c]]

NotSweeping == [at |-> "off"]
Sweeping(todo, found) == [at |-> "on", todo |-> todo, found |-> found]

\* GetOrCreateSession makes a session in three steps, as the loop sees them.
Creating(c) == request[c].at \in {"ffmpeg", "insert"}
Serving(c)  == request[c].at \in {"manifest", "segment"}

\* sessionsMu: held for the whole of a sweep, and of the making of a session.
TableFree == sweep = NotSweeping /\ \A c \in Clients : ~Creating(c)

\* The sessions whose creation is over.
Settled == {i \in sessions : \A c \in Clients : Creating(c) => request[c].item # i}

\* The manifest handler: GetOrCreateSession finds the session and touches it ...
FindSession(c, i) ==
  /\ request[c] = NoRequest /\ TableFree /\ i \in sessions
  /\ stale' = stale \ {i}
  /\ request' = [Touched(i) EXCEPT ![c] = Request("manifest", i, TRUE)]
  /\ UNCHANGED <<sessions, paused, sweep, loop, besides>>

\* ... or starts ffmpeg (on an error nothing is left of the attempt), puts the session
\* in the table, and pauses the dispatcher, which takes no part in sessionsMu.
StartFFmpeg(c, i) ==
  /\ request[c] = NoRequest /\ TableFree /\ i \notin sessions
  /\ request' = [request EXCEPT ![c] = Request("ffmpeg", i, FALSE)]
  /\ UNCHANGED <<sessions, stale, paused, sweep, loop, besides>>
InsertSession(c) ==
  /\ request[c].at = "ffmpeg"
  /\ sessions' = sessions \cup {request[c].item}
  /\ request' = [request EXCEPT ![c] = Request("insert", request[c].item, TRUE)]
  /\ UNCHANGED <<stale, paused, sweep, loop, besides>>
Pause(c) ==
  /\ request[c].at = "insert" /\ paused' = TRUE
  /\ request' = [request EXCEPT ![c] = Request("manifest", request[c].item, TRUE)]
  /\ UNCHANGED <<sessions, stale, sweep, loop, besides>>

\* The segment handler: GetSession does not touch the session.
GetSession(c, i) ==
  /\ request[c] = NoRequest /\ TableFree
  /\ i \in sessions
  /\ request' = [request EXCEPT ![c] = Request("segment", i, FALSE)]
  /\ UNCHANGED <<sessions, stale, paused, sweep, loop, besides>>

\* The manifest or the segment is there: lastActivity is set and it is served.
\* A session that was torn down meanwhile is touched too, to no effect.
Serve(c) ==
  /\ Serving(c)
  /\ LET i == request[c].item IN
       \/ /\ ~request[c].dead
          /\ stale' = stale \ {i}
          /\ request' = [Touched(i) EXCEPT ![c] = NoRequest]
       \/ /\ request[c].dead
          /\ request' = [request EXCEPT ![c] = NoRequest]
          /\ UNCHANGED stale
  /\ UNCHANGED <<sessions, paused, sweep, loop, besides>>

\* Not ready within 6 or 12 seconds, or the client went away.
GiveUp(c) ==
  /\ Serving(c)
  /\ request' = [request EXCEPT ![c] = NoRequest]
  /\ UNCHANGED <<sessions, stale, paused, sweep, loop, besides>>

\* SessionIdleTimeout, 15 minutes, goes by since the last touch: every request
\* that began before that touch is over by its deadline.
GoStale(i) ==
  /\ i \in sessions \ stale
  /\ \A c \in Clients : ~(OnLive(c, i) /\ request[c].touched)
  /\ stale' = stale \cup {i}
  /\ UNCHANGED <<sessions, paused, request, sweep, loop, besides>>

-----------------------------------------------------------------------------
(* sweepIdleSessions *)

Tick ==
  /\ TableFree
  /\ sweep' = Sweeping(sessions, {})
  /\ UNCHANGED <<sessions, stale, paused, request, loop, besides>>

\* It reads lastActivity under s.mu and lets go of the lock ...
Look(i) ==
  /\ sweep # NotSweeping /\ sweep.found = {} /\ i \in sweep.todo
  /\ sweep' = Sweeping(sweep.todo \ {i}, IF i \in stale THEN {i} ELSE {})
  /\ UNCHANGED <<sessions, stale, paused, request, loop, besides>>

\* ... which cleanupSession takes again to tear the session down.
CleanupSession_KeepsEntry(i) ==
  /\ sweep # NotSweeping /\ i \in sweep.found
  /\ stale' = stale \ {i}
  /\ request' = TornDown(i)
  /\ sweep' = Sweeping(sweep.todo, {})
  /\ UNCHANGED <<sessions, paused, loop, besides>>
CleanupSession_KeepsAge(i) ==
  /\ sweep # NotSweeping /\ i \in sweep.found
  /\ sessions' = sessions \ {i}
  /\ request' = TornDown(i)
  /\ sweep' = Sweeping(sweep.todo, {})
  /\ UNCHANGED <<stale, paused, loop, besides>>
CleanupSession(i) ==
  /\ sweep # NotSweeping /\ i \in sweep.found
  /\ sessions' = sessions \ {i}
  /\ stale' = stale \ {i}
  /\ request' = TornDown(i)
  /\ sweep' = Sweeping(sweep.todo, {})
  /\ UNCHANGED <<paused, loop, besides>>

EndSweep_ResumesAlways ==
  /\ sweep # NotSweeping /\ sweep.todo = {} /\ sweep.found = {}
  /\ paused' = FALSE
  /\ besides' = IF sessions = {} THEN 0 ELSE besides
  /\ sweep' = NotSweeping
  /\ UNCHANGED <<sessions, stale, request, loop>>
EndSweep ==
  /\ sweep # NotSweeping /\ sweep.todo = {} /\ sweep.found = {}
  /\ paused' = (paused /\ sessions # {})
  /\ besides' = IF sessions = {} THEN 0 ELSE besides
  /\ sweep' = NotSweeping
  /\ UNCHANGED <<sessions, stale, request, loop>>

-----------------------------------------------------------------------------
(* The dispatcher's loop, as far as the table can see it (Dispatcher has it whole) *)

\* processNext reads the flag first ...
PickJob ==
  /\ loop = "idle" /\ ~paused /\ loop' = "picked"
  /\ UNCHANGED <<sessions, stale, paused, request, sweep, besides>>
\* ... and not again, before it marks the job running.
StartJob ==
  /\ loop = "picked" /\ loop' = "busy"
  /\ besides' = IF Settled = {} THEN besides ELSE besides + 1
  /\ UNCHANGED <<sessions, stale, paused, request, sweep>>
\* There is nothing to start, or a job and its batches have ended.
LoopAround ==
  /\ loop # "idle" /\ loop' = "idle"
  /\ UNCHANGED <<sessions, stale, paused, request, sweep, besides>>

Init ==
  /\ sessions = {} /\ stale = {} /\ paused = FALSE
  /\ request = [c \in Clients |-> NoRequest]
  /\ sweep = NotSweeping
  /\ loop = "idle" /\ besides = 0

Handler(c) ==
  \/ InsertSession(c) \/ Pause(c) \/ Serve(c) \/ GiveUp(c)
  \/ \E i \in Items : FindSession(c, i) \/ StartFFmpeg(c, i) \/ GetSession(c, i)
Sweeper    == Tick \/ EndSweep \/ \E i \in Items : Look(i) \/ CleanupSession(i)

Next ==
  \/ \E c \in Clients : Handler(c)
  \/ \E i \in Items : GoStale(i)
  \/ Sweeper
  \/ PickJob \/ StartJob \/ LoopAround

Spec == Init /\ [][Next]_vars

\* Time passes, the sweeper's goroutine runs, and a request ends by its deadline.
Fairness ==
  /\ \A i \in Items : WF_vars(GoStale(i))
  /\ WF_vars(Sweeper)
  /\ \A c \in Clients : WF_vars(InsertSession(c) \/ Pause(c) \/ Serve(c) \/ GiveUp(c))

LiveSpec == Spec /\ Fairness

-----------------------------------------------------------------------------
\* Types of the state; only a session of the table can be idle.
TypeOK ==
  /\ sessions \subseteq Items /\ stale \subseteq sessions
  /\ paused \in BOOLEAN
  /\ request \in [Clients -> {NoRequest} \cup
                    [at : {"ffmpeg", "insert", "manifest", "segment"}, item : Items,
                     touched : BOOLEAN, dead : BOOLEAN]]
  /\ sweep \in {NotSweeping} \cup [at : {"on"}, todo : SUBSET Items, found : SUBSET Items]
  /\ loop \in {"idle", "picked", "busy"} /\ besides \in Nat

\* "The dispatcher is paused while any session is active": from the Pause of a stream
\* until the sweep that finds the table empty, at most one top-level job starts beside
\* it, the one whose pick had read the flag before; no second stream, request or sweep
\* lets the loop pick again. Before the Pause, while the first ffmpeg already runs,
\* jobs do start, and a job in hand goes on with its batches.
AtMostOneJobBesideStreams == besides <= 1

\* "resumes the dispatcher once all sessions have been idle": when requests stop
\* coming, the sweeper removes what is left and jobs run again for good.
ResumedWhenIdle == <>[](\A c \in Clients : request[c] = NoRequest) => <>[]~paused

=============================================================================
