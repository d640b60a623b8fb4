------------------------- MODULE StreamSessionsProofs -------------------------
(***************************************************************************)
(* Proofs about StreamSessions, for any items and any number of handlers.   *)
(***************************************************************************)
EXTENDS StreamSessions, TLAPS

Served == [at : {"ffmpeg", "insert", "manifest", "segment"}, item : Items, touched : BOOLEAN, dead : BOOLEAN]

Requests == {NoRequest} \cup Served

Sweeps == {NotSweeping} \cup [at : {"on"}, todo : SUBSET Items, found : SUBSET Items]

\* Marking the requests on a session keeps them requests, at the same point and of the same item.
LEMMA MarkedRequests ==
  ASSUME TypeOK, NEW i \in Items
  PROVE  /\ Touched(i) \in [Clients -> Requests] /\ TornDown(i) \in [Clients -> Requests]
         /\ \A c \in Clients : Creating(c) =>
              /\ Touched(i)[c].at = request[c].at /\ Touched(i)[c].item = request[c].item
              /\ TornDown(i)[c].at = request[c].at /\ TornDown(i)[c].item = request[c].item
<1>1. request \in [Clients -> Requests]
  BY DEF TypeOK, Requests, Served
<1>2. ASSUME NEW c \in Clients, request[c] # NoRequest
      PROVE  LET t == [request[c] EXCEPT !.touched = TRUE]
                 d == [request[c] EXCEPT !.dead = TRUE]
             IN  /\ t \in Requests /\ t.at = request[c].at /\ t.item = request[c].item
                 /\ d \in Requests /\ d.at = request[c].at /\ d.item = request[c].item
  <2>1. request[c] \in Served
    BY <1>1, <1>2 DEF Requests
  <2> QED
    BY <2>1 DEF Requests, Served
<1>3. \A c \in Clients : request[c] \in Requests
  BY <1>1
<1>4. Touched(i) \in [Clients -> Requests] /\ TornDown(i) \in [Clients -> Requests]
  BY <1>2, <1>3 DEF Touched, TornDown, OnLive
<1>5. ASSUME NEW c \in Clients, Creating(c)
      PROVE  /\ Touched(i)[c].at = request[c].at /\ Touched(i)[c].item = request[c].item
             /\ TornDown(i)[c].at = request[c].at /\ TornDown(i)[c].item = request[c].item
  <2>1. request[c] # NoRequest
    BY <1>5 DEF Creating, NoRequest
  <2> QED
    BY <1>2, <2>1 DEF Touched, TornDown
<1> QED
  BY <1>4, <1>5

LEMMA SweepParts ==
  ASSUME TypeOK, sweep # NotSweeping
  PROVE  sweep.todo \subseteq Items /\ sweep.found \subseteq Items
  BY DEF TypeOK

LEMMA TypePreserved ==
  ASSUME TypeOK, [Next]_vars
  PROVE  TypeOK'
<1>0. /\ sessions \subseteq Items /\ stale \subseteq sessions /\ paused \in BOOLEAN
      /\ request \in [Clients -> Requests] /\ sweep \in Sweeps
      /\ loop \in {"idle", "picked", "busy"} /\ besides \in Nat
  BY DEF TypeOK, Requests, Served, Sweeps
<1>s. SUFFICES /\ sessions' \subseteq Items /\ stale' \subseteq sessions' /\ paused' \in BOOLEAN
               /\ request' \in [Clients -> Requests] /\ sweep' \in Sweeps
               /\ loop' \in {"idle", "picked", "busy"} /\ besides' \in Nat
  BY DEF TypeOK, Requests, Served, Sweeps
<1>1. ASSUME NEW c \in Clients, NEW i \in Items, FindSession(c, i) PROVE <1>s!1
  <2>1. Request("manifest", i, TRUE) \in Requests
    BY DEF Request, Requests, Served
  <2>2. request' \in [Clients -> Requests]
    BY <1>1, <2>1, MarkedRequests DEF FindSession
  <2> QED
    BY <1>0, <1>1, <2>2 DEF FindSession
<1>2. ASSUME NEW c \in Clients, NEW i \in Items, StartFFmpeg(c, i) \/ GetSession(c, i) PROVE <1>s!1
  <2>1. Request("ffmpeg", i, FALSE) \in Requests /\ Request("segment", i, FALSE) \in Requests
    BY DEF Request, Requests, Served
  <2>2. request' \in [Clients -> Requests]
    BY <1>0, <1>2, <2>1 DEF StartFFmpeg, GetSession
  <2> QED
    BY <1>0, <1>2, <2>2 DEF StartFFmpeg, GetSession
<1>3. ASSUME NEW c \in Clients, InsertSession(c) \/ Pause(c) PROVE <1>s!1
  <2>0. request[c].at # "none"
    BY <1>3 DEF InsertSession, Pause
  <2>1. request[c] \in Served
    BY <1>0, <2>0 DEF Requests, NoRequest
  <2>2. request[c].item \in Items
    BY <2>1 DEF Served
  <2>3. Request("insert", request[c].item, TRUE) \in Requests /\ Request("manifest", request[c].item, TRUE) \in Requests
    BY <2>2 DEF Request, Requests, Served
  <2>4. request' \in [Clients -> Requests]
    BY <1>0, <1>3, <2>3 DEF InsertSession, Pause
  <2> QED
    BY <1>0, <1>3, <2>2, <2>4 DEF InsertSession, Pause
<1>4. ASSUME NEW c \in Clients, Serve(c) PROVE <1>s!1
  <2>0. NoRequest \in Requests
    BY DEF Requests
  <2>1. request[c] \in Served
    BY <1>0, <1>4 DEF Serve, Serving, Requests, NoRequest
  <2>2. Touched(request[c].item) \in [Clients -> Requests]
    BY <2>1, MarkedRequests DEF Served
  <2>3. request' \in [Clients -> Requests]
    BY <1>0, <1>4, <2>0, <2>2 DEF Serve
  <2> QED
    BY <1>0, <1>4, <2>3 DEF Serve
<1>5. ASSUME NEW c \in Clients, GiveUp(c) PROVE <1>s!1
  BY <1>0, <1>5 DEF GiveUp, Requests
<1>6. ASSUME NEW i \in Items, GoStale(i) PROVE <1>s!1
  BY <1>0, <1>6 DEF GoStale
<1>7. CASE Tick
  BY <1>0, <1>7 DEF Tick, Sweeping, Sweeps
<1>8. ASSUME NEW i \in Items, Look(i) PROVE <1>s!1
  <2>1. sweep' \in Sweeps
    BY <1>8, SweepParts DEF Look, Sweeping, Sweeps
  <2> QED
    BY <1>0, <1>8, <2>1 DEF Look
<1>9. ASSUME NEW i \in Items, CleanupSession(i) PROVE <1>s!1
  <2>1. sweep' \in Sweeps
    BY <1>9, SweepParts DEF CleanupSession, Sweeping, Sweeps
  <2>2. request' \in [Clients -> Requests]
    BY <1>9, MarkedRequests DEF CleanupSession
  <2> QED
    BY <1>0, <1>9, <2>1, <2>2 DEF CleanupSession
<1>10. CASE EndSweep
  BY <1>0, <1>10 DEF EndSweep, Sweeps
<1>11. CASE PickJob \/ StartJob \/ LoopAround
  BY <1>0, <1>11 DEF PickJob, StartJob, LoopAround
<1>12. CASE UNCHANGED vars
  BY <1>0, <1>12 DEF vars
<1> QED
  BY <1>1, <1>2, <1>3, <1>4, <1>5, <1>6, <1>7, <1>8, <1>9, <1>10, <1>11, <1>12
     DEF Next, Handler, Sweeper

\* The tables hold what they are declared to hold, and no session is idle that is
\* not in the map.
THEOREM TypeCorrect == Spec => []TypeOK
<1>1. Init => TypeOK
  <2> SUFFICES ASSUME Init PROVE TypeOK
    OBVIOUS
  <2>1. request \in [Clients -> {NoRequest}]
    BY DEF Init
  <2>2. request \in [Clients -> Requests]
    BY <2>1 DEF Requests
  <2> QED
    BY <2>2 DEF Init, TypeOK, Requests, Served
<1>2. TypeOK /\ [Next]_vars => TypeOK'
  BY TypePreserved
<1> QED
  BY <1>1, <1>2, PTL DEF Spec

-----------------------------------------------------------------------------
(* Streams and jobs *)

\* The flag is up beside every session but one that is being made; a job that starts
\* under it was picked before it went up, and is the only one.
JobsHeld ==
  /\ Settled # {} => paused
  /\ ~paused => besides = 0
  /\ besides = 0 \/ (besides = 1 /\ loop # "picked")

\* A session becomes a settled one in no step but the Pause of its creation.
LEMMA SettledShrinks ==
  ASSUME TypeOK, [Next]_vars, \A c \in Clients : ~Pause(c)
  PROVE  Settled' \subseteq Settled
<1>0. request \in [Clients -> Requests]
  BY DEF TypeOK, Requests, Served
<1>s. SUFFICES /\ \A c \in Clients : Creating(c) => Creating(c)' /\ request'[c].item = request[c].item
               /\ \A i \in sessions' \ sessions : \E c \in Clients : Creating(c)' /\ request'[c].item = i
  BY DEF Settled
<1>1. ASSUME NEW c \in Clients, NEW i \in Items, FindSession(c, i) PROVE <1>s!1
  <2>1. ~Creating(c) /\ sessions' = sessions /\ request' = [Touched(i) EXCEPT ![c] = Request("manifest", i, TRUE)]
    BY <1>1 DEF FindSession, Creating, NoRequest
  <2> QED
    BY <2>1, MarkedRequests DEF Creating
<1>2. ASSUME NEW c \in Clients, NEW i \in Items, StartFFmpeg(c, i) \/ GetSession(c, i) PROVE <1>s!1
  <2>0. request[c] = NoRequest /\ sessions' = sessions
    BY <1>2 DEF StartFFmpeg, GetSession
  <2>1. ~Creating(c) /\ sessions' = sessions
    BY <2>0 DEF Creating, NoRequest
  <2> QED
    BY <1>0, <1>2, <2>1 DEF StartFFmpeg, GetSession, Creating
<1>3. ASSUME NEW c \in Clients, InsertSession(c) PROVE <1>s!1
  <2>1. request'[c] = Request("insert", request[c].item, TRUE)
        /\ \A d \in Clients : d # c => request'[d] = request[d]
    BY <1>0, <1>3 DEF InsertSession
  <2>2. request'[c].at = "insert" /\ request'[c].item = request[c].item
    BY <2>1 DEF Request
  <2>3. sessions' = sessions \cup {request[c].item}
    BY <1>3 DEF InsertSession
  <2> QED
    BY <2>1, <2>2, <2>3 DEF Creating
<1>4. ASSUME NEW c \in Clients, Serve(c) PROVE <1>s!1
  <2>1. ~Creating(c) /\ sessions' = sessions /\ request[c] \in Served
    BY <1>0, <1>4 DEF Serve, Serving, Creating, Requests, NoRequest
  <2>2. request[c].item \in Items
    BY <2>1 DEF Served
  <2> QED
    BY <1>0, <1>4, <2>1, <2>2, MarkedRequests DEF Serve, Creating
<1>5. ASSUME NEW c \in Clients, GiveUp(c) PROVE <1>s!1
  <2>1. ~Creating(c) /\ sessions' = sessions
    BY <1>5 DEF GiveUp, Serving, Creating
  <2> QED
    BY <1>0, <1>5, <2>1 DEF GiveUp, Creating
<1>6. ASSUME NEW i \in Items, CleanupSession(i) PROVE <1>s!1
  BY <1>6, MarkedRequests DEF CleanupSession, Creating
<1>7. CASE UNCHANGED <<sessions, request>>
  BY <1>7 DEF Creating
<1> QED
  BY <1>1, <1>2, <1>3, <1>4, <1>5, <1>6, <1>7
     DEF Next, Handler, Sweeper, GoStale, Tick, Look, EndSweep, PickJob, StartJob, LoopAround, vars

LEMMA JobsHeldStep == TypeOK /\ JobsHeld /\ [Next]_vars => JobsHeld'
<1> SUFFICES ASSUME TypeOK, JobsHeld, [Next]_vars PROVE JobsHeld'
  OBVIOUS
<1>0. paused \in BOOLEAN /\ besides \in Nat /\ Settled \subseteq sessions
  BY DEF TypeOK, Settled
<1>1. ASSUME NEW c \in Clients, Pause(c) PROVE JobsHeld'
  BY <1>1 DEF JobsHeld, Pause
<1>2. CASE \A c \in Clients : ~Pause(c)
  <2>0. Settled' \subseteq Settled
    BY <1>2, SettledShrinks
  <2>1. CASE EndSweep
    BY <1>0, <2>0, <2>1 DEF JobsHeld, EndSweep
  <2>2. CASE PickJob
    BY <1>0, <2>0, <2>2 DEF JobsHeld, PickJob
  <2>3. CASE StartJob
    BY <1>0, <2>0, <2>3 DEF JobsHeld, StartJob
  <2>4. CASE LoopAround
    BY <1>0, <2>0, <2>4 DEF JobsHeld, LoopAround
  <2>5. CASE UNCHANGED <<paused, loop, besides>>
    BY <2>0, <2>5 DEF JobsHeld
  <2> QED
    BY <1>2, <2>1, <2>2, <2>3, <2>4, <2>5
       DEF Next, Handler, Sweeper, FindSession, StartFFmpeg, InsertSession, GetSession, Serve,
           GiveUp, GoStale, Tick, Look, CleanupSession, vars
<1> QED
  BY <1>1, <1>2

\* From the Pause of a stream to the sweep that finds the table empty, whatever requests,
\* further streams and sweeps do, the loop starts at most the one job it had picked.
THEOREM StreamsHoldJobs == Spec => []AtMostOneJobBesideStreams
<1>1. Init => JobsHeld
  BY DEF Init, JobsHeld, Settled
<1>2. JobsHeld => AtMostOneJobBesideStreams
  BY DEF JobsHeld, AtMostOneJobBesideStreams
<1> QED
  BY <1>1, <1>2, JobsHeldStep, TypeCorrect, PTL DEF Spec

=============================================================================
