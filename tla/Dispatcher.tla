------------------------------ MODULE Dispatcher ------------------------------
(***************************************************************************)
(* The background job system: the jobs table (internal/repository/jobs.go), *)
(* the single dispatcher goroutine (internal/jobs/dispatcher.go) with its   *)
(* in-memory queue, and the goroutines that enqueue jobs (the scheduler and *)
(* POST /admin/jobs).                                                       *)
(*                                                                          *)
(* Granularity: one action per SQL statement or queueMu critical section,   *)
(* so every point where another goroutine, a crash or a failing statement   *)
(* can come between two steps of the code is a state of the model.          *)
(***************************************************************************)
EXTENDS Integers, Sequences, FiniteSets, SequencesExt

CONSTANTS
  Type,             \* job types
  NoType,           \* the type of a row that was never inserted
  Related,          \* related_id values, NoRelated (SQL NULL) among them
  NoRelated,
  HandlerOrder,     \* the Register calls of main.go, in order
  SupportsSubjobs,  \* the types whose JobMeta says SupportsSubjobs
  Transcode,        \* the low-priority type, "video_transcode"
  Emits,            \* Emits[t]: the sub-job buffers a handler of t may leave
  Requests,         \* [type, related] pairs asked for by the enqueuing goroutines
  Requeuer,         \* types whose handler inserts top-level rows (integrity_check)
  Requeues,         \* the [type, related] pairs those handlers insert
  Clients,          \* enqueuing goroutines: the scheduler and HTTP handlers
  FlushSize,        \* rows per JobCreateSubJobBatch (500 in the code)
  ClaimLimit,       \* rows per JobClaimSubJobBatch (100 in the code)
  MaxTop, MaxSub,   \* bounds: top-level rows and sub-job rows ever inserted
  MaxCrashes,       \* bound: process crashes
  MaxFaults         \* bound: failing SQL statements

TopId == 1..MaxTop
SubId == (MaxTop + 1)..(MaxTop + MaxSub)
JobId == TopId \cup SubId
Request == [type : Type, related : Related]

ASSUME BoundsAssumption ==
  /\ MaxTop \in Nat \ {0} /\ MaxSub \in Nat
  /\ FlushSize \in Nat \ {0} /\ ClaimLimit \in Nat \ {0}
  /\ MaxCrashes \in Nat /\ MaxFaults \in Nat

ASSUME TypesAssumption ==
  /\ NoType \notin Type
  /\ NoRelated \in Related
  /\ HandlerOrder \in Seq(Type)
  /\ Emits \in [Type -> SUBSET Seq(Type)]
  /\ Requests \subseteq Request
  /\ Requeues \subseteq Request

\* Only the handlers whose JobMeta says so buffer sub-jobs (collection_scan, dzi_gen).
ASSUME SubJobsAssumption == \A t \in Type \ SupportsSubjobs : Emits[t] \subseteq {<<>>}

VARIABLES
  \* the jobs table; a row with parent_job_id NULL has an id in TopId
  status,     \* status[j], "absent" before the INSERT and after a DELETE
  type, related, parent,
  nextTop, nextSub,      \* the next ids of the identity column
  \* the Dispatcher struct
  queue,      \* ids of the in-memory queue (an entry's jobType is the row's type)
  wake,       \* wakeCh holds a token
  paused,
  regs,       \* how many Register calls have run
  \* the dispatcher goroutine
  pc, cur,
  buf,        \* the part of JobContext.subJobBuf that is not flushed yet
  flushed,    \* FlushSubJobs's count is positive
  batch,      \* claimed sub-jobs whose goroutine has not ended
  \* the enqueuing goroutines
  cpc, req, made,
  \* the environment
  crashes, faults,
  pausedStarts  \* top-level jobs marked running since the dispatcher was paused

table    == <<status, type, related, parent, nextTop, nextSub>>
identity == <<type, related, parent, nextTop, nextSub>>
memory   == <<queue, wake, paused, regs>>
loop     == <<pc, cur, buf, flushed, batch>>
clients  == <<cpc, req, made>>
vars     == <<table, memory, loop, clients, crashes, faults, pausedStarts>>

NonTerminal == {"queued", "running", "running_sub_jobs"}
Terminal    == {"done", "failed"}
Handlers    == {HandlerOrder[i] : i \in 1..regs}
Ready       == pc # "off" /\ regs = Len(HandlerOrder)

Children(p) == {s \in SubId : parent[s] = p /\ status[s] # "absent"}

-----------------------------------------------------------------------------
(* SQL statements: a statement is executed and answered ("ok"), rejected     *)
(* ("err"), or executed with its answer lost ("lost").                       *)

Outcomes     == IF faults < MaxFaults THEN {"ok", "err", "lost"} ELSE {"ok"}
Committed(o) == o # "err"
Answered(o)  == o = "ok"
Spend(o)     == faults' = faults + (IF o = "ok" THEN 0 ELSE 1)

Write(o, newStatus) == status' = IF Committed(o) THEN newStatus ELSE status

JobMarkRunning(j)        == [status EXCEPT ![j] = "running"]
JobMarkRunningSubJobs(j) == [status EXCEPT ![j] = "running_sub_jobs"]
JobMarkFailed(j)         == [status EXCEPT ![j] = "failed"]

\* One statement: the children go and the row is done.
JobMarkDone_KeepsChildren(j) == [status EXCEPT ![j] = "done"]
JobMarkDone(j) ==
  [i \in JobId |-> IF i = j THEN "done"
                   ELSE IF i \in Children(j) THEN "absent" ELSE status[i]]

JobsResetStuck_Never == status
JobsResetStuck_TopLevelOnly ==
  [j \in JobId |-> IF j \in TopId /\ status[j] = "running" THEN "queued" ELSE status[j]]
JobsResetStuck ==
  [j \in JobId |-> IF status[j] = "running" THEN "queued" ELSE status[j]]

\* JobIsActive, or JobIsActiveByType when the request has no related id.
JobIsActive_NotSubJobs(q) ==
  \E j \in TopId : /\ status[j] \in {"queued", "running"}
                   /\ type[j] = q.type
                   /\ q.related = NoRelated \/ related[j] = q.related
JobIsActive(q) ==
  \E j \in TopId : /\ status[j] \in NonTerminal
                   /\ type[j] = q.type
                   /\ q.related = NoRelated \/ related[j] = q.related

JobCreate(o, q) ==
  /\ nextTop <= MaxTop
  /\ IF Committed(o)
     THEN /\ status'  = [status EXCEPT ![nextTop] = "queued"]
          /\ type'    = [type EXCEPT ![nextTop] = q.type]
          /\ related' = [related EXCEPT ![nextTop] = q.related]
          /\ nextTop' = nextTop + 1
     ELSE UNCHANGED <<status, type, related, nextTop>>
  /\ UNCHANGED <<parent, nextSub>>

JobCreateSubJobBatch(o, n) ==
  LET new == nextSub..(nextSub + n - 1) IN
  IF Committed(o)
  THEN /\ status' = [j \in JobId |-> IF j \in new THEN "queued" ELSE status[j]]
       /\ type'   = [j \in JobId |-> IF j \in new THEN buf[j - nextSub + 1] ELSE type[j]]
       /\ parent' = [s \in SubId |-> IF s \in new THEN cur ELSE parent[s]]
       /\ nextSub' = nextSub + n
       /\ UNCHANGED <<related, nextTop>>
  ELSE UNCHANGED table

\* The claimed rows: the first ClaimLimit queued children, by id.
Claimable(p) ==
  LET waiting == {s \in Children(p) : status[s] = "queued"} IN
  {s \in waiting : Cardinality({t \in waiting : t < s}) < ClaimLimit}

-----------------------------------------------------------------------------
(* The dispatcher goroutine: run, loadFromDB, processNext, executeSubJobs.   *)

Idle == /\ pc' = "idle" /\ cur' = 0
        /\ buf' = <<>> /\ flushed' = FALSE /\ batch' = {}

Goto(l) == pc' = l /\ UNCHANGED <<cur, buf, flushed, batch>>

WakeUp ==
  /\ pc = "idle" /\ wake
  /\ wake' = FALSE
  /\ Goto("process")
  /\ UNCHANGED <<table, queue, paused, regs, clients, crashes, faults, pausedStarts>>

PollTick ==
  /\ pc = "idle"
  /\ Goto("load")
  /\ UNCHANGED <<table, memory, clients, crashes, faults, pausedStarts>>

\* The sequences that list S in id order (exactly one): ORDER BY queued_at.  A
\* query that fails, at once or between two rows, has listed a part of them.
InIdOrder(S) ==
  {q \in [1..Cardinality(S) -> S] : \A i, k \in DOMAIN q : i < k => q[i] < q[k]}

Pending_QueuedOnly == {j \in TopId : status[j] = "queued"}
Pending == {j \in TopId : status[j] \in {"queued", "running_sub_jobs"}}

LoadFromDB ==
  /\ pc = "load"
  /\ \E q \in InIdOrder(Pending \ ToSet(queue)) :
       \/ queue' = queue \o q /\ UNCHANGED faults
       \/ /\ faults < MaxFaults /\ faults' = faults + 1
          /\ \E k \in 0..Len(q) : queue' = queue \o SubSeq(q, 1, k)
  /\ Goto("process")
  /\ UNCHANGED <<table, wake, paused, regs, clients, crashes, pausedStarts>>

\* Positions of the entries that outrank a transcode.
Urgent == {i \in DOMAIN queue : type[queue[i]] # Transcode}
IsNext(i) == IF Urgent = {} THEN i = 1
             ELSE i \in Urgent /\ \A k \in Urgent : i <= k

\* processNext up to the pick: paused and an empty queue return at once.
ProcessNext_IgnoresPause ==
  /\ pc = "process"
  /\ \/ /\ queue = <<>>
        /\ Idle /\ UNCHANGED queue
     \/ \E i \in DOMAIN queue :
          /\ IsNext(i)
          /\ cur' = queue[i] /\ queue' = RemoveAt(queue, i)
          /\ pc' = "fetch" /\ UNCHANGED <<buf, flushed, batch>>
  /\ UNCHANGED <<table, wake, paused, regs, clients, crashes, faults, pausedStarts>>
ProcessNext ==
  /\ pc = "process"
  /\ \/ /\ paused \/ queue = <<>>
        /\ Idle /\ UNCHANGED queue
     \/ /\ ~paused
        /\ \E i \in DOMAIN queue :
             /\ IsNext(i)
             /\ cur' = queue[i] /\ queue' = RemoveAt(queue, i)
        /\ pc' = "fetch" /\ UNCHANGED <<buf, flushed, batch>>
  /\ UNCHANGED <<table, wake, paused, regs, clients, crashes, faults, pausedStarts>>

\* JobGet fails, or the row is neither queued nor running_sub_jobs: dropped.
DropEntry ==
  /\ pc = "fetch"
  /\ \/ status[cur] \notin {"queued", "running_sub_jobs"} /\ UNCHANGED faults
     \/ faults < MaxFaults /\ faults' = faults + 1
  /\ Idle
  /\ UNCHANGED <<table, memory, clients, crashes, pausedStarts>>

ResumeSubJobs ==
  /\ pc = "fetch" /\ status[cur] = "running_sub_jobs"
  /\ IF type[cur] \in Handlers THEN Goto("claim") ELSE Idle
  /\ UNCHANGED <<table, memory, clients, crashes, faults, pausedStarts>>

RejectUnknown(o) ==
  /\ pc = "fetch" /\ status[cur] = "queued" /\ type[cur] \notin Handlers
  /\ Write(o, JobMarkFailed(cur)) /\ Spend(o)
  /\ Idle
  /\ UNCHANGED <<identity, memory, clients, crashes, pausedStarts>>

StartJob_NoStatusCheck(o) ==
  /\ pc = "fetch" /\ status[cur] # "running_sub_jobs" /\ type[cur] \in Handlers
  /\ Write(o, JobMarkRunning(cur)) /\ Spend(o)
  /\ pausedStarts' = IF paused /\ Committed(o) THEN pausedStarts + 1 ELSE pausedStarts
  /\ IF Answered(o) THEN Goto("handler") ELSE Idle
  /\ UNCHANGED <<identity, memory, clients, crashes>>
StartJob(o) ==
  /\ pc = "fetch" /\ status[cur] = "queued" /\ type[cur] \in Handlers
  /\ Write(o, JobMarkRunning(cur)) /\ Spend(o)
  /\ pausedStarts' = IF paused /\ Committed(o) THEN pausedStarts + 1 ELSE pausedStarts
  /\ IF Answered(o) THEN Goto("handler") ELSE Idle
  /\ UNCHANGED <<identity, memory, clients, crashes>>

\* The handler returns an error, or exiftool cannot be started.
HandlerFails(o) ==
  /\ pc = "handler"
  /\ Write(o, JobMarkFailed(cur)) /\ Spend(o)
  /\ Idle
  /\ UNCHANGED <<identity, memory, clients, crashes, pausedStarts>>

\* checkVideoDerivatives inserts a top-level row unless one is active, and
\* wakes the dispatcher; the row is not put in the in-memory queue.  The error
\* of its JobIsActive is dropped and reads as "not active".
HandlerRequeues(q, o) ==
  /\ pc = "handler" /\ type[cur] \in Requeuer
  /\ \/ ~JobIsActive(q) /\ Spend(o)
     \/ faults < MaxFaults /\ faults' = faults + 1 /\ Answered(o)
  /\ JobCreate(o, q)
  /\ wake' = (wake \/ Answered(o))
  /\ UNCHANGED <<queue, paused, regs, loop, clients, crashes, pausedStarts>>

HandlerReturns ==
  /\ pc = "handler"
  /\ \E b \in Emits[type[cur]] :
       /\ nextSub + Len(b) <= MaxTop + MaxSub + 1
       /\ buf' = b
  /\ pc' = "flush"
  /\ UNCHANGED <<table, memory, cur, flushed, batch, clients, crashes, faults, pausedStarts>>

\* One round of FlushSubJobs: a batch that fails is logged and skipped.
FlushBatch(o) ==
  LET n == IF Len(buf) < FlushSize THEN Len(buf) ELSE FlushSize IN
  /\ pc = "flush" /\ buf # <<>>
  /\ JobCreateSubJobBatch(o, n) /\ Spend(o)
  /\ flushed' = (flushed \/ Answered(o))
  /\ buf' = SubSeq(buf, n + 1, Len(buf))
  /\ UNCHANGED <<pc, cur, batch, memory, clients, crashes, pausedStarts>>

AfterFlush(o) ==
  /\ pc = "flush" /\ buf = <<>>
  /\ Spend(o)
  /\ IF flushed /\ type[cur] \in SupportsSubjobs
     THEN Write(o, JobMarkRunningSubJobs(cur)) /\ Goto("claim")
     ELSE Write(o, JobMarkDone(cur)) /\ Idle
  /\ UNCHANGED <<identity, memory, clients, crashes, pausedStarts>>

MustYield == type[cur] = Transcode /\ Urgent # {}

YieldTranscode ==
  /\ pc = "claim" /\ MustYield
  /\ queue' = <<cur>> \o queue
  /\ wake' = TRUE
  /\ Idle
  /\ UNCHANGED <<table, paused, regs, clients, crashes, faults, pausedStarts>>

\* An error and an empty batch both end the loop.
Claim(o) ==
  /\ pc = "claim" /\ ~MustYield
  /\ Write(o, [j \in JobId |-> IF j \in Claimable(cur) THEN "running" ELSE status[j]])
  /\ Spend(o)
  /\ IF Answered(o) /\ Claimable(cur) # {}
     THEN pc' = "batch" /\ batch' = Claimable(cur) /\ UNCHANGED <<cur, buf, flushed>>
     ELSE Goto("finish")
  /\ UNCHANGED <<identity, memory, clients, crashes, pausedStarts>>

\* One goroutine of the batch ends; the loop goes on after the last (wg.Wait).
RunSubJob_OneBatchOnly(s, o) ==
  /\ pc = "batch" /\ s \in batch
  /\ \/ type[s] \in Handlers /\ Write(o, JobMarkDone(s))
     \/ Write(o, JobMarkFailed(s))
  /\ Spend(o)
  /\ batch' = batch \ {s}
  /\ pc' = IF batch = {s} THEN "finish" ELSE "batch"
  /\ UNCHANGED <<identity, memory, cur, buf, flushed, clients, crashes, pausedStarts>>
RunSubJob(s, o) ==
  /\ pc = "batch" /\ s \in batch
  /\ \/ type[s] \in Handlers /\ Write(o, JobMarkDone(s))
     \/ Write(o, JobMarkFailed(s))
  /\ Spend(o)
  /\ batch' = batch \ {s}
  /\ pc' = IF batch = {s} THEN "claim" ELSE "batch"
  /\ UNCHANGED <<identity, memory, cur, buf, flushed, clients, crashes, pausedStarts>>

FinishParent(o) ==
  /\ pc = "finish"
  /\ Write(o, JobMarkDone(cur)) /\ Spend(o)
  /\ Idle
  /\ UNCHANGED <<identity, memory, clients, crashes, pausedStarts>>

DispatcherStep ==
  \/ WakeUp \/ LoadFromDB \/ ProcessNext \/ DropEntry \/ ResumeSubJobs
  \/ HandlerReturns \/ YieldTranscode
  \/ \E o \in Outcomes :
       \/ RejectUnknown(o) \/ StartJob(o) \/ HandlerFails(o)
       \/ FlushBatch(o) \/ AfterFlush(o) \/ Claim(o) \/ FinishParent(o)
       \/ \E s \in batch : RunSubJob(s, o)

-----------------------------------------------------------------------------
(* The enqueuing goroutines: createJob and the scheduler check for an active *)
(* job, then Enqueue inserts the row, appends the entry and wakes the loop.  *)

\* An active job answers 409 (or is skipped) and changes nothing.
CheckActive(c, q) ==
  /\ Ready /\ cpc[c] = "idle" /\ ~JobIsActive(q)
  /\ cpc' = [cpc EXCEPT ![c] = "checked"]
  /\ req' = [req EXCEPT ![c] = q]
  /\ UNCHANGED <<table, memory, loop, made, crashes, faults, pausedStarts>>

EnqueueRow_IgnoresError(c, o) ==
  /\ cpc[c] = "checked"
  /\ JobCreate(o, req[c]) /\ Spend(o)
  /\ cpc'  = [cpc EXCEPT ![c] = "created"]
  /\ made' = [made EXCEPT ![c] = IF Answered(o) THEN nextTop ELSE 0]
  /\ UNCHANGED <<req, memory, loop, crashes, pausedStarts>>
EnqueueRow(c, o) ==
  /\ cpc[c] = "checked"
  /\ JobCreate(o, req[c]) /\ Spend(o)
  /\ cpc'  = [cpc EXCEPT ![c] = IF Answered(o) THEN "created" ELSE "idle"]
  /\ made' = [made EXCEPT ![c] = IF Answered(o) THEN nextTop ELSE 0]
  /\ UNCHANGED <<req, memory, loop, crashes, pausedStarts>>

EnqueueEntry(c) ==
  /\ cpc[c] = "created"
  /\ queue' = Append(queue, made[c])
  /\ wake' = TRUE
  /\ cpc'  = [cpc EXCEPT ![c] = "idle"]
  /\ made' = [made EXCEPT ![c] = 0]
  /\ UNCHANGED <<req, table, paused, regs, loop, crashes, faults, pausedStarts>>

-----------------------------------------------------------------------------
(* main.go and the streaming package.                                        *)

\* JobsResetStuck, then Start: from here the goroutine races the Register calls.
Boot ==
  /\ pc = "off"
  /\ status' = JobsResetStuck
  /\ Goto("load")
  /\ UNCHANGED <<identity, memory, clients, crashes, faults, pausedStarts>>

Register ==
  /\ pc # "off" /\ regs < Len(HandlerOrder)
  /\ regs' = regs + 1
  /\ UNCHANGED <<table, queue, wake, paused, loop, clients, crashes, faults, pausedStarts>>

\* A crash, or Stop: its cancelled context makes every later statement fail.
Crash ==
  /\ pc # "off" /\ crashes < MaxCrashes
  /\ crashes' = crashes + 1
  /\ queue' = <<>> /\ wake' = FALSE /\ paused' = FALSE /\ regs' = 0
  /\ pc' = "off" /\ cur' = 0 /\ buf' = <<>> /\ flushed' = FALSE /\ batch' = {}
  /\ cpc' = [c \in Clients |-> "idle"] /\ made' = [c \in Clients |-> 0]
  /\ pausedStarts' = 0
  /\ UNCHANGED <<table, req, faults>>

Pause ==
  /\ Ready /\ ~paused
  /\ paused' = TRUE
  /\ UNCHANGED <<table, queue, wake, regs, loop, clients, crashes, faults, pausedStarts>>

Resume ==
  /\ Ready /\ paused
  /\ paused' = FALSE /\ pausedStarts' = 0
  /\ UNCHANGED <<table, queue, wake, regs, loop, clients, crashes, faults>>

Init ==
  /\ status = [j \in JobId |-> "absent"] /\ type = [j \in JobId |-> NoType]
  /\ related = [j \in TopId |-> NoRelated] /\ parent = [s \in SubId |-> 0]
  /\ nextTop = 1 /\ nextSub = MaxTop + 1
  /\ queue = <<>> /\ wake = FALSE /\ paused = FALSE /\ regs = 0
  /\ pc = "off" /\ cur = 0 /\ buf = <<>> /\ flushed = FALSE /\ batch = {}
  /\ cpc = [c \in Clients |-> "idle"] /\ made = [c \in Clients |-> 0]
  /\ req = [c \in Clients |-> [type |-> NoType, related |-> NoRelated]]
  /\ crashes = 0 /\ faults = 0 /\ pausedStarts = 0

ClientStep(c) ==
  \/ \E q \in Requests : CheckActive(c, q)
  \/ \E o \in Outcomes : EnqueueRow(c, o)
  \/ EnqueueEntry(c)

Next ==
  \/ DispatcherStep \/ PollTick
  \/ \E q \in Requeues, o \in Outcomes : HandlerRequeues(q, o)
  \/ \E c \in Clients : ClientStep(c)
  \/ Boot \/ Register \/ Crash \/ Pause \/ Resume

Spec == Init /\ [][Next]_vars

\* The goroutine runs while the process is up and every handler returns; the
\* ticker keeps firing; main goes on to Register; the container is restarted
\* (docker-compose restart: unless-stopped); an Enqueue that began goes on.
Fairness ==
  /\ WF_vars(DispatcherStep) /\ WF_vars(PollTick)
  /\ WF_vars(Boot) /\ WF_vars(Register)
  /\ \A c \in Clients : WF_vars(EnqueueEntry(c))

FairSpec == Spec /\ Fairness

-----------------------------------------------------------------------------
(* Properties.                                                               *)

\* Every variable has its type, and the identity column never runs ahead.
TypeOK ==
  /\ status \in [JobId -> {"absent"} \cup NonTerminal \cup Terminal]
  /\ type \in [JobId -> Type \cup {NoType}]
  /\ related \in [TopId -> Related]
  /\ parent \in [SubId -> TopId \cup {0}]
  /\ nextTop \in 1..(MaxTop + 1)
  /\ nextSub \in (MaxTop + 1)..(MaxTop + MaxSub + 1)
  /\ queue \in Seq(TopId) /\ wake \in BOOLEAN /\ paused \in BOOLEAN
  /\ regs \in 0..Len(HandlerOrder)
  /\ pc \in {"off", "idle", "load", "process", "fetch", "handler", "flush",
             "claim", "batch", "finish"}
  /\ cur \in TopId \cup {0}
  /\ buf \in Seq(Type) /\ flushed \in BOOLEAN /\ batch \subseteq SubId
  /\ cpc \in [Clients -> {"idle", "checked", "created"}]
  /\ req \in [Clients -> [type : Type \cup {NoType}, related : Related]]
  /\ made \in [Clients -> TopId \cup {0}]
  /\ crashes \in 0..MaxCrashes /\ faults \in 0..MaxFaults
  /\ pausedStarts \in Nat

\* Ids below nextTop are rows of the table (top-level rows are never deleted);
\* ids from nextSub on are not in use yet.
RowsBorn ==
  /\ \A j \in TopId : j < nextTop <=> status[j] # "absent"
  /\ \A s \in SubId : s >= nextSub => status[s] = "absent"
  /\ \A j \in JobId : status[j] # "absent" => type[j] \in Type

\* Every id the memory holds is a row: queue entries, and what Enqueue inserted.
HeldBorn ==
  /\ \A i \in DOMAIN queue : status[queue[i]] # "absent"
  /\ \A c \in Clients : /\ cpc[c] = "checked" => req[c] \in Request
                        /\ cpc[c] = "created" => /\ made[c] \in TopId
                                                 /\ status[made[c]] # "absent"

\* What the goroutine's position says of the row it works on.
LoopState ==
  /\ cur = 0 <=> pc \in {"off", "idle", "load", "process"}
  /\ cur # 0 => status[cur] # "absent"
  /\ pc \in {"handler", "flush"} => status[cur] = "running"
  /\ pc \in {"claim", "batch", "finish"} => status[cur] \in {"running", "running_sub_jobs"}
  /\ pc = "flush" => nextSub + Len(buf) <= MaxTop + MaxSub + 1
  /\ pc # "batch" => batch = {}
  /\ batch \subseteq Children(cur)

\* A job that is done has no sub-job rows left, whatever crashed or failed
\* before: JobMarkDone deletes them in the statement that sets the status, and
\* FlushSubJobs writes only under a running row.
DoneHasNoChildren == \A p \in TopId : status[p] = "done" => Children(p) = {}

\* The inductive invariant: rows, references and the loop agree, so the loop
\* writes sub-jobs only under a row that is running, never under a done one.
RowsAndLoopAgree == RowsBorn /\ HeldBorn /\ LoopState /\ DoneHasNoChildren

\* A top-level job that is done or failed keeps that status: an id that is in
\* the in-memory queue twice (Enqueue racing loadFromDB) is not run again.
TerminalIsFinal ==
  [][\A j \in TopId : status[j] \in Terminal => status'[j] = status[j]]_vars

\* With no failing statement, at most one top-level job has status running
\* ("runs jobs sequentially (one top-level at a time)"), across crashes.
OneRunning ==
  faults = 0 => \A i, j \in TopId : status[i] = "running" /\ status[j] = "running" => i = j

\* With no failing statement, a sub-job is running only while a goroutine of
\* the current batch runs it, so no row is left behind by a crash.
RunningSubJobIsInBatch ==
  faults = 0 /\ pc # "off" => \A s \in SubId : status[s] = "running" => s \in batch

\* Pause lets at most the top-level job already picked start: one until Resume. The
\* sub-job batches of a job in hand never look at the flag and are not counted.
AtMostOneStartWhilePaused == pausedStarts <= 1

\* The unfinished jobs of one request.
Active(q) == {j \in TopId : /\ status[j] \in NonTerminal
                            /\ type[j] = q.type /\ related[j] = q.related}

\* createJob and the scheduler check before they insert, without a lock: they
\* keep the active jobs of a request to one per caller, across crashes and
\* answers that are lost.
OneActivePerCaller == \A q \in Requests : Cardinality(Active(q)) <= Cardinality(Clients)

\* "executeSubJobs runs all sub-jobs for the given parent job": a sub-job row
\* is deleted only after its handler succeeded or failed.
SubJobsEnd ==
  \A s \in SubId : status[s] \in NonTerminal => status'[s] # "absent"

\* It holds with no crash and no failing statement, also when a transcode
\* parent yields between batches and is resumed.
NoSubJobDiscardedUndisturbed == [][crashes = 0 /\ faults = 0 => SubJobsEnd]_vars

Executing == {"handler", "flush", "claim", "batch", "finish"}
taken     == IF pc \in Executing THEN {cur} ELSE {}

Promise == INSTANCE SequentialQueue WITH
  Job      <- TopId,
  waiting  <- {j \in TopId : status[j] \in NonTerminal} \ taken,
  running  <- taken,
  finished <- {j \in TopId : status[j] \in Terminal}

\* The dispatcher implements the sequential queue it promises, through crashes
\* and failing statements: a job is executed only while it is unfinished.
ImplementsSequentialQueue == Promise!Spec

\* Once streaming no longer pauses the dispatcher, a queued job ends: by the
\* wake-up, the poll, or the recovery after a restart.
QueuedJobsEnd ==
  <>[](~paused) => \A j \in TopId : (status[j] = "queued") ~> (status[j] \in Terminal)

=============================================================================
