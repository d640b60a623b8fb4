------------------------------ MODULE Scheduler ------------------------------
(* The scheduler: a loop that computes when each schedule of jobs_schedule is   *)
(* due next, sleeps until the earliest, and starts the jobs due within 30       *)
(* seconds of that moment. It reads the table again when told to, and after an  *)
(* hour without being woken. Time is counted in half minutes: the instant k     *)
(* stands for the 30 seconds that begin there, and cron expressions name even   *)
(* instants (minutes).                                                          *)
EXTENDS Integers, FiniteSets

CONSTANTS Name,                            \* schedules
          Cron, Due,                       \* expressions, and when each is due
          Hour,                            \* the pause after which the table is read again
          MaxTime, MaxChanges, MaxFaults   \* bounds of the instance

ASSUME SchedulerAssumption ==
  /\ {Hour, MaxTime, MaxChanges, MaxFaults} \subseteq Nat
  /\ Due \in [Cron -> SUBSET {2 * k : k \in 1..MaxTime}] /\ "off" \notin Cron

VARIABLES
  now,
  table,         \* jobs_schedule: the expression of each schedule, or "off"
  signal,        \* reloadCh holds a value
  pc,            \* run: load, plan, wait, trigger, exit
  loaded,        \* schedules
  lastLoad,
  since, items,  \* when the wait began; the next time of each schedule in it
  todo,          \* the schedules being triggered
  active,        \* the schedules with a queued or running job
  changes, faults,
  done, twice,   \* times that have been triggered, and triggered again
  excused,       \* times at which the loop was late, busy or woken for something else
  late, untold   \* a sleep was overrun; the table may differ without a signal

tableVars == <<table, changes>>
loopVars  == <<pc, loaded, lastLoad, since, items, todo>>
ghosts    == <<done, twice, excused, late, untold>>
vars      == <<now, signal, active, faults, tableVars, loopVars, ghosts>>

Never == 2 * MaxTime + 2
Fault == faults < MaxFaults /\ faults' = faults + 1

On(schedules) == {n \in Name : schedules[n] # "off"}

\* cron.Schedule.Next: strictly later than now.
NextTime_Inclusive(c) ==
  CHOOSE t \in Due[c] \cup {Never} : t >= now /\ \A u \in Due[c] : u >= now => t <= u
NextTime(c) ==
  CHOOSE t \in Due[c] \cup {Never} : t > now /\ \A u \in Due[c] : u > now => t <= u

Init ==
  /\ now = 0 /\ table \in [Name -> Cron \cup {"off"}] /\ signal = FALSE
  /\ pc = "load" /\ loaded = [n \in Name |-> "off"] /\ lastLoad = 0
  /\ since = 0 /\ items = [n \in Name |-> Never] /\ todo = {}
  /\ active = {} /\ changes = 0 /\ faults = 0
  /\ done = {} /\ twice = {} /\ excused = {} /\ late = FALSE /\ untold = FALSE

-----------------------------------------------------------------------------
(* The loop *)

\* The next time is over everything that is loaded; with nothing loaded only the
\* signal and the hour remain.
Armed   == pc = "wait" /\ \E n \in Name : items[n] <= now
Overdue == {<<n, items[n]>> : n \in {m \in Name : items[m] <= now}}

\* A failed query keeps what was loaded. Times before the load are forgotten.
Load_Keep ==
  /\ pc = "load" /\ pc' = "plan" /\ loaded' = loaded /\ lastLoad' = now /\ untold' = FALSE
  /\ UNCHANGED <<now, signal, active, faults, tableVars, since, items, todo, done, twice, excused, late>>
Load ==
  /\ pc = "load" /\ pc' = "plan"
  /\ \/ loaded' = table /\ lastLoad' = now /\ untold' = FALSE /\ UNCHANGED faults
     \/ Fault /\ untold' = TRUE /\ UNCHANGED <<loaded, lastLoad>>
  /\ UNCHANGED <<now, signal, active, tableVars, since, items, todo, done, twice, excused, late>>

Plan ==
  /\ pc = "plan" /\ pc' = "wait" /\ since' = now
  /\ items' = [n \in Name |-> IF loaded[n] = "off" THEN Never ELSE NextTime(loaded[n])]
  /\ UNCHANGED <<now, signal, active, faults, tableVars, loaded, lastLoad, todo, ghosts>>

\* Of several ready cases select takes any.
WakeReload ==
  /\ pc = "wait" /\ signal /\ signal' = FALSE /\ pc' = "load"
  /\ excused' = excused \cup Overdue
  /\ UNCHANGED <<now, active, faults, tableVars, loaded, lastLoad, since, items, todo, done, twice, late, untold>>

WakeHour ==
  /\ pc = "wait" /\ now >= since + Hour
  /\ pc' = IF On(loaded) = {} \/ now > lastLoad + Hour THEN "load" ELSE "plan"
  /\ excused' = excused \cup Overdue
  /\ UNCHANGED <<now, signal, active, faults, tableVars, loaded, lastLoad, since, items, todo, done, twice, late, untold>>

\* A time is within tolerance in the 30 seconds before it and in those after it.
WakeTimer ==
  /\ Armed /\ pc' = "trigger"
  /\ todo' = {n \in Name : items[n] \in {now, now + 1}}
  /\ UNCHANGED <<now, signal, active, faults, tableVars, loaded, lastLoad, since, items, ghosts>>

\* A job that is active already is not queued again.
Trigger(n) ==
  /\ pc = "trigger" /\ n \in todo /\ todo' = todo \ {n}
  /\ \/ active' = active \cup {n} /\ UNCHANGED faults
     \/ Fault /\ UNCHANGED active
  /\ done' = done \cup {<<n, items[n]>>}
  /\ twice' = twice \cup (done \cap {<<n, items[n]>>})
  /\ UNCHANGED <<now, signal, tableVars, pc, loaded, lastLoad, since, items, excused, late, untold>>

Triggered ==
  /\ pc = "trigger" /\ todo = {} /\ pc' = "plan"
  /\ UNCHANGED <<now, signal, active, faults, tableVars, loaded, lastLoad, since, items, todo, ghosts>>

Stop ==
  /\ pc \in {"wait", "plan"} /\ pc' = "exit"
  /\ UNCHANGED <<now, signal, active, faults, tableVars, loaded, lastLoad, since, items, todo, ghosts>>

-----------------------------------------------------------------------------
(* Around it *)

\* upsertSchedule and deleteSchedule: the table, then the signal, which is dropped
\* when one is waiting.
Write(n, c) ==
  /\ changes < MaxChanges /\ changes' = changes + 1
  /\ table[n] # c /\ table' = [table EXCEPT ![n] = c] /\ signal' = TRUE
  /\ UNCHANGED <<now, active, faults, loopVars, ghosts>>

\* The same by hand, in the database.
WriteUntold(n, c) ==
  /\ Fault /\ table[n] # c /\ table' = [table EXCEPT ![n] = c] /\ untold' = TRUE
  /\ UNCHANGED <<now, signal, active, changes, loopVars, done, twice, excused, late>>

JobEnds(n) ==
  /\ n \in active /\ active' = active \ {n}
  /\ UNCHANGED <<now, signal, faults, tableVars, loopVars, ghosts>>

\* Half a minute passes: what falls due meanwhile is missed unless the loop waits,
\* and so is what the sleeping loop should already have started.
Tick ==
  /\ now < MaxTime /\ now' = now + 1
  /\ LET falling == {<<n, now + 1>> : n \in {m \in On(loaded) : now + 1 \in Due[loaded[m]]}} IN
     excused' = excused \cup IF ~Armed /\ pc = "wait" THEN {} ELSE falling \cup Overdue
  /\ late' = (late \/ Armed)
  /\ UNCHANGED <<signal, active, faults, tableVars, loopVars, done, twice, untold>>

Next ==
  \/ Load \/ Plan \/ WakeReload \/ WakeHour \/ WakeTimer \/ Triggered \/ Stop \/ Tick
  \/ \E n \in Name : Trigger(n) \/ JobEnds(n)
  \/ \E n \in Name, c \in Cron \cup {"off"} : Write(n, c) \/ WriteUntold(n, c)

\* The loop runs while it has something to do. A select that is ready for ever takes
\* each case at some time.
Fairness ==
  /\ WF_vars(Load \/ Plan \/ Triggered \/ \E n \in Name : Trigger(n))
  /\ SF_vars(WakeReload)

Spec == Init /\ [][Next]_vars /\ Fairness

-----------------------------------------------------------------------------

\* Once the loop has planned past a time of a schedule it had loaded before, that time
\* has been triggered, unless the loop was busy with something else or overslept; and
\* only an overslept loop triggers a time twice (early, then on time).
DueTriggeredOnce ==
  /\ pc = "wait" => \A n \in On(loaded) : \A d \in Due[loaded[n]] :
       lastLoad < d /\ d < items[n] => <<n, d>> \in done \cup excused
  /\ twice # {} => late

\* A change made through the API is in force eventually, whatever arrives meanwhile,
\* but for a failed query (and the process's end).
ChangeIsLoaded == (loaded # table) ~> (loaded = table \/ untold \/ pc = "exit")
=============================================================================
