--------------------------- MODULE SchedulerProofs ---------------------------
(***************************************************************************)
(* Proofs about Scheduler, for any schedules, expressions, clock, pause and *)
(* number of changes and failures: no time a schedule is due at is passed   *)
(* over or served twice without a named reason, and no change of the table  *)
(* is forgotten.                                                            *)
(***************************************************************************)
EXTENDS Scheduler, WellFoundedInduction, TLAPS

-----------------------------------------------------------------------------
(* The invariant *)

Minutes == {2 * k : k \in Nat}
Tables  == [Name -> Cron \cup {"off"}]

ClockTypes == now \in 0..MaxTime /\ lastLoad \in 0..now /\ since \in 0..now
TableTypes == table \in Tables /\ loaded \in Tables /\ items \in [Name -> Minutes]
CountTypes == changes \in 0..MaxChanges /\ faults \in 0..MaxFaults
OtherTypes ==
  /\ signal \in BOOLEAN /\ late \in BOOLEAN /\ untold \in BOOLEAN
  /\ pc \in {"load", "plan", "wait", "trigger", "exit"}
  /\ todo \subseteq Name /\ active \subseteq Name
  /\ done \subseteq Name \X Nat /\ twice \subseteq done /\ excused \subseteq Name \X Nat
TypeOK == ClockTypes /\ TableTypes /\ CountTypes /\ OtherTypes

\* The times of the schedules in force, from their loading to now, are triggered,
\* excused, or about to be triggered.
Handled(n, d) == <<n, d>> \in done \cup excused
Pending(n, d) == d = items[n] /\ (pc = "wait" \/ (pc = "trigger" /\ n \in todo))
Served ==
  pc # "exit" => \A n \in On(loaded) : \A d \in Due[loaded[n]] :
                   lastLoad < d /\ d <= now => Handled(n, d) \/ Pending(n, d)

\* The items of a sleep: each is later than its beginning, and the first such; one
\* that has passed was overslept.
ItemsAreNext ==
  pc = "wait" => \A n \in Name :
    /\ since < items[n]
    /\ n \in On(loaded) => \A d \in Due[loaded[n]] : d < items[n] => d <= since
    /\ items[n] < now => <<n, items[n]>> \in excused

\* A loop that never overslept has triggered nothing ahead of its time.
OnceOnly ==
  ~late =>
    /\ twice = {}
    /\ \A n \in Name, d \in Nat : <<n, d>> \in done => d <= now /\ (pc = "wait" => d <= since)
    /\ pc = "wait" => \A n \in Name : now <= items[n]
    /\ pc = "trigger" => \A n \in todo : items[n] <= now /\ <<n, items[n]>> \notin done

\* A table that differs from what is loaded is about to be read, or signalled, or it
\* was changed by hand or a query of it failed.
NoChangeForgotten == loaded # table => signal \/ pc = "load" \/ untold

-----------------------------------------------------------------------------
(* Types *)

LEMMA Constants ==
  /\ Hour \in Nat /\ MaxTime \in Nat /\ MaxChanges \in Nat /\ MaxFaults \in Nat
  /\ Never \in Minutes /\ MaxTime + 1 < Never
  /\ \A c \in Cron : c # "off" /\ Due[c] \subseteq Minutes /\ \A d \in Due[c] : d < Never
<1>1. Hour \in Nat /\ MaxTime \in Nat /\ MaxChanges \in Nat /\ MaxFaults \in Nat
  BY SchedulerAssumption
<1>2. Never = 2 * (MaxTime + 1) /\ MaxTime + 1 \in Nat
  BY <1>1 DEF Never
<1>3. Never \in Minutes /\ MaxTime + 1 < Never
  BY <1>1, <1>2 DEF Minutes
<1>4. ASSUME NEW c \in Cron PROVE c # "off" /\ Due[c] \subseteq Minutes /\ \A d \in Due[c] : d < Never
  <2>1. c # "off" /\ Due[c] \subseteq {2 * k : k \in 1..MaxTime}
    BY SchedulerAssumption
  <2>2. ASSUME NEW d \in Due[c] PROVE d \in Minutes /\ d < Never
    <3>1. PICK k \in 1..MaxTime : d = 2 * k
      BY <2>1
    <3>2. k \in Nat /\ k <= MaxTime
      BY <1>1
    <3> QED
      BY <1>1, <1>2, <3>1, <3>2 DEF Minutes
  <2> QED
    BY <2>1, <2>2
<1> QED
  BY <1>1, <1>3, <1>4

LEMMA MinutesAreNat == Minutes \subseteq Nat
  BY DEF Minutes

\* A set of naturals has a smallest element.
LEMMA Earliest ==
  ASSUME NEW S \in SUBSET Nat, S # {}
  PROVE  \E x \in S : \A y \in S : x <= y
<1>1. IsWellFoundedOn(OpToRel(<, Nat), Nat)
  BY NatLessThanWellFounded
<1>2. PICK x \in S : \A y \in S : ~(<<y, x>> \in OpToRel(<, Nat))
  BY <1>1, WFMin
<1>3. ASSUME NEW y \in S PROVE x <= y
  <2>1. x \in Nat /\ y \in Nat
    OBVIOUS
  <2>2. ~(y < x)
    BY <1>2, <2>1 DEF OpToRel
  <2> QED
    BY <2>1, <2>2
<1> QED
  BY <1>3

\* What cron's Next returns: the first time of the expression after now, or never.
LEMMA NextTimeIsNext ==
  ASSUME TypeOK, NEW c \in Cron
  PROVE  /\ NextTime(c) \in Minutes /\ now < NextTime(c)
         /\ \A d \in Due[c] : d < NextTime(c) => d <= now
<1> DEFINE S == {t \in Due[c] \cup {Never} : now < t}
<1>1. now \in Nat /\ now <= MaxTime /\ MaxTime \in Nat
  BY Constants DEF TypeOK, ClockTypes
<1>2. Due[c] \subseteq Nat /\ Never \in Nat /\ now < Never /\ \A d \in Due[c] : d < Never
  <2>1. /\ Due[c] \subseteq Minutes /\ \A d \in Due[c] : d < Never
        /\ Never \in Minutes /\ MaxTime + 1 < Never
    BY Constants
  <2>2. Due[c] \subseteq Nat /\ Never \in Nat
    BY <2>1, MinutesAreNat
  <2> QED
    BY <1>1, <2>1, <2>2
<1>3. S \in SUBSET Nat /\ S # {}
  BY <1>2
<1>4. \E t \in S : \A u \in S : t <= u
  BY <1>3, Earliest
<1>5. PICK t \in Due[c] \cup {Never} : t > now /\ \A u \in Due[c] : u > now => t <= u
  BY <1>1, <1>2, <1>4
<1>6. NextTime(c) \in Due[c] \cup {Never} /\ NextTime(c) > now
      /\ \A u \in Due[c] : u > now => NextTime(c) <= u
  BY <1>5 DEF NextTime
<1> HIDE DEF S
<1>7. NextTime(c) \in Minutes
  BY <1>6, Constants
<1> QED
  BY <1>1, <1>2, <1>6, <1>7, MinutesAreNat

LEMMA TypesStep ==
  ASSUME TypeOK, [Next]_vars
  PROVE  TypeOK'
<1> USE DEF TypeOK
<1>0. MaxTime \in Nat /\ MaxChanges \in Nat /\ MaxFaults \in Nat /\ Minutes \subseteq Nat /\ Never \in Minutes
  BY Constants, MinutesAreNat
<1>1. ASSUME Fault PROVE faults' \in 0..MaxFaults
  BY <1>0, <1>1 DEF Fault, CountTypes
<1>2. Overdue \subseteq Name \X Nat
  <2> SUFFICES ASSUME NEW e \in Overdue PROVE e \in Name \X Nat
    OBVIOUS
  <2>1. PICK n \in Name : e = <<n, items[n]>>
    BY DEF Overdue
  <2> QED
    BY <1>0, <2>1 DEF TableTypes
<1>3. CASE Load
  <2>1. ClockTypes' /\ TableTypes'
    BY <1>0, <1>3 DEF Load, tableVars, ClockTypes, TableTypes
  <2>2. CountTypes'
    BY <1>1, <1>3 DEF Load, tableVars, CountTypes
  <2> QED
    BY <1>3, <2>1, <2>2 DEF Load, OtherTypes
<1>4. CASE Plan
  <2>1. items' \in [Name -> Minutes]
    BY <1>4, NextTimeIsNext, <1>0 DEF Plan, TableTypes, Tables
  <2>2. ClockTypes' /\ TableTypes'
    BY <1>4, <2>1 DEF Plan, tableVars, ClockTypes, TableTypes
  <2> QED
    BY <1>4, <2>2 DEF Plan, tableVars, ghosts, CountTypes, OtherTypes
<1>5. CASE WakeReload
  BY <1>2, <1>5 DEF WakeReload, tableVars, ClockTypes, TableTypes, CountTypes, OtherTypes
<1>6. CASE WakeHour
  BY <1>2, <1>6 DEF WakeHour, tableVars, ClockTypes, TableTypes, CountTypes, OtherTypes
<1>7. CASE WakeTimer
  BY <1>7 DEF WakeTimer, tableVars, ghosts, ClockTypes, TableTypes, CountTypes, OtherTypes
<1>8. ASSUME NEW n \in Name, Trigger(n) PROVE TypeOK'
  <2>1. <<n, items[n]>> \in Name \X Nat
    BY <1>0 DEF TableTypes
  <2>2. CountTypes'
    BY <1>1, <1>8 DEF Trigger, tableVars, CountTypes
  <2>3. OtherTypes'
    BY <1>8, <2>1 DEF Trigger, OtherTypes
  <2> QED
    BY <1>8, <2>2, <2>3 DEF Trigger, tableVars, ClockTypes, TableTypes
<1>9. CASE Triggered \/ Stop
  BY <1>9 DEF Triggered, Stop, tableVars, ghosts, ClockTypes, TableTypes, CountTypes, OtherTypes
<1>10. ASSUME NEW n \in Name, NEW c \in Cron \cup {"off"}, Write(n, c) \/ WriteUntold(n, c) PROVE TypeOK'
  <2>1. TableTypes'
    BY <1>10 DEF Write, WriteUntold, loopVars, TableTypes, Tables
  <2>2. CountTypes'
    BY <1>0, <1>1, <1>10 DEF Write, WriteUntold, CountTypes
  <2>3. ClockTypes'
    BY <1>10 DEF Write, WriteUntold, loopVars, ClockTypes
  <2> QED
    BY <1>10, <2>1, <2>2, <2>3 DEF Write, WriteUntold, loopVars, ghosts, OtherTypes
<1>11. ASSUME NEW n \in Name, JobEnds(n) PROVE TypeOK'
  BY <1>11 DEF JobEnds, tableVars, loopVars, ghosts, ClockTypes, TableTypes, CountTypes, OtherTypes
<1>12. CASE Tick
  <2>1. now' \in 0..MaxTime /\ now < now'
    BY <1>0, <1>12 DEF Tick, ClockTypes
  <2>2. ClockTypes'
    BY <1>0, <1>12, <2>1 DEF Tick, loopVars, ClockTypes
  <2>3. {<<n, now + 1>> : n \in {m \in On(loaded) : now + 1 \in Due[loaded[m]]}} \subseteq Name \X Nat
    BY <1>0 DEF On, ClockTypes
  <2>4. excused' \subseteq Name \X Nat
    BY <1>2, <1>12, <2>3 DEF Tick, OtherTypes
  <2> QED
    BY <1>12, <2>2, <2>4 DEF Tick, tableVars, loopVars, Armed, TableTypes, CountTypes, OtherTypes
<1>13. CASE UNCHANGED vars
  BY <1>13 DEF vars, tableVars, loopVars, ghosts, ClockTypes, TableTypes, CountTypes, OtherTypes
<1> QED
  BY <1>3, <1>4, <1>5, <1>6, <1>7, <1>8, <1>9, <1>10, <1>11, <1>12, <1>13 DEF Next

LEMMA InitTypes == Init => TypeOK
<1> SUFFICES ASSUME Init PROVE TypeOK
  OBVIOUS
<1>1. ClockTypes /\ CountTypes
  BY Constants DEF Init, ClockTypes, CountTypes
<1>2. items \in [Name -> Minutes]
  BY Constants DEF Init
<1>3. TableTypes /\ OtherTypes
  BY <1>2 DEF Init, Tables, TableTypes, OtherTypes
<1> QED
  BY <1>1, <1>3 DEF TypeOK

-----------------------------------------------------------------------------
(* Every time is served *)

LEMMA Numbers ==
  ASSUME TypeOK
  PROVE  /\ now \in Nat /\ since \in Nat /\ lastLoad \in Nat /\ since <= now
         /\ \A n \in Name : items[n] \in Minutes /\ items[n] \in Nat
<1>1. now \in Nat /\ since \in Nat /\ lastLoad \in Nat /\ since <= now
  BY Constants DEF TypeOK, ClockTypes
<1>2. ASSUME NEW n \in Name PROVE items[n] \in Minutes
  BY DEF TypeOK, TableTypes
<1> QED
  BY <1>1, <1>2, MinutesAreNat

LEMMA DueTimes ==
  ASSUME TypeOK, NEW n \in On(loaded)
  PROVE  n \in Name /\ loaded[n] \in Cron /\ Due[loaded[n]] \subseteq Nat
<1>1. n \in Name /\ loaded[n] \in Cron
  BY DEF On, TypeOK, TableTypes, Tables
<1>2. Due[loaded[n]] \subseteq Minutes
  BY <1>1, Constants
<1> QED
  BY <1>1, <1>2, MinutesAreNat

\* What a wait leaves behind when it ends: the items that have passed are excused.
LEMMA WakingServes ==
  ASSUME TypeOK, Served, pc = "wait", excused' = excused \cup Overdue,
         UNCHANGED <<now, loaded, lastLoad, done>>
  PROVE  \A n \in On(loaded) : \A d \in Due[loaded[n]] :
           lastLoad < d /\ d <= now => Handled(n, d)'
<1> SUFFICES ASSUME NEW n \in On(loaded), NEW d \in Due[loaded[n]], lastLoad < d, d <= now
             PROVE  Handled(n, d)'
  OBVIOUS
<1>1. CASE Handled(n, d)
  BY <1>1 DEF Handled
<1>2. CASE Pending(n, d)
  BY <1>2, DueTimes DEF Pending, Overdue, Handled
<1> QED
  BY <1>1, <1>2 DEF Served

LEMMA ServedStep ==
  ASSUME TypeOK, Served, ItemsAreNext, [Next]_vars
  PROVE  Served'
<1>1. CASE Load
  <2>1. CASE lastLoad' = now
    <3> SUFFICES ASSUME NEW n \in On(loaded'), NEW d \in Due[loaded'[n]], now < d, d <= now PROVE FALSE
      BY <1>1, <2>1 DEF Load, Served
    <3>1. n \in Name /\ loaded'[n] \in Cron
      BY TypesStep DEF On, TypeOK, TableTypes, Tables
    <3>2. d \in Minutes
      BY <3>1, Constants
    <3> QED
      BY <3>2, MinutesAreNat, Numbers
  <2>2. CASE UNCHANGED <<loaded, lastLoad>>
    BY <1>1, <2>2 DEF Load, Served, Handled, Pending
  <2> QED
    BY <1>1, <2>1, <2>2 DEF Load
<1>2. CASE Plan
  BY <1>2 DEF Plan, ghosts, Served, Handled, Pending
<1>3. CASE WakeReload \/ WakeHour
  BY <1>3, WakingServes DEF WakeReload, WakeHour, Served
<1>4. CASE WakeTimer
  <2> SUFFICES ASSUME NEW n \in On(loaded), NEW d \in Due[loaded[n]], lastLoad < d, d <= now,
                      ~Handled(n, d)
               PROVE  Pending(n, d)'
    BY <1>4 DEF WakeTimer, ghosts, Served, Handled
  <2>1. d = items[n] /\ n \in Name /\ d \in Nat /\ now \in Nat
    BY <1>4, DueTimes DEF WakeTimer, Armed, Served, Pending, TypeOK, ClockTypes
  <2>2. ~(d < now)
    BY <1>4, <2>1 DEF WakeTimer, Armed, ItemsAreNext, Handled
  <2> QED
    BY <1>4, <2>1, <2>2 DEF WakeTimer, Pending
<1>5. ASSUME NEW n \in Name, Trigger(n) PROVE Served'
  BY <1>5 DEF Trigger, Served, Handled, Pending
<1>6. CASE Triggered
  BY <1>6 DEF Triggered, ghosts, Served, Handled, Pending
<1>7. CASE Stop
  BY <1>7 DEF Stop, Served
<1>8. ASSUME NEW n \in Name, NEW c \in Cron \cup {"off"}, Write(n, c) \/ WriteUntold(n, c) PROVE Served'
  BY <1>8 DEF Write, WriteUntold, loopVars, ghosts, Served, Handled, Pending
<1>9. ASSUME NEW n \in Name, JobEnds(n) PROVE Served'
  BY <1>9 DEF JobEnds, loopVars, ghosts, Served, Handled, Pending
<1>10. CASE Tick
  <2> SUFFICES ASSUME pc # "exit", NEW n \in On(loaded), NEW d \in Due[loaded[n]],
                      lastLoad < d, d <= now', ~Handled(n, d)', ~Pending(n, d)
               PROVE  FALSE
    BY <1>10 DEF Tick, loopVars, ghosts, Served, Pending
  <2>1. now' = now + 1 /\ now \in Nat /\ d \in Nat /\ n \in Name /\ since <= now
    BY <1>10, DueTimes DEF Tick, TypeOK, ClockTypes
  <2>2. ~Handled(n, d)
    BY <1>10 DEF Tick, Handled
  <2>3. d = now + 1
    BY <2>1, <2>2 DEF Served
  <2>4. ~Armed /\ pc = "wait"
    BY <1>10, <2>1, <2>3 DEF Tick, Handled
  <2>5. now < items[n] /\ d # items[n] /\ items[n] \in Nat
    BY <2>1, <2>4, Numbers DEF Armed, Pending
  <2>6. d < items[n] => d <= since
    BY <2>1, <2>4 DEF ItemsAreNext
  <2> QED
    BY <2>1, <2>3, <2>5, <2>6, Numbers
<1>11. CASE UNCHANGED vars
  BY <1>11 DEF vars, loopVars, ghosts, Served, Handled, Pending
<1> QED
  BY <1>1, <1>2, <1>3, <1>4, <1>5, <1>6, <1>7, <1>8, <1>9, <1>10, <1>11 DEF Next

LEMMA ItemsStep ==
  ASSUME TypeOK, ItemsAreNext, [Next]_vars
  PROVE  ItemsAreNext'
<1>1. CASE Plan
  <2> SUFFICES ASSUME NEW n \in Name
               PROVE  /\ now < items'[n]
                      /\ n \in On(loaded) => \A d \in Due[loaded[n]] : d < items'[n] => d <= now
                      /\ ~(items'[n] < now)
    BY <1>1 DEF Plan, ItemsAreNext
  <2>1. now \in Nat /\ now < Never /\ Never \in Nat
    BY Constants, MinutesAreNat DEF TypeOK, ClockTypes
  <2>2. CASE loaded[n] = "off"
    BY <1>1, <2>1, <2>2 DEF Plan, On
  <2>3. CASE loaded[n] # "off"
    <3>1. loaded[n] \in Cron /\ items'[n] = NextTime(loaded[n])
      BY <1>1, <2>3 DEF Plan, TypeOK, TableTypes, Tables
    <3>2. NextTime(loaded[n]) \in Nat
      BY <3>1, NextTimeIsNext, MinutesAreNat
    <3> QED
      BY <2>1, <3>1, <3>2, NextTimeIsNext
  <2> QED
    BY <2>2, <2>3
<1>2. CASE Load \/ WakeReload \/ WakeHour \/ WakeTimer \/ Triggered \/ Stop \/ \E n \in Name : Trigger(n)
  BY <1>2 DEF Load, WakeReload, WakeHour, WakeTimer, Triggered, Stop, Trigger, ItemsAreNext
<1>3. ASSUME NEW n \in Name, NEW c \in Cron \cup {"off"}, Write(n, c) \/ WriteUntold(n, c)
      PROVE  ItemsAreNext'
  BY <1>3 DEF Write, WriteUntold, loopVars, ghosts, ItemsAreNext
<1>4. ASSUME NEW n \in Name, JobEnds(n) PROVE ItemsAreNext'
  BY <1>4 DEF JobEnds, loopVars, ghosts, ItemsAreNext
<1>5. CASE Tick
  <2> SUFFICES ASSUME pc = "wait", NEW n \in Name, items[n] < now' PROVE <<n, items[n]>> \in excused'
    BY <1>5 DEF Tick, loopVars, ItemsAreNext
  <2>1. items[n] <= now
    BY <1>5, Numbers DEF Tick
  <2> QED
    BY <1>5, <2>1 DEF Tick, Armed, Overdue
<1>6. CASE UNCHANGED vars
  BY <1>6 DEF vars, loopVars, ghosts, ItemsAreNext
<1> QED
  BY <1>1, <1>2, <1>3, <1>4, <1>5, <1>6 DEF Next

LEMMA OnceStep ==
  ASSUME TypeOK, ItemsAreNext, OnceOnly, [Next]_vars
  PROVE  OnceOnly'
<1>1. CASE Plan
  <2>1. now \in Nat /\ \A n \in Name : now <= items'[n]
    <3>1. TypeOK' /\ ItemsAreNext' /\ pc' = "wait" /\ since' = now
      BY <1>1, TypesStep, ItemsStep DEF Plan
    <3>2. ASSUME NEW n \in Name PROVE now <= items'[n]
      <4>1. now < items'[n] /\ items'[n] \in Nat
        BY <3>1, MinutesAreNat DEF ItemsAreNext, TypeOK, TableTypes
      <4> QED
        BY <4>1, Numbers
    <3> QED
      BY <3>2, Numbers
  <2> QED
    BY <1>1, <2>1 DEF Plan, ghosts, OnceOnly
<1>2. CASE Load \/ WakeReload \/ WakeHour \/ Triggered \/ Stop
  BY <1>2 DEF Load, WakeReload, WakeHour, Triggered, Stop, ghosts, OnceOnly
<1>3. CASE WakeTimer
  <2> SUFFICES ASSUME ~late, NEW n \in Name, items[n] \in {now, now + 1}
               PROVE  items[n] <= now /\ <<n, items[n]>> \notin done
    BY <1>3 DEF WakeTimer, Armed, ghosts, OnceOnly
  <2>1. pc = "wait" /\ now \in Nat /\ since \in Nat
    BY <1>3 DEF WakeTimer, Armed, TypeOK, ClockTypes
  <2>2. PICK m \in Name : items[m] = now
    BY <1>3, <2>1, Numbers DEF WakeTimer, Armed, OnceOnly
  <2>3. items[n] # now + 1
    <3>1. items[n] \in Minutes /\ items[m] \in Minutes
      BY DEF TypeOK, TableTypes
    <3>2. PICK j \in Nat, k \in Nat : items[n] = 2 * j /\ items[m] = 2 * k
      BY <3>1 DEF Minutes
    <3> QED
      BY <2>2, <3>2
  <2>4. items[n] = now /\ since < items[n]
    BY <2>1, <2>3 DEF ItemsAreNext
  <2> QED
    BY <2>1, <2>4 DEF OnceOnly
<1>4. ASSUME NEW n \in Name, Trigger(n) PROVE OnceOnly'
  <2> SUFFICES ASSUME ~late PROVE OnceOnly'
    BY <1>4 DEF Trigger, OnceOnly
  <2>1. items[n] <= now /\ <<n, items[n]>> \notin done
    BY <1>4 DEF Trigger, OnceOnly
  <2> QED
    BY <1>4, <2>1 DEF Trigger, OnceOnly
<1>5. ASSUME NEW n \in Name, NEW c \in Cron \cup {"off"}, Write(n, c) \/ WriteUntold(n, c)
      PROVE  OnceOnly'
  BY <1>5 DEF Write, WriteUntold, loopVars, ghosts, OnceOnly
<1>6. ASSUME NEW n \in Name, JobEnds(n) PROVE OnceOnly'
  BY <1>6 DEF JobEnds, loopVars, ghosts, OnceOnly
<1>7. CASE Tick
  <2> SUFFICES ASSUME ~late, ~Armed PROVE OnceOnly'
    BY <1>7 DEF Tick, OnceOnly
  <2>1. now \in Nat /\ since \in Nat /\ now' = now + 1 /\ \A n \in Name : items[n] \in Nat
    BY <1>7, Numbers DEF Tick
  <2> QED
    BY <1>7, <2>1 DEF Tick, loopVars, Armed, OnceOnly, TypeOK, OtherTypes
<1>8. CASE UNCHANGED vars
  BY <1>8 DEF vars, loopVars, ghosts, OnceOnly
<1> QED
  BY <1>1, <1>2, <1>3, <1>4, <1>5, <1>6, <1>7, <1>8 DEF Next

-----------------------------------------------------------------------------
(* Theorems *)

\* Type correctness: the clock, the table and the copy of it the loop works with, the
\* items of a sleep and what has been triggered, whatever fails or changes.
THEOREM SchedulerTypes == Spec => []TypeOK
BY InitTypes, TypesStep, PTL DEF Spec

\* Once the loop of Scheduler.run has planned past a time of a schedule it had loaded
\* before, that time has been triggered, unless the loop was busy with something else
\* or overslept; and only an overslept loop triggers a time twice.
THEOREM TimesAreServedOnce == Spec => []DueTriggeredOnce
<1>1. Init => TypeOK /\ Served /\ ItemsAreNext /\ OnceOnly
  <2> SUFFICES ASSUME Init PROVE Served /\ ItemsAreNext /\ OnceOnly
    BY InitTypes
  <2> QED
    BY DEF Init, Served, On, ItemsAreNext, OnceOnly
<1>2. TypeOK /\ Served /\ ItemsAreNext /\ OnceOnly /\ [Next]_vars
      => (TypeOK /\ Served /\ ItemsAreNext /\ OnceOnly)'
  BY TypesStep, ServedStep, ItemsStep, OnceStep
<1>3. TypeOK /\ Served /\ ItemsAreNext /\ OnceOnly => DueTriggeredOnce
  <2> SUFFICES ASSUME TypeOK, Served, ItemsAreNext, OnceOnly PROVE DueTriggeredOnce
    OBVIOUS
  <2>1. ASSUME pc = "wait", NEW n \in On(loaded), NEW d \in Due[loaded[n]], lastLoad < d, d < items[n]
        PROVE  <<n, d>> \in done \cup excused
    <3>1. d \in Nat /\ n \in Name
      BY <2>1, DueTimes
    <3>2. d <= since
      BY <2>1, <3>1 DEF ItemsAreNext
    <3>3. d <= now /\ d # items[n]
      BY <2>1, <3>1, <3>2, Numbers
    <3> QED
      BY <2>1, <3>3 DEF Served, Handled, Pending
  <2> QED
    BY <2>1 DEF DueTriggeredOnce, OnceOnly
<1> QED
  BY <1>1, <1>2, <1>3, PTL DEF Spec

\* A change of jobs_schedule is never forgotten: until the loop has loaded it a signal
\* waits, or the table is about to be read, but for changes by hand and failed queries.
\* The signal that upsertSchedule drops when one waits already is not missed.
THEOREM ChangesAreSignalled == Spec => []NoChangeForgotten
<1>1. Init => NoChangeForgotten
  BY DEF Init, NoChangeForgotten
<1>2. NoChangeForgotten /\ [Next]_vars => NoChangeForgotten'
  <2> SUFFICES ASSUME NoChangeForgotten, [Next]_vars PROVE NoChangeForgotten'
    OBVIOUS
  <2>1. CASE Load \/ WakeReload
    BY <2>1 DEF Load, WakeReload, tableVars, NoChangeForgotten
  <2>2. CASE Plan \/ WakeHour \/ WakeTimer \/ Triggered \/ Stop \/ Tick
    BY <2>2 DEF Plan, WakeHour, WakeTimer, Triggered, Stop, Tick, tableVars, loopVars, ghosts,
                Armed, NoChangeForgotten
  <2>3. ASSUME NEW n \in Name, Trigger(n) \/ JobEnds(n) PROVE NoChangeForgotten'
    BY <2>3 DEF Trigger, JobEnds, tableVars, loopVars, ghosts, NoChangeForgotten
  <2>4. ASSUME NEW n \in Name, NEW c \in Cron \cup {"off"}, Write(n, c) \/ WriteUntold(n, c)
        PROVE  NoChangeForgotten'
    BY <2>4 DEF Write, WriteUntold, loopVars, ghosts, NoChangeForgotten
  <2>5. CASE UNCHANGED vars
    BY <2>5 DEF vars, tableVars, loopVars, ghosts, NoChangeForgotten
  <2> QED
    BY <2>1, <2>2, <2>3, <2>4, <2>5 DEF Next
<1> QED
  BY <1>1, <1>2, PTL DEF Spec
=============================================================================
