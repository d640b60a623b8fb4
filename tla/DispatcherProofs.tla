--------------------------- MODULE DispatcherProofs ---------------------------
(***************************************************************************)
(* Proofs about Dispatcher, for every handler table, number of rows,        *)
(* enqueuing goroutine, crash and failing statement.                        *)
(***************************************************************************)
EXTENDS Dispatcher, FiniteSetTheorems, SequenceTheorems, TLAPS

IInv == TypeOK /\ RowsAndLoopAgree

LEMMA Constants ==
  /\ TopId \cap SubId = {} /\ 0 \notin TopId /\ 0 \notin SubId
  /\ TopId \subseteq Nat /\ SubId \subseteq Nat
  /\ JobId = TopId \cup SubId
  /\ HandlerOrder \in Seq(Type) /\ Len(HandlerOrder) \in Nat
  /\ MaxTop \in Nat \ {0} /\ MaxSub \in Nat
  /\ MaxCrashes \in Nat /\ MaxFaults \in Nat
  /\ FlushSize \in Nat \ {0}
BY BoundsAssumption, TypesAssumption DEF TopId, SubId, JobId

\* What JobMarkDone writes: the row, its children, and nothing else.
LEMMA MarkDoneEffect ==
  ASSUME TypeOK, NEW j \in JobId
  PROVE  /\ JobMarkDone(j) \in [JobId -> {"absent"} \cup NonTerminal \cup Terminal]
         /\ JobMarkDone(j)[j] = "done"
         /\ \A i \in TopId : i # j => JobMarkDone(j)[i] = status[i]
         /\ \A s \in SubId : s # j /\ parent[s] = j => JobMarkDone(j)[s] = "absent"
         /\ \A s \in SubId : s # j /\ parent[s] # j => JobMarkDone(j)[s] = status[s]
         /\ \A s \in SubId : s # j /\ status[s] = "absent" => JobMarkDone(j)[s] = "absent"
BY Constants DEF TypeOK, JobMarkDone, Children, Terminal, NonTerminal

\* A claim takes queued children of the parent.
LEMMA ClaimableAreChildren ==
  ASSUME NEW p
  PROVE  /\ Claimable(p) \subseteq Children(p)
         /\ \A s \in Claimable(p) : status[s] = "queued"
         /\ Claimable(p) \subseteq SubId
BY DEF Claimable, Children

\* loadFromDB appends rows that are in the table, each one once.
LEMMA IdOrderIsSeq ==
  ASSUME NEW S \in SUBSET TopId, NEW q \in InIdOrder(S)
  PROVE  q \in Seq(S)
<1>1. IsFiniteSet(TopId)
  BY FS_Interval, BoundsAssumption DEF TopId
<1>2. IsFiniteSet(S)
  BY <1>1, FS_Subset
<1>3. Cardinality(S) \in Nat
  BY <1>2, FS_CardinalityType
<1>4. q \in [1..Cardinality(S) -> S]
  BY DEF InIdOrder
<1> QED
  BY <1>3, <1>4

\* Taking an entry out of the queue leaves entries of the queue.
LEMMA RemoveAtKeeps ==
  ASSUME NEW S, NEW q \in Seq(S), NEW i \in DOMAIN q
  PROVE  /\ RemoveAt(q, i) \in Seq(S)
         /\ \A k \in DOMAIN RemoveAt(q, i) : \E m \in DOMAIN q : RemoveAt(q, i)[k] = q[m]
<1> DEFINE a == SubSeq(q, 1, i-1)
           b == SubSeq(q, i+1, Len(q))
<1>0. Len(q) \in Nat /\ DOMAIN q = 1..Len(q) /\ i \in 1..Len(q)
      /\ \A k \in 1..Len(q) : q[k] \in S
  BY LenProperties
<1>1. /\ a \in Seq(S) /\ Len(a) = i-1
      /\ \A k \in 1..(i-1) : a[k] = q[k]
  <2>1. \A k \in 1..(i-1) : q[k] \in S
    BY <1>0
  <2>2. /\ SubSeq(q, 1, i-1) \in Seq(S)
        /\ Len(SubSeq(q, 1, i-1)) = IF 1 <= i-1 THEN (i-1)-1+1 ELSE 0
        /\ \A k \in 1..((i-1)-1+1) : SubSeq(q, 1, i-1)[k] = q[1+k-1]
    BY <1>0, <2>1, SubSeqProperties
  <2> QED BY <1>0, <2>2
<1>2. /\ b \in Seq(S) /\ Len(b) = Len(q)-i
      /\ \A k \in 1..(Len(q)-i) : b[k] = q[i+k]
  <2>1. \A k \in (i+1)..Len(q) : q[k] \in S
    BY <1>0
  <2>2. /\ SubSeq(q, i+1, Len(q)) \in Seq(S)
        /\ Len(SubSeq(q, i+1, Len(q))) = IF i+1 <= Len(q) THEN Len(q)-(i+1)+1 ELSE 0
        /\ \A k \in 1..(Len(q)-(i+1)+1) : SubSeq(q, i+1, Len(q))[k] = q[(i+1)+k-1]
    BY <1>0, <2>1, SubSeqProperties
  <2>3. Len(b) = Len(q)-i
    BY <1>0, <2>2
  <2>4. ASSUME NEW k \in 1..(Len(q)-i) PROVE b[k] = q[i+k]
    <3>1. k \in 1..(Len(q)-(i+1)+1) /\ (i+1)+k-1 = i+k
      BY <1>0
    <3>2. b[k] = q[(i+1)+k-1]
      BY <2>2, <3>1
    <3> QED
      BY <3>1, <3>2
  <2> QED BY <2>2, <2>3, <2>4
<1>3. /\ a \o b \in Seq(S)
      /\ Len(a \o b) = Len(a) + Len(b)
      /\ \A k \in 1..(Len(a) + Len(b)) : (a \o b)[k] = IF k <= Len(a) THEN a[k] ELSE b[k - Len(a)]
  BY <1>1, <1>2, ConcatProperties
<1>4. RemoveAt(q, i) = a \o b
  BY DEF RemoveAt
<1>5. DOMAIN (a \o b) = 1..(Len(q)-1)
  BY <1>0, <1>1, <1>2, <1>3, LenProperties
<1>6. ASSUME NEW k \in 1..(Len(q)-1)
      PROVE  \E m \in DOMAIN q : (a \o b)[k] = q[m]
  <2>1. CASE k <= i-1
    <3>1. k \in 1..(Len(a) + Len(b)) /\ k <= Len(a) /\ k \in 1..(i-1) /\ k \in DOMAIN q
      BY <1>0, <1>1, <1>2, <2>1
    <3>2. (a \o b)[k] = a[k]
      BY <1>3, <3>1
    <3>3. a[k] = q[k]
      BY <1>1, <3>1
    <3> QED
      BY <3>1, <3>2, <3>3
  <2>2. CASE ~(k <= i-1)
    <3>1. k - (i-1) \in 1..(Len(q)-i)
      BY <1>0, <2>2
    <3>2. (a \o b)[k] = b[k - (i-1)]
      <4>1. Len(a) = i-1 /\ Len(b) = Len(q)-i
        BY <1>1, <1>2
      <4>2. k \in 1..(Len(a) + Len(b)) /\ ~(k <= Len(a))
        BY <1>0, <2>2, <4>1
      <4>3. (a \o b)[k] = b[k - Len(a)]
        BY <1>3, <4>2
      <4> QED
        BY <4>1, <4>3
    <3>3. (a \o b)[k] = q[i + (k - (i-1))]
      BY <1>2, <3>1, <3>2
    <3>4. i + (k - (i-1)) \in DOMAIN q
      BY <1>0, <3>1
    <3> QED BY <3>3, <3>4
  <2> QED BY <2>1, <2>2
<1> QED
  BY <1>3, <1>4, <1>5, <1>6

\* A statement spends at most the failures that are left.
LEMMA SpendBound ==
  ASSUME TypeOK, NEW o \in Outcomes, Spend(o)
  PROVE  faults' \in 0..MaxFaults
BY BoundsAssumption DEF TypeOK, Outcomes, Spend

\* Idle and Goto give the goroutine's variables values of their types.
LEMMA IdleType ==
  ASSUME Idle
  PROVE  /\ pc' = "idle" /\ cur' = 0 /\ batch' = {} /\ flushed' = FALSE
         /\ buf' \in Seq(Type)
BY EmptySeq DEF Idle

\* wakeCh only moves the goroutine.
LEMMA WakeUpInv ==
  ASSUME IInv, WakeUp
  PROVE  IInv'
<1> USE DEF IInv, RowsAndLoopAgree
<1>1. TypeOK'
  BY DEF WakeUp, Goto, TypeOK, LoopState, vars, table, identity, memory, loop, clients, NonTerminal, Terminal
<1>2. RowsBorn'
  BY DEF WakeUp, Goto, TypeOK, RowsBorn, LoopState, JobId, vars, table, identity, memory, loop, clients
<1>3. HeldBorn'
  BY DEF WakeUp, Goto, TypeOK, HeldBorn, LoopState, JobId, vars, table, identity, memory, loop, clients
<1>4. LoopState'
  BY DEF WakeUp, Goto, TypeOK, LoopState, Children, JobId, vars, table, identity, memory, loop, clients
<1>5. DoneHasNoChildren'
  BY DEF WakeUp, Goto, TypeOK, LoopState, DoneHasNoChildren, Children, JobId, vars, table, identity, memory, loop, clients
<1> QED
  BY <1>1, <1>2, <1>3, <1>4, <1>5

\* So does the ticker.
LEMMA PollTickInv ==
  ASSUME IInv, PollTick
  PROVE  IInv'
<1> USE DEF IInv, RowsAndLoopAgree
<1>1. TypeOK'
  BY DEF PollTick, Goto, TypeOK, LoopState, vars, table, identity, memory, loop, clients, NonTerminal, Terminal
<1>2. RowsBorn'
  BY DEF PollTick, Goto, TypeOK, RowsBorn, LoopState, JobId, vars, table, identity, memory, loop, clients
<1>3. HeldBorn'
  BY DEF PollTick, Goto, TypeOK, HeldBorn, LoopState, JobId, vars, table, identity, memory, loop, clients
<1>4. LoopState'
  BY DEF PollTick, Goto, TypeOK, LoopState, Children, JobId, vars, table, identity, memory, loop, clients
<1>5. DoneHasNoChildren'
  BY DEF PollTick, Goto, TypeOK, LoopState, DoneHasNoChildren, Children, JobId, vars, table, identity, memory, loop, clients
<1> QED
  BY <1>1, <1>2, <1>3, <1>4, <1>5

\* A running_sub_jobs row is taken up again without a write.
LEMMA ResumeSubJobsInv ==
  ASSUME IInv, ResumeSubJobs
  PROVE  IInv'
<1> USE DEF IInv, RowsAndLoopAgree
<1>1. TypeOK'
  BY IdleType DEF ResumeSubJobs, Goto, TypeOK, LoopState, vars, table, identity, memory, loop, clients, NonTerminal, Terminal
<1>2. RowsBorn'
  BY IdleType DEF ResumeSubJobs, Goto, TypeOK, RowsBorn, LoopState, JobId, vars, table, identity, memory, loop, clients
<1>3. HeldBorn'
  BY IdleType DEF ResumeSubJobs, Goto, TypeOK, HeldBorn, LoopState, JobId, vars, table, identity, memory, loop, clients
<1>4. LoopState'
  BY IdleType DEF ResumeSubJobs, Goto, TypeOK, LoopState, Children, JobId, vars, table, identity, memory, loop, clients
<1>5. DoneHasNoChildren'
  BY IdleType DEF ResumeSubJobs, Goto, TypeOK, LoopState, DoneHasNoChildren, Children, JobId, vars, table, identity, memory, loop, clients
<1> QED
  BY <1>1, <1>2, <1>3, <1>4, <1>5

\* JobMarkFailed of a queued row.
LEMMA RejectUnknownInv ==
  ASSUME NEW o \in Outcomes, IInv, RejectUnknown(o)
  PROVE  IInv'
<1> USE DEF IInv, RowsAndLoopAgree
<1>1. TypeOK'
  BY SpendBound, IdleType DEF RejectUnknown, Write, JobMarkFailed, TypeOK, LoopState, vars, table, identity, memory, loop, clients, NonTerminal, Terminal
<1>2. RowsBorn'
  BY IdleType DEF RejectUnknown, Write, JobMarkFailed, TypeOK, RowsBorn, LoopState, JobId, vars, table, identity, memory, loop, clients
<1>3. HeldBorn'
  BY IdleType DEF RejectUnknown, Write, JobMarkFailed, TypeOK, HeldBorn, LoopState, JobId, vars, table, identity, memory, loop, clients
<1>4. LoopState'
  BY IdleType DEF RejectUnknown, Write, JobMarkFailed, TypeOK, LoopState, Children, JobId, vars, table, identity, memory, loop, clients
<1>5. DoneHasNoChildren'
  BY IdleType DEF RejectUnknown, Write, JobMarkFailed, TypeOK, LoopState, DoneHasNoChildren, Children, JobId, vars, table, identity, memory, loop, clients
<1> QED
  BY <1>1, <1>2, <1>3, <1>4, <1>5

\* The handler runs only when JobMarkRunning was answered.
LEMMA StartJobInv ==
  ASSUME NEW o \in Outcomes, IInv, StartJob(o)
  PROVE  IInv'
<1> USE DEF IInv, RowsAndLoopAgree
<1>1. CASE Answered(o)
  <2>1. /\ pc' = "handler" /\ UNCHANGED <<cur, buf, flushed, batch>>
        /\ status' = [status EXCEPT ![cur] = "running"]
    BY <1>1 DEF StartJob, Goto, Answered, Committed, Write, JobMarkRunning
  <2>2. cur \in TopId /\ status[cur] # "absent"
    BY DEF StartJob, TypeOK, LoopState
  <2>3. pausedStarts' \in Nat
    BY DEF StartJob, TypeOK
  <2>4. UNCHANGED <<identity, memory, clients, crashes>>
    BY DEF StartJob
  <2>5. faults' \in 0..MaxFaults
    BY SpendBound DEF StartJob
  <2> HIDE DEF IInv, RowsAndLoopAgree
  <2>6. TypeOK'
    BY <2>1, <2>2, <2>3, <2>4, <2>5
    DEF IInv, TypeOK, identity, memory, clients, NonTerminal
  <2>7. (RowsBorn /\ HeldBorn)'
    BY <2>1, <2>2, <2>4, LenProperties
    DEF IInv, RowsAndLoopAgree, TypeOK, RowsBorn, HeldBorn, JobId, identity, memory, clients
  <2>8. LoopState'
    BY <2>1, <2>2, <2>4, StartJob(o)
    DEF IInv, RowsAndLoopAgree, StartJob, TypeOK, LoopState, Children, JobId, identity
  <2>9. DoneHasNoChildren'
    BY <2>1, <2>2, <2>4
    DEF IInv, RowsAndLoopAgree, TypeOK, DoneHasNoChildren, Children, JobId, identity
  <2> QED
    BY <2>6, <2>7, <2>8, <2>9 DEF IInv, RowsAndLoopAgree
<1>2. CASE ~Answered(o)
  <2>0. pausedStarts' \in Nat /\ cur \in TopId
    BY DEF StartJob, TypeOK, LoopState
  <2>1. TypeOK'
    BY <1>2, <2>0, SpendBound, IdleType
    DEF StartJob, JobId, Write, JobMarkRunning, TypeOK, LoopState, NonTerminal, identity, memory, clients
  <2>2. (RowsBorn /\ HeldBorn)'
    BY <1>2, IdleType
    DEF StartJob, Write, JobMarkRunning, TypeOK, RowsBorn, HeldBorn, JobId, identity, memory, clients
  <2>3. LoopState'
    BY <1>2, IdleType
    DEF StartJob, Write, JobMarkRunning, TypeOK, LoopState, Children, JobId, identity
  <2>4. DoneHasNoChildren'
    BY <1>2, IdleType
    DEF StartJob, Write, JobMarkRunning, TypeOK, LoopState, DoneHasNoChildren, Children, JobId, identity
  <2> QED
    BY <2>1, <2>2, <2>3, <2>4
<1> QED
  BY <1>1, <1>2

\* A failed handler leaves no position behind.
LEMMA HandlerFailsInv ==
  ASSUME NEW o \in Outcomes, IInv, HandlerFails(o)
  PROVE  IInv'
<1> USE DEF IInv, RowsAndLoopAgree
<1>1. TypeOK'
  BY SpendBound, IdleType DEF HandlerFails, Write, JobMarkFailed, TypeOK, LoopState, vars, table, identity, memory, loop, clients, NonTerminal, Terminal
<1>2. RowsBorn'
  BY IdleType DEF HandlerFails, Write, JobMarkFailed, TypeOK, RowsBorn, LoopState, JobId, vars, table, identity, memory, loop, clients
<1>3. HeldBorn'
  BY IdleType DEF HandlerFails, Write, JobMarkFailed, TypeOK, HeldBorn, LoopState, JobId, vars, table, identity, memory, loop, clients
<1>4. LoopState'
  BY IdleType DEF HandlerFails, Write, JobMarkFailed, TypeOK, LoopState, Children, JobId, vars, table, identity, memory, loop, clients
<1>5. DoneHasNoChildren'
  BY IdleType DEF HandlerFails, Write, JobMarkFailed, TypeOK, LoopState, DoneHasNoChildren, Children, JobId, vars, table, identity, memory, loop, clients
<1> QED
  BY <1>1, <1>2, <1>3, <1>4, <1>5

\* A dropped entry changes no row.
LEMMA DropEntryInv ==
  ASSUME IInv, DropEntry
  PROVE  IInv'
<1>1. /\ pc' = "idle" /\ cur' = 0 /\ batch' = {} /\ flushed' = FALSE
      /\ buf' \in Seq(Type)
      /\ UNCHANGED <<table, memory, clients, crashes, pausedStarts>>
  BY IdleType DEF DropEntry
<1>2. faults' \in 0..MaxFaults
  BY BoundsAssumption DEF DropEntry, IInv, TypeOK
<1>3. TypeOK'
  BY <1>1, <1>2 DEF IInv, TypeOK, table, memory, clients
<1>4. RowsAndLoopAgree'
  BY <1>1 DEF IInv, RowsAndLoopAgree, RowsBorn, HeldBorn, LoopState, DoneHasNoChildren,
              Children, table, memory, clients
<1> QED
  BY <1>3, <1>4 DEF IInv

\* loadFromDB appends ids of rows that are in the table.
LEMMA LoadFromDBInv ==
  ASSUME IInv, LoadFromDB
  PROVE  IInv'
<1>1. /\ pc = "load" /\ pc' = "process" /\ UNCHANGED <<cur, buf, flushed, batch>>
      /\ UNCHANGED <<table, wake, paused, regs, clients, crashes, pausedStarts>>
      /\ faults' \in 0..MaxFaults
  BY Constants DEF LoadFromDB, Goto, IInv, TypeOK
<1>2. queue \in Seq(TopId) /\ \A i \in DOMAIN queue : status[queue[i]] # "absent"
  BY DEF IInv, RowsAndLoopAgree, TypeOK, HeldBorn
<1>3. queue' \in Seq(TopId) /\ \A i \in DOMAIN queue' : status[queue'[i]] # "absent"
  <2>1. PICK q0 \in InIdOrder(Pending \ ToSet(queue)) :
          \/ queue' = queue \o q0
          \/ \E k \in 0..Len(q0) : queue' = queue \o SubSeq(q0, 1, k)
    BY DEF LoadFromDB
  <2> DEFINE S == Pending \ ToSet(queue)
  <2>2. S \subseteq TopId /\ \A j \in S : status[j] # "absent"
    BY DEF Pending
  <2>3. q0 \in Seq(S)
    BY <2>1, <2>2, IdOrderIsSeq
  <2>4. ASSUME NEW k \in 0..Len(q0)
        PROVE  SubSeq(q0, 1, k) \in Seq(S)
    <3>1. Len(q0) \in Nat /\ \A i \in 1..Len(q0) : q0[i] \in S
      BY <2>3, LenProperties
    <3>2. \A i \in 1..k : q0[i] \in S
      BY <3>1
    <3> QED
      BY <2>3, <3>1, <3>2, SubSeqProperties
  <2>5. \E q \in Seq(S) : queue' = queue \o q
    BY <2>1, <2>3, <2>4
  <2>6. ASSUME NEW q \in Seq(S), queue' = queue \o q
        PROVE  queue' \in Seq(TopId) /\ \A i \in DOMAIN queue' : status[queue'[i]] # "absent"
    <3>3. /\ q \in Seq(TopId) /\ DOMAIN q = 1..Len(q) /\ Len(q) \in Nat
          /\ \A i \in 1..Len(q) : status[q[i]] # "absent"
      BY <2>2, <2>6, LenProperties
    <3>4. /\ queue' \in Seq(TopId)
          /\ DOMAIN queue' = 1..(Len(queue) + Len(q))
          /\ \A i \in 1..(Len(queue) + Len(q)) :
               queue'[i] = IF i <= Len(queue) THEN queue[i] ELSE q[i - Len(queue)]
      BY <1>2, <2>6, <3>3, ConcatProperties, LenProperties
    <3>5. DOMAIN queue = 1..Len(queue) /\ Len(queue) \in Nat
      BY <1>2, LenProperties
    <3>6. ASSUME NEW i \in 1..(Len(queue) + Len(q))
          PROVE  status[queue'[i]] # "absent"
      <4>1. CASE i <= Len(queue)
        BY <1>2, <3>4, <3>5, <4>1
      <4>2. CASE ~(i <= Len(queue))
        <5>1. i - Len(queue) \in 1..Len(q)
          BY <3>3, <3>5, <4>2
        <5> QED
          BY <3>3, <3>4, <4>2, <5>1
      <4> QED BY <4>1, <4>2
    <3> QED
      BY <3>4, <3>6
  <2> QED
    BY <2>5, <2>6
<1>4. TypeOK'
  BY <1>1, <1>3 DEF IInv, TypeOK, table, clients
<1>5. HeldBorn'
  BY <1>1, <1>3 DEF IInv, RowsAndLoopAgree, HeldBorn, table, clients
<1>6. (RowsBorn /\ LoopState /\ DoneHasNoChildren)'
  BY <1>1 DEF IInv, RowsAndLoopAgree, RowsBorn, LoopState, DoneHasNoChildren, Children, table
<1> QED
  BY <1>4, <1>5, <1>6 DEF IInv, RowsAndLoopAgree

\* The picked entry leaves the queue and becomes the goroutine's job.
LEMMA ProcessNextInv ==
  ASSUME IInv, ProcessNext
  PROVE  IInv'
<1>1. /\ pc = "process"
      /\ UNCHANGED <<table, wake, paused, regs, clients, crashes, faults, pausedStarts>>
  BY DEF ProcessNext
<1>2. CASE Idle /\ UNCHANGED queue
  <2>1. TypeOK'
    BY <1>1, <1>2, IdleType DEF IInv, TypeOK, table, clients
  <2>2. RowsAndLoopAgree'
    BY <1>1, <1>2, IdleType
    DEF IInv, RowsAndLoopAgree, RowsBorn, HeldBorn, LoopState, DoneHasNoChildren, Children,
        table, clients
  <2> QED
    BY <2>1, <2>2 DEF IInv
<1>3. ASSUME NEW i \in DOMAIN queue, cur' = queue[i], queue' = RemoveAt(queue, i),
             pc' = "fetch", UNCHANGED <<buf, flushed, batch>>
      PROVE  IInv'
  <2>1. /\ queue \in Seq(TopId) /\ \A k \in DOMAIN queue : status[queue[k]] # "absent"
        /\ batch = {}
    BY <1>1 DEF IInv, RowsAndLoopAgree, TypeOK, HeldBorn, LoopState
  <2>2. cur' \in TopId /\ cur' # 0 /\ status[cur'] # "absent"
    BY <1>3, <2>1, LenProperties, Constants
  <2>3. queue' \in Seq(TopId) /\ \A k \in DOMAIN queue' : status[queue'[k]] # "absent"
    BY <1>3, <2>1, RemoveAtKeeps
  <2>4. TypeOK'
    BY <1>1, <1>3, <2>2, <2>3 DEF IInv, TypeOK, table, clients
  <2>5. HeldBorn'
    BY <1>1, <2>3 DEF IInv, RowsAndLoopAgree, HeldBorn, table, clients
  <2>6. LoopState'
    BY <1>1, <1>3, <2>1, <2>2 DEF LoopState, table
  <2>7. (RowsBorn /\ DoneHasNoChildren)'
    BY <1>1 DEF IInv, RowsAndLoopAgree, RowsBorn, DoneHasNoChildren, Children, table
  <2> QED
    BY <2>4, <2>5, <2>6, <2>7 DEF IInv, RowsAndLoopAgree
<1> QED
  BY <1>2, <1>3 DEF ProcessNext

\* The handler's buffer waits for the flush; no row changes.
LEMMA HandlerReturnsInv ==
  ASSUME IInv, HandlerReturns
  PROVE  IInv'
<1>0. cur \in TopId /\ type[cur] \in Type /\ pc = "handler"
  BY DEF HandlerReturns, IInv, RowsAndLoopAgree, RowsBorn, TypeOK, LoopState, JobId
<1>1. /\ buf' \in Seq(Type) /\ pc' = "flush"
      /\ nextSub + Len(buf') <= MaxTop + MaxSub + 1
      /\ UNCHANGED <<table, memory, cur, flushed, batch, clients, crashes, faults, pausedStarts>>
  BY <1>0, TypesAssumption DEF HandlerReturns
<1>2. TypeOK'
  BY <1>1 DEF IInv, TypeOK, table, memory, clients
<1>3. LoopState'
  BY <1>0, <1>1 DEF IInv, RowsAndLoopAgree, LoopState, Children, table
<1>4. (RowsBorn /\ HeldBorn /\ DoneHasNoChildren)'
  BY <1>1 DEF IInv, RowsAndLoopAgree, RowsBorn, HeldBorn, DoneHasNoChildren, Children,
              table, memory, clients
<1> QED
  BY <1>2, <1>3, <1>4 DEF IInv, RowsAndLoopAgree

\* JobMarkDone of the row the goroutine works on, which then goes idle: the
\* children go with it, and no other top-level row changes.
LEMMA MarkDoneInv ==
  ASSUME NEW o \in Outcomes, IInv, cur \in TopId, Write(o, JobMarkDone(cur)), Spend(o), Idle,
         UNCHANGED <<identity, memory, clients, crashes, pausedStarts>>
  PROVE  IInv'
<1>1. CASE status' = status
  <2>1. TypeOK'
    BY <1>1, SpendBound, IdleType DEF IInv, TypeOK, identity, memory, clients
  <2>2. RowsAndLoopAgree'
    BY <1>1, IdleType DEF IInv, RowsAndLoopAgree, RowsBorn, HeldBorn, LoopState,
                          DoneHasNoChildren, Children, identity, memory, clients
  <2> QED
    BY <2>1, <2>2 DEF IInv
<1>2. CASE status' = JobMarkDone(cur)
  <2>0. cur \in JobId /\ cur \notin SubId /\ cur # 0 /\ TypeOK
    BY Constants DEF IInv
  <2>1. /\ status' \in [JobId -> {"absent"} \cup NonTerminal \cup Terminal]
        /\ status'[cur] = "done"
        /\ \A i \in TopId : i # cur => status'[i] = status[i]
        /\ \A s \in SubId : parent[s] = cur => status'[s] = "absent"
        /\ \A s \in SubId : parent[s] # cur => status'[s] = status[s]
    BY <1>2, <2>0, MarkDoneEffect
  <2>2. TypeOK'
    BY <2>1, SpendBound, IdleType DEF IInv, TypeOK, identity, memory, clients
  <2>3. RowsBorn'
    BY <2>0, <2>1 DEF IInv, RowsAndLoopAgree, RowsBorn, LoopState, JobId, identity
  <2>4. HeldBorn'
    BY <2>1, LenProperties DEF IInv, RowsAndLoopAgree, TypeOK, HeldBorn, memory, clients
  <2>5. LoopState'
    BY IdleType DEF LoopState
  <2>6. DoneHasNoChildren'
    BY <2>1 DEF IInv, RowsAndLoopAgree, DoneHasNoChildren, Children, identity
  <2> QED
    BY <2>2, <2>3, <2>4, <2>5, <2>6 DEF IInv, RowsAndLoopAgree
<1> QED
  BY <1>1, <1>2 DEF Write

\* FinishParent is such a JobMarkDone.
LEMMA FinishParentInv ==
  ASSUME NEW o \in Outcomes, IInv, FinishParent(o)
  PROVE  IInv'
<1>1. cur \in TopId
  BY DEF FinishParent, IInv, RowsAndLoopAgree, TypeOK, LoopState
<1> QED
  BY <1>1, MarkDoneInv DEF FinishParent

\* After the flush the parent waits for its sub-jobs, or is done.
LEMMA AfterFlushInv ==
  ASSUME NEW o \in Outcomes, IInv, AfterFlush(o)
  PROVE  IInv'
<1>0. cur \in TopId /\ status[cur] = "running"
  BY DEF AfterFlush, IInv, RowsAndLoopAgree, TypeOK, LoopState
<1>1. CASE flushed /\ type[cur] \in SupportsSubjobs
  <2>1. /\ pc' = "claim" /\ UNCHANGED <<cur, buf, flushed, batch>>
        /\ UNCHANGED <<identity, memory, clients, crashes, pausedStarts>>
        /\ Write(o, JobMarkRunningSubJobs(cur)) /\ Spend(o)
    BY <1>1 DEF AfterFlush, Goto
  <2>2. /\ status' \in [JobId -> {"absent"} \cup NonTerminal \cup Terminal]
        /\ status'[cur] \in {"running", "running_sub_jobs"}
        /\ \A i \in JobId : i # cur => status'[i] = status[i]
    BY <1>0, <2>1 DEF Write, JobMarkRunningSubJobs, IInv, TypeOK, NonTerminal, JobId
  <2>3. \A i \in JobId : /\ status'[i] = "absent" <=> status[i] = "absent"
                         /\ status'[i] = "done" => status[i] = "done"
    BY <1>0, <2>2
  <2>4. TypeOK'
    BY <2>1, <2>2, SpendBound DEF IInv, TypeOK, identity, memory, clients
  <2>5. RowsBorn'
    BY <2>1, <2>3 DEF IInv, RowsAndLoopAgree, RowsBorn, identity, JobId
  <2>6. HeldBorn'
    BY <2>1, <2>3, LenProperties
    DEF IInv, RowsAndLoopAgree, TypeOK, HeldBorn, memory, clients, JobId
  <2>7. LoopState'
    BY <1>0, <2>1, <2>2, <2>3, AfterFlush(o)
    DEF AfterFlush, IInv, RowsAndLoopAgree, TypeOK, LoopState, Children, identity, JobId
  <2>8. DoneHasNoChildren'
    BY <2>1, <2>3 DEF IInv, RowsAndLoopAgree, DoneHasNoChildren, Children, identity, JobId
  <2> QED
    BY <2>4, <2>5, <2>6, <2>7, <2>8 DEF IInv, RowsAndLoopAgree
<1>2. CASE ~(flushed /\ type[cur] \in SupportsSubjobs)
  BY <1>0, <1>2, MarkDoneInv DEF AfterFlush
<1> QED
  BY <1>1, <1>2

\* Claimed rows are children of the parent; claiming removes and ends none.
LEMMA ClaimInv ==
  ASSUME NEW o \in Outcomes, IInv, Claim(o)
  PROVE  IInv'
<1> DEFINE S == Claimable(cur)
<1>0. /\ S \subseteq SubId /\ S \subseteq Children(cur)
      /\ \A s \in S : status[s] = "queued"
  BY ClaimableAreChildren
<1>1. /\ UNCHANGED <<cur, buf, flushed, identity, memory, clients, crashes, pausedStarts>>
      /\ \/ pc' = "batch" /\ batch' = S
         \/ pc' = "finish" /\ batch' = batch
      /\ Spend(o)
  BY DEF Claim, Goto
<1>2. \/ status' = status
      \/ status' = [j \in JobId |-> IF j \in S THEN "running" ELSE status[j]]
  BY DEF Claim, Write
<1> HIDE DEF S
<1>3. /\ status' \in [JobId -> {"absent"} \cup NonTerminal \cup Terminal]
      /\ \A i \in TopId : status'[i] = status[i]
      /\ \A i \in SubId : status'[i] = "absent" <=> status[i] = "absent"
  BY <1>0, <1>2, Constants DEF IInv, TypeOK, NonTerminal
<1>4. TypeOK'
  BY <1>0, <1>1, <1>3, SpendBound DEF IInv, TypeOK, identity, memory, clients
<1>5. RowsBorn'
  BY <1>1, <1>3 DEF IInv, RowsAndLoopAgree, RowsBorn, JobId, identity
<1>6. HeldBorn'
  BY <1>1, <1>3, LenProperties
  DEF IInv, RowsAndLoopAgree, TypeOK, HeldBorn, memory, clients
<1>7. LoopState'
  BY <1>0, <1>1, <1>3, Claim(o)
  DEF Claim, IInv, RowsAndLoopAgree, TypeOK, LoopState, Children, identity
<1>8. DoneHasNoChildren'
  BY <1>1, <1>3 DEF IInv, RowsAndLoopAgree, DoneHasNoChildren, Children, identity
<1> QED
  BY <1>4, <1>5, <1>6, <1>7, <1>8 DEF IInv, RowsAndLoopAgree

\* A goroutine of the batch ends one row and leaves every other row alone.
LEMMA RunSubJobInv ==
  ASSUME NEW o \in Outcomes, NEW s \in batch, IInv, RunSubJob(s, o)
  PROVE  IInv'
<1>0. s \in SubId /\ s \in Children(cur) /\ s \in JobId /\ s \notin TopId
  BY Constants DEF IInv, RowsAndLoopAgree, TypeOK, LoopState
<1>1. /\ UNCHANGED <<cur, buf, flushed, identity, memory, clients, crashes, pausedStarts>>
      /\ pc = "batch" /\ pc' = (IF batch = {s} THEN "claim" ELSE "batch")
      /\ batch' = batch \ {s} /\ Spend(o)
  BY DEF RunSubJob
<1>2. \/ status' = status
      \/ status' = JobMarkDone(s)
      \/ status' = [status EXCEPT ![s] = "failed"]
  BY DEF RunSubJob, Write, JobMarkFailed
<1>3. \A i \in SubId : i # s => parent[i] # s
  BY <1>0, Constants DEF IInv, TypeOK
<1>4. /\ status' \in [JobId -> {"absent"} \cup NonTerminal \cup Terminal]
      /\ \A i \in TopId : status'[i] = status[i]
      /\ \A i \in SubId : status'[i] = "absent" <=> status[i] = "absent"
  <2>1. CASE status' = status
    BY <2>1 DEF IInv, TypeOK
  <2>2. CASE status' = JobMarkDone(s)
    <3>1. TypeOK
      BY DEF IInv
    <3> QED
      BY <1>0, <1>3, <2>2, <3>1, MarkDoneEffect DEF Children
  <2>3. CASE status' = [status EXCEPT ![s] = "failed"]
    BY <1>0, <2>3, Constants DEF IInv, TypeOK, Children, Terminal
  <2> QED
    BY <1>2, <2>1, <2>2, <2>3
<1>5. TypeOK'
  BY <1>1, <1>4, SpendBound DEF IInv, TypeOK, identity, memory, clients
<1>6. RowsBorn'
  BY <1>1, <1>4 DEF IInv, RowsAndLoopAgree, RowsBorn, JobId, identity
<1>7. HeldBorn'
  BY <1>1, <1>4, LenProperties
  DEF IInv, RowsAndLoopAgree, TypeOK, HeldBorn, memory, clients
<1>8. LoopState'
  BY <1>1, <1>4
  DEF IInv, RowsAndLoopAgree, TypeOK, LoopState, Children, identity
<1>9. DoneHasNoChildren'
  BY <1>1, <1>4 DEF IInv, RowsAndLoopAgree, DoneHasNoChildren, Children, identity
<1> QED
  BY <1>5, <1>6, <1>7, <1>8, <1>9 DEF IInv, RowsAndLoopAgree

\* INSERT of a top-level row: the next id, queued, of the requested type.
LEMMA JobCreateEffect ==
  ASSUME NEW o, NEW q \in Request, TypeOK, RowsBorn, JobCreate(o, q)
  PROVE  /\ status' \in [JobId -> {"absent"} \cup NonTerminal \cup Terminal]
         /\ type' \in [JobId -> Type \cup {NoType}]
         /\ related' \in [TopId -> Related]
         /\ nextTop' \in 1..(MaxTop + 1)
         /\ nextTop \in TopId
         /\ Committed(o) => status'[nextTop] = "queued" /\ status[nextTop] = "absent"
         /\ RowsBorn'
         /\ UNCHANGED <<parent, nextSub>>
         /\ \A j \in JobId : /\ status[j] # "absent" => status'[j] = status[j]
                             /\ status'[j] = "done" => status[j] = "done"
                             /\ status[j] # "absent" => type'[j] = type[j]
         /\ \A s \in SubId : status'[s] = status[s]
<1>1. nextTop \in TopId /\ nextTop \in JobId /\ nextTop \notin SubId /\ nextTop \in Nat
      /\ nextTop' \in 1..(MaxTop + 1)
  BY BoundsAssumption DEF JobCreate, TypeOK, TopId, JobId, SubId
<1>2. q.type \in Type /\ q.related \in Related
  BY DEF Request
<1>3. status[nextTop] = "absent"
  BY <1>1 DEF RowsBorn
<1>4. CASE ~Committed(o)
  <2>1. UNCHANGED <<status, type, related, nextTop, parent, nextSub>>
    BY <1>4 DEF JobCreate
  <2> QED
    BY <1>1, <1>4, <2>1 DEF TypeOK, RowsBorn
<1>5. CASE Committed(o)
  <2>1. /\ status' = [status EXCEPT ![nextTop] = "queued"]
        /\ type' = [type EXCEPT ![nextTop] = q.type]
        /\ related' = [related EXCEPT ![nextTop] = q.related]
        /\ nextTop' = nextTop + 1
        /\ UNCHANGED <<parent, nextSub>>
    BY <1>5 DEF JobCreate
  <2>2. /\ status' \in [JobId -> {"absent"} \cup NonTerminal \cup Terminal]
        /\ type' \in [JobId -> Type \cup {NoType}]
        /\ related' \in [TopId -> Related]
    BY <1>2, <2>1 DEF TypeOK, NonTerminal
  <2>3. /\ \A j \in JobId : j # nextTop => status'[j] = status[j] /\ type'[j] = type[j]
        /\ status'[nextTop] = "queued" /\ type'[nextTop] \in Type
    BY <1>1, <1>2, <2>1 DEF TypeOK
  <2>4. RowsBorn'
    <3>1. \A j \in TopId : j < nextTop + 1 <=> (j < nextTop \/ j = nextTop)
      BY <1>1, Constants
    <3> QED
      BY <1>1, <2>1, <2>3, <3>1 DEF RowsBorn, JobId
  <2>5. \A s \in SubId : status'[s] = status[s]
    BY <1>1, <2>3 DEF JobId
  <2> QED
    BY <1>1, <1>3, <2>1, <2>2, <2>3, <2>4, <2>5
<1> QED
  BY <1>4, <1>5

\* integrity_check inserts a row while its own row is running.
LEMMA HandlerRequeuesInv ==
  ASSUME NEW o \in Outcomes, NEW q \in Requeues, IInv, HandlerRequeues(q, o)
  PROVE  IInv'
<1>0. q \in Request /\ TypeOK /\ RowsBorn /\ JobCreate(o, q)
  BY TypesAssumption DEF HandlerRequeues, IInv, RowsAndLoopAgree
<1>1. q \in Request /\ TypeOK /\ RowsBorn /\ JobCreate(o, q) /\ faults' \in 0..MaxFaults
  <2>1. CASE Spend(o)
    BY <1>0, <2>1, SpendBound
  <2>2. CASE faults < MaxFaults /\ faults' = faults + 1
    BY <1>0, <2>2, Constants DEF TypeOK
  <2> QED
    BY <1>0, <2>1, <2>2 DEF HandlerRequeues
<1>2. /\ UNCHANGED <<queue, paused, regs, loop, clients, crashes, pausedStarts>>
      /\ wake' \in BOOLEAN
  BY <1>1 DEF HandlerRequeues, TypeOK
<1>3. TypeOK'
  BY <1>1, <1>2, JobCreateEffect DEF TypeOK, loop, clients
<1>4. RowsBorn'
  BY <1>1, JobCreateEffect
<1>5. HeldBorn'
  <2>1. \A i \in DOMAIN queue : queue[i] \in JobId
    BY <1>1, LenProperties DEF TypeOK, JobId
  <2> QED
    BY <1>1, <1>2, <2>1, JobCreateEffect
    DEF IInv, RowsAndLoopAgree, HeldBorn, clients, JobId
<1>6. LoopState'
  <2>1. /\ \A j \in JobId : status[j] # "absent" => status'[j] = status[j]
        /\ \A s \in SubId : status'[s] = status[s]
        /\ UNCHANGED <<parent, nextSub>>
    BY <1>1, JobCreateEffect
  <2>2. UNCHANGED <<pc, cur, buf, batch>> /\ cur \in TopId \cup {0} /\ TopId \subseteq JobId
    BY <1>0, <1>2 DEF TypeOK, loop, JobId
  <2>3. Children(cur)' = Children(cur)
    BY <2>1, <2>2 DEF Children
  <2>4. LoopState
    BY DEF IInv, RowsAndLoopAgree
  <2>5. cur # 0 => status[cur] # "absent" /\ status'[cur] = status[cur]
    BY <2>1, <2>2, <2>4 DEF LoopState
  <2>6. pc \in {"handler", "flush", "claim", "batch", "finish"} => cur # 0
    BY <2>4 DEF LoopState
  <2> QED
    BY <2>1, <2>2, <2>3, <2>4, <2>5, <2>6 DEF LoopState
<1>7. DoneHasNoChildren'
  BY <1>1, JobCreateEffect
  DEF IInv, RowsAndLoopAgree, DoneHasNoChildren, Children, JobId
<1> QED
  BY <1>3, <1>4, <1>5, <1>6, <1>7 DEF IInv, RowsAndLoopAgree

\* FlushSubJobs inserts fresh rows under the running row only.
LEMMA FlushBatchInv ==
  ASSUME NEW o \in Outcomes, IInv, FlushBatch(o)
  PROVE  IInv'
<1> DEFINE n == IF Len(buf) < FlushSize THEN Len(buf) ELSE FlushSize
           new == nextSub..(nextSub + n - 1)
<1>1. /\ pc = "flush" /\ buf # <<>> /\ JobCreateSubJobBatch(o, n) /\ Spend(o)
      /\ flushed' = (flushed \/ Answered(o))
      /\ buf' = SubSeq(buf, n + 1, Len(buf))
      /\ UNCHANGED <<pc, cur, batch, memory, clients, crashes, pausedStarts>>
  BY DEF FlushBatch
<1>2. /\ buf \in Seq(Type) /\ Len(buf) \in Nat /\ n \in 0..Len(buf)
      /\ \A i \in 1..Len(buf) : buf[i] \in Type
  BY BoundsAssumption, LenProperties DEF IInv, TypeOK
<1>3. buf' \in Seq(Type) /\ Len(buf') = Len(buf) - n
  <2>1. \A i \in (n + 1)..Len(buf) : buf[i] \in Type
    BY <1>2
  <2>2. /\ SubSeq(buf, n + 1, Len(buf)) \in Seq(Type)
        /\ Len(SubSeq(buf, n + 1, Len(buf))) =
             IF n + 1 <= Len(buf) THEN Len(buf) - (n + 1) + 1 ELSE 0
    BY <1>2, <2>1, SubSeqProperties
  <2> QED
    BY <1>1, <1>2, <2>2
<1>4. /\ nextSub \in Nat /\ nextSub >= MaxTop + 1
      /\ nextSub + Len(buf) <= MaxTop + MaxSub + 1
  BY <1>1, BoundsAssumption DEF IInv, RowsAndLoopAgree, TypeOK, LoopState
<1>5. cur \in TopId /\ status[cur] = "running"
  BY <1>1 DEF IInv, RowsAndLoopAgree, TypeOK, LoopState
<1> HIDE DEF n
<1>6. /\ new \subseteq SubId /\ \A j \in new : status[j] = "absent"
      /\ \A j \in new : j - nextSub + 1 \in 1..Len(buf)
      /\ \A s \in SubId : s >= nextSub + n => s \notin new /\ s >= nextSub
      /\ nextSub + n \in (MaxTop + 1)..(MaxTop + MaxSub + 1)
  <2>1. n \in Nat /\ n <= Len(buf) /\ MaxTop \in Nat /\ MaxSub \in Nat
    BY <1>2, BoundsAssumption
  <2>2. \A j \in new : j \in SubId /\ j >= nextSub /\ j - nextSub + 1 \in 1..Len(buf)
    BY <1>2, <1>4, <2>1 DEF SubId
  <2>3. \A j \in new : status[j] = "absent"
    BY <2>2 DEF IInv, RowsAndLoopAgree, RowsBorn
  <2>4. \A s \in SubId : s >= nextSub + n => s \notin new /\ s >= nextSub
    BY <1>4, <2>1 DEF SubId
  <2>5. nextSub + n \in (MaxTop + 1)..(MaxTop + MaxSub + 1)
    BY <1>2, <1>4, <2>1
  <2> QED
    BY <2>2, <2>3, <2>4, <2>5
<1> HIDE DEF new
<1>7. CASE ~Committed(o)
  <2>1. UNCHANGED table
    BY <1>1, <1>7 DEF JobCreateSubJobBatch
  <2>2. TypeOK'
    BY <1>1, <1>3, <2>1, SpendBound DEF IInv, TypeOK, table, memory, clients
  <2>3. LoopState'
    BY <1>1, <1>2, <1>3, <1>4, <2>1, BoundsAssumption
    DEF IInv, RowsAndLoopAgree, LoopState, Children, table
  <2>4. (RowsBorn /\ HeldBorn /\ DoneHasNoChildren)'
    BY <1>1, <2>1 DEF IInv, RowsAndLoopAgree, RowsBorn, HeldBorn, DoneHasNoChildren, Children,
                      table, memory, clients
  <2> QED
    BY <2>2, <2>3, <2>4 DEF IInv, RowsAndLoopAgree
<1>8. CASE Committed(o)
  <2>1. /\ status' = [j \in JobId |-> IF j \in new THEN "queued" ELSE status[j]]
        /\ type' = [j \in JobId |-> IF j \in new THEN buf[j - nextSub + 1] ELSE type[j]]
        /\ parent' = [s \in SubId |-> IF s \in new THEN cur ELSE parent[s]]
        /\ nextSub' = nextSub + n
        /\ UNCHANGED <<related, nextTop>>
    BY <1>1, <1>8 DEF JobCreateSubJobBatch, new
  <2>2. /\ status' \in [JobId -> {"absent"} \cup NonTerminal \cup Terminal]
        /\ parent' \in [SubId -> TopId \cup {0}]
    BY <1>5, <2>1 DEF IInv, TypeOK, NonTerminal
  <2>3. type' \in [JobId -> Type \cup {NoType}]
    BY <1>2, <1>6, <2>1 DEF IInv, TypeOK
  <2>4. /\ \A j \in TopId : status'[j] = status[j] /\ type'[j] = type[j]
        /\ \A s \in SubId : s \in new => status'[s] = "queued" /\ parent'[s] = cur
                                         /\ type'[s] \in Type
        /\ \A s \in SubId : s \notin new => /\ status'[s] = status[s]
                                            /\ parent'[s] = parent[s] /\ type'[s] = type[s]
    BY <1>2, <1>6, <2>1, Constants
  <2>5. TypeOK'
    BY <1>1, <1>3, <1>6, <2>1, <2>2, <2>3, SpendBound DEF IInv, TypeOK, memory, clients
  <2>6. RowsBorn'
    BY <1>6, <2>1, <2>4 DEF IInv, RowsAndLoopAgree, RowsBorn, JobId
  <2>7. HeldBorn'
    <3>1. \A i \in DOMAIN queue : queue[i] \in TopId
      BY LenProperties DEF IInv, TypeOK
    <3>2. \A i \in DOMAIN queue : status[queue[i]] # "absent"
      BY DEF IInv, RowsAndLoopAgree, HeldBorn
    <3>3. \A i \in DOMAIN queue' : status'[queue'[i]] # "absent"
      BY <1>1, <2>4, <3>1, <3>2 DEF memory
    <3>4. \A c \in Clients :
            /\ cpc'[c] = "checked" => req'[c] \in Request
            /\ cpc'[c] = "created" => made'[c] \in TopId /\ status'[made'[c]] # "absent"
      BY <1>1, <2>4 DEF IInv, RowsAndLoopAgree, HeldBorn, clients
    <3> QED
      BY <3>3, <3>4 DEF HeldBorn
  <2>8. nextSub' + Len(buf') <= MaxTop + MaxSub + 1
    BY <1>2, <1>3, <1>4, <2>1, BoundsAssumption
  <2>9. LoopState'
    BY <1>1, <1>5, <2>4, <2>8 DEF IInv, RowsAndLoopAgree, LoopState, Children
  <2>10. DoneHasNoChildren'
    BY <1>5, <2>4 DEF IInv, RowsAndLoopAgree, DoneHasNoChildren, Children
  <2> QED
    BY <2>5, <2>6, <2>7, <2>9, <2>10 DEF IInv, RowsAndLoopAgree
<1> QED
  BY <1>7, <1>8

\* A yielding transcode goes back to the front of the queue.
LEMMA YieldTranscodeInv ==
  ASSUME IInv, YieldTranscode
  PROVE  IInv'
<1>1. cur \in TopId /\ status[cur] # "absent" /\ queue \in Seq(TopId)
  BY DEF YieldTranscode, IInv, RowsAndLoopAgree, TypeOK, LoopState
<1>2. /\ queue' = <<cur>> \o queue /\ wake' = TRUE
      /\ UNCHANGED <<table, paused, regs, clients, crashes, faults, pausedStarts>>
      /\ pc' = "idle" /\ cur' = 0 /\ batch' = {} /\ flushed' = FALSE /\ buf' \in Seq(Type)
  BY IdleType DEF YieldTranscode
<1>3. /\ queue' \in Seq(TopId)
      /\ Len(queue') = 1 + Len(queue) /\ Len(queue) \in Nat
      /\ \A i \in 1..(1 + Len(queue)) : queue'[i] = IF i <= 1 THEN cur ELSE queue[i - 1]
  <2>1. <<cur>> \in Seq(TopId) /\ Len(<<cur>>) = 1 /\ <<cur>>[1] = cur
    BY <1>1
  <2> QED
    BY <1>1, <1>2, <2>1, ConcatProperties, LenProperties
<1>4. \A i \in DOMAIN queue' : status[queue'[i]] # "absent"
  <2>1. DOMAIN queue' = 1..(1 + Len(queue)) /\ DOMAIN queue = 1..Len(queue)
    BY <1>1, <1>3, LenProperties
  <2>2. \A i \in 1..Len(queue) : status[queue[i]] # "absent"
    BY <2>1 DEF IInv, RowsAndLoopAgree, HeldBorn
  <2>3. \A i \in 1..(1 + Len(queue)) : ~(i <= 1) => i - 1 \in 1..Len(queue)
    BY <1>3
  <2> QED
    BY <1>1, <1>3, <2>1, <2>2, <2>3
<1>5. TypeOK'
  BY <1>2, <1>3 DEF IInv, TypeOK, table, clients
<1>6. HeldBorn'
  BY <1>2, <1>4 DEF IInv, RowsAndLoopAgree, HeldBorn, table, clients
<1>7. (RowsBorn /\ LoopState /\ DoneHasNoChildren)'
  BY <1>2 DEF IInv, RowsAndLoopAgree, RowsBorn, LoopState, DoneHasNoChildren, Children, table
<1> QED
  BY <1>5, <1>6, <1>7 DEF IInv, RowsAndLoopAgree

\* The check reads the table and keeps the request.
LEMMA CheckActiveInv ==
  ASSUME NEW c \in Clients, NEW q \in Requests, IInv, CheckActive(c, q)
  PROVE  IInv'
<1>1. /\ q \in Request
      /\ q \in [type : Type \cup {NoType}, related : Related]
  BY TypesAssumption DEF Request
<1>2. /\ cpc' = [cpc EXCEPT ![c] = "checked"] /\ req' = [req EXCEPT ![c] = q]
      /\ UNCHANGED <<table, memory, loop, made, crashes, faults, pausedStarts>>
  BY DEF CheckActive
<1>3. TypeOK'
  BY <1>1, <1>2 DEF IInv, TypeOK, table, memory, loop
<1>4. HeldBorn'
  BY <1>1, <1>2 DEF IInv, RowsAndLoopAgree, TypeOK, HeldBorn, table, memory
<1>5. (RowsBorn /\ LoopState /\ DoneHasNoChildren)'
  BY <1>2 DEF IInv, RowsAndLoopAgree, RowsBorn, LoopState, DoneHasNoChildren, Children, table, loop
<1> QED
  BY <1>3, <1>4, <1>5 DEF IInv, RowsAndLoopAgree

\* Enqueue keeps the id only when the INSERT was answered.
LEMMA EnqueueRowInv ==
  ASSUME NEW c \in Clients, NEW o \in Outcomes, IInv, EnqueueRow(c, o)
  PROVE  IInv'
<1>1. /\ TypeOK /\ RowsBorn /\ req[c] \in Request
      /\ JobCreate(o, req[c]) /\ Spend(o)
  BY DEF EnqueueRow, IInv, RowsAndLoopAgree, HeldBorn
<1>2. /\ cpc' = [cpc EXCEPT ![c] = IF Answered(o) THEN "created" ELSE "idle"]
      /\ made' = [made EXCEPT ![c] = IF Answered(o) THEN nextTop ELSE 0]
      /\ UNCHANGED <<req, memory, loop, crashes, pausedStarts>>
  BY DEF EnqueueRow
<1>3. Answered(o) => nextTop \in TopId /\ status'[nextTop] = "queued"
  BY <1>1, JobCreateEffect DEF Answered, Committed
<1>4. nextTop \in TopId
  BY <1>1, JobCreateEffect
<1>5. TypeOK'
  BY <1>1, <1>2, <1>4, JobCreateEffect, SpendBound DEF TypeOK, memory, loop
<1>6. RowsBorn'
  BY <1>1, JobCreateEffect
<1>7. HeldBorn'
  <2>1. \A i \in DOMAIN queue : queue[i] \in JobId
    BY <1>1, LenProperties DEF TypeOK, JobId
  <2>2. \A i \in DOMAIN queue' : status'[queue'[i]] # "absent"
    BY <1>1, <1>2, <2>1, JobCreateEffect DEF IInv, RowsAndLoopAgree, HeldBorn, memory
  <2>3. ASSUME NEW d \in Clients
        PROVE  /\ cpc'[d] = "checked" => req'[d] \in Request
               /\ cpc'[d] = "created" => made'[d] \in TopId /\ status'[made'[d]] # "absent"
    <3>1. CASE d = c
      BY <1>1, <1>2, <1>3, <3>1 DEF TypeOK
    <3>2. CASE d # c
      <4>1. cpc'[d] = cpc[d] /\ made'[d] = made[d] /\ req'[d] = req[d]
        BY <1>1, <1>2, <3>2 DEF TypeOK
      <4> QED
        BY <1>1, <4>1, JobCreateEffect DEF IInv, RowsAndLoopAgree, HeldBorn, JobId
    <3> QED BY <3>1, <3>2
  <2> QED
    BY <2>2, <2>3 DEF HeldBorn
<1>8. LoopState'
  <2>1. /\ \A j \in TopId : status[j] # "absent" => status'[j] = status[j]
        /\ \A s \in SubId : status'[s] = status[s]
        /\ UNCHANGED <<parent, nextSub>>
    BY <1>1, JobCreateEffect DEF JobId
  <2> QED
    BY <1>2, <2>1 DEF IInv, RowsAndLoopAgree, TypeOK, LoopState, Children, loop
<1>9. DoneHasNoChildren'
  BY <1>1, JobCreateEffect
  DEF IInv, RowsAndLoopAgree, DoneHasNoChildren, Children, JobId
<1> QED
  BY <1>5, <1>6, <1>7, <1>8, <1>9 DEF IInv, RowsAndLoopAgree

\* The entry Enqueue appends is the row it inserted.
LEMMA EnqueueEntryInv ==
  ASSUME NEW c \in Clients, IInv, EnqueueEntry(c)
  PROVE  IInv'
<1>1. /\ queue \in Seq(TopId) /\ made[c] \in TopId /\ status[made[c]] # "absent"
      /\ queue' = Append(queue, made[c]) /\ wake' = TRUE
      /\ cpc' = [cpc EXCEPT ![c] = "idle"] /\ made' = [made EXCEPT ![c] = 0]
      /\ UNCHANGED <<req, table, paused, regs, loop, crashes, faults, pausedStarts>>
  BY DEF EnqueueEntry, IInv, RowsAndLoopAgree, TypeOK, HeldBorn
<1>2. /\ queue' \in Seq(TopId)
      /\ Len(queue') = Len(queue) + 1 /\ Len(queue) \in Nat
      /\ \A i \in 1..Len(queue) : queue'[i] = queue[i]
      /\ queue'[Len(queue) + 1] = made[c]
  BY <1>1, AppendProperties, LenProperties
<1>3. \A i \in DOMAIN queue' : status[queue'[i]] # "absent"
  <2>1. DOMAIN queue' = 1..(Len(queue) + 1) /\ DOMAIN queue = 1..Len(queue)
    BY <1>1, <1>2, LenProperties
  <2>2. \A i \in 1..Len(queue) : status[queue[i]] # "absent"
    BY <2>1 DEF IInv, RowsAndLoopAgree, HeldBorn
  <2>3. \A i \in 1..(Len(queue) + 1) : i \in 1..Len(queue) \/ i = Len(queue) + 1
    BY <1>2
  <2> QED
    BY <1>1, <1>2, <2>1, <2>2, <2>3
<1>4. TypeOK'
  BY <1>1, <1>2 DEF IInv, TypeOK, table, loop
<1>5. HeldBorn'
  BY <1>1, <1>3 DEF IInv, RowsAndLoopAgree, TypeOK, HeldBorn, table
<1>6. (RowsBorn /\ LoopState /\ DoneHasNoChildren)'
  BY <1>1 DEF IInv, RowsAndLoopAgree, RowsBorn, LoopState, DoneHasNoChildren, Children, table, loop
<1> QED
  BY <1>4, <1>5, <1>6 DEF IInv, RowsAndLoopAgree

\* A restart only turns running rows back into queued ones.
LEMMA BootInv ==
  ASSUME IInv, Boot
  PROVE  IInv'
<1>1. /\ pc = "off" /\ pc' = "load" /\ UNCHANGED <<cur, buf, flushed, batch>>
      /\ UNCHANGED <<identity, memory, clients, crashes, faults, pausedStarts>>
      /\ status' = [j \in JobId |-> IF status[j] = "running" THEN "queued" ELSE status[j]]
  BY DEF Boot, Goto, JobsResetStuck
<1>2. /\ status' \in [JobId -> {"absent"} \cup NonTerminal \cup Terminal]
      /\ \A j \in JobId : status'[j] = "absent" <=> status[j] = "absent"
      /\ \A j \in JobId : status'[j] = "done" <=> status[j] = "done"
  BY <1>1 DEF IInv, TypeOK, NonTerminal
<1>3. TypeOK'
  BY <1>1, <1>2 DEF IInv, TypeOK, identity, memory, clients
<1>4. RowsBorn'
  BY <1>1, <1>2 DEF IInv, RowsAndLoopAgree, RowsBorn, JobId, identity
<1>5. HeldBorn'
  <2>1. \A i \in DOMAIN queue : queue[i] \in JobId
    BY LenProperties DEF IInv, TypeOK, JobId
  <2> QED
    BY <1>1, <1>2, <2>1 DEF IInv, RowsAndLoopAgree, HeldBorn, JobId, memory, clients
<1>6. LoopState'
  BY <1>1 DEF IInv, RowsAndLoopAgree, LoopState
<1>7. DoneHasNoChildren'
  BY <1>1, <1>2 DEF IInv, RowsAndLoopAgree, DoneHasNoChildren, Children, JobId, identity
<1> QED
  BY <1>3, <1>4, <1>5, <1>6, <1>7 DEF IInv, RowsAndLoopAgree

\* Register only lengthens the handler table.
LEMMA RegisterInv ==
  ASSUME IInv, Register
  PROVE  IInv'
<1>1. /\ regs' \in 0..Len(HandlerOrder)
      /\ UNCHANGED <<table, queue, wake, paused, loop, clients, crashes, faults, pausedStarts>>
  BY Constants DEF Register, IInv, TypeOK
<1>2. TypeOK'
  BY <1>1 DEF IInv, TypeOK, table, loop, clients
<1>3. RowsAndLoopAgree'
  BY <1>1 DEF IInv, RowsAndLoopAgree, RowsBorn, HeldBorn, LoopState, DoneHasNoChildren,
              Children, table, loop, clients
<1> QED
  BY <1>2, <1>3 DEF IInv

\* So do Pause and Resume for the paused flag.
LEMMA PauseResumeInv ==
  ASSUME IInv, Pause \/ Resume
  PROVE  IInv'
<1>0. pausedStarts \in Nat
  BY DEF IInv, TypeOK
<1>1. /\ paused' \in BOOLEAN /\ pausedStarts' \in Nat
      /\ UNCHANGED <<table, queue, wake, regs, loop, clients, crashes, faults>>
  <2>1. CASE Pause
    BY <1>0, <2>1 DEF Pause
  <2>2. CASE Resume
    BY <2>2 DEF Resume
  <2> QED
    BY <2>1, <2>2
<1>2. TypeOK'
  BY <1>1 DEF IInv, TypeOK, table, loop, clients
<1>3. RowsAndLoopAgree'
  BY <1>1 DEF IInv, RowsAndLoopAgree, RowsBorn, HeldBorn, LoopState, DoneHasNoChildren,
              Children, table, loop, clients
<1> QED
  BY <1>2, <1>3 DEF IInv

\* A crash leaves the table and nothing else.
LEMMA CrashInv ==
  ASSUME IInv, Crash
  PROVE  IInv'
<1>1. /\ queue' = <<>> /\ wake' = FALSE /\ paused' = FALSE /\ regs' = 0
      /\ pc' = "off" /\ cur' = 0 /\ buf' = <<>> /\ flushed' = FALSE /\ batch' = {}
      /\ cpc' = [c \in Clients |-> "idle"] /\ made' = [c \in Clients |-> 0]
      /\ pausedStarts' = 0
      /\ UNCHANGED <<table, req, faults>>
  BY DEF Crash
<1>2. regs' \in 0..Len(HandlerOrder) /\ crashes' \in 0..MaxCrashes
  BY <1>1, Constants DEF Crash, IInv, TypeOK
<1>3. queue' \in Seq(TopId) /\ buf' \in Seq(Type) /\ DOMAIN queue' = {}
  <2>1. \A S : <<>> \in Seq(S)
    BY EmptySeq
  <2>2. Len(<<>>) = 0 /\ DOMAIN <<>> = {}
    BY EmptySeq
  <2> QED
    BY <1>1, <2>1, <2>2
<1>4. TypeOK'
  BY <1>1, <1>2, <1>3 DEF IInv, TypeOK, table
<1>5. RowsAndLoopAgree'
  BY <1>1, <1>3 DEF IInv, RowsAndLoopAgree, RowsBorn, HeldBorn, LoopState, DoneHasNoChildren,
                    Children, table
<1> QED
  BY <1>4, <1>5 DEF IInv

\* A new database and a process that is not up.
LEMMA InitInv == Init => IInv
<1> SUFFICES ASSUME Init PROVE IInv
  OBVIOUS
<1>1. /\ nextTop \in 1..(MaxTop + 1) /\ nextSub \in (MaxTop + 1)..(MaxTop + MaxSub + 1)
      /\ regs \in 0..Len(HandlerOrder) /\ crashes \in 0..MaxCrashes /\ faults \in 0..MaxFaults
  BY Constants DEF Init
<1>2. queue \in Seq(TopId) /\ buf \in Seq(Type) /\ DOMAIN queue = {}
  <2>1. \A S : <<>> \in Seq(S)
    BY EmptySeq
  <2>2. DOMAIN <<>> = {}
    BY EmptySeq
  <2> QED
    BY <2>1, <2>2 DEF Init
<1>3. TypeOK
  BY <1>1, <1>2, TypesAssumption DEF Init, TypeOK
<1>4. RowsBorn
  BY Constants DEF Init, RowsBorn, TopId, JobId
<1>5. HeldBorn /\ LoopState /\ DoneHasNoChildren
  BY <1>2 DEF Init, HeldBorn, LoopState, DoneHasNoChildren, Children, TopId, JobId
<1> QED
  BY <1>3, <1>4, <1>5 DEF IInv, RowsAndLoopAgree

\* Every step keeps the inductive invariant.
LEMMA NextInv == IInv /\ [Next]_vars => IInv'
<1> SUFFICES ASSUME IInv, [Next]_vars PROVE IInv'
  OBVIOUS
<1>1. CASE UNCHANGED vars
  BY <1>1 DEF IInv, TypeOK, RowsAndLoopAgree, RowsBorn, HeldBorn, LoopState, DoneHasNoChildren,
              Children, vars, table, memory, loop, clients
<1>2. CASE DispatcherStep
  <2>1. CASE WakeUp \/ LoadFromDB \/ ProcessNext \/ DropEntry
    BY <2>1, WakeUpInv, LoadFromDBInv, ProcessNextInv, DropEntryInv
  <2>2. CASE ResumeSubJobs \/ HandlerReturns \/ YieldTranscode
    BY <2>2, ResumeSubJobsInv, HandlerReturnsInv, YieldTranscodeInv
  <2>3. ASSUME NEW o \in Outcomes, RejectUnknown(o) \/ StartJob(o) \/ HandlerFails(o)
        PROVE  IInv'
    BY <2>3, RejectUnknownInv, StartJobInv, HandlerFailsInv
  <2>4. ASSUME NEW o \in Outcomes,
               FlushBatch(o) \/ AfterFlush(o) \/ Claim(o) \/ FinishParent(o)
        PROVE  IInv'
    BY <2>4, FlushBatchInv, AfterFlushInv, ClaimInv, FinishParentInv
  <2>5. ASSUME NEW o \in Outcomes, NEW s \in batch, RunSubJob(s, o)
        PROVE  IInv'
    BY <2>5, RunSubJobInv
  <2> QED
    BY <1>2, <2>1, <2>2, <2>3, <2>4, <2>5 DEF DispatcherStep
<1>3. CASE PollTick
  BY <1>3, PollTickInv
<1>4. ASSUME NEW q \in Requeues, NEW o \in Outcomes, HandlerRequeues(q, o)
      PROVE  IInv'
  BY <1>4, HandlerRequeuesInv
<1>5. ASSUME NEW c \in Clients, ClientStep(c)
      PROVE  IInv'
  BY <1>5, CheckActiveInv, EnqueueRowInv, EnqueueEntryInv DEF ClientStep
<1>6. CASE Boot \/ Register \/ Crash \/ Pause \/ Resume
  BY <1>6, BootInv, RegisterInv, CrashInv, PauseResumeInv
<1> QED
  BY <1>1, <1>2, <1>3, <1>4, <1>5, <1>6 DEF Next

\* The inductive invariant holds of every reachable state.
THEOREM Invariance == Spec => []IInv
BY InitInv, NextInv, PTL DEF Spec

\* Every variable keeps its type, and the row ids stay within the columns' order.
THEOREM TypeCorrect == Spec => []TypeOK
<1>1. IInv => TypeOK
  BY DEF IInv
<1> QED
  BY Invariance, <1>1, PTL

\* Queue entries and Enqueue's ids are rows, and the goroutine's position agrees
\* with the row it works on, through every crash and failing statement.
THEOREM RowsAndLoop == Spec => []RowsAndLoopAgree
<1>1. IInv => RowsAndLoopAgree
  BY DEF IInv
<1> QED
  BY Invariance, <1>1, PTL

-----------------------------------------------------------------------------
(* The top-level rows as the promised queue sees them.  Keeps(S): outside S a *)
(* finished row keeps its status, and no row becomes finished or unfinished.  *)

Unfinished == {j \in TopId : status[j] \in NonTerminal}
Ended      == {j \in TopId : status[j] \in Terminal}

Keeps(S) == \A j \in TopId \ S : /\ status[j] \in Terminal => status'[j] = status[j]
                                 /\ status[j] \in Terminal <=> status'[j] \in Terminal
                                 /\ status[j] \in NonTerminal <=> status'[j] \in NonTerminal

Stuttered   == Keeps({}) /\ taken' = taken
Submitted(j) == Keeps({j}) /\ taken' = taken /\ status[j] = "absent" /\ status'[j] \in NonTerminal
Took(j)     == Keeps({}) /\ taken = {} /\ taken' = {j} /\ status[j] \in NonTerminal
GaveBack(j) == Keeps({}) /\ taken = {j} /\ taken' = {} /\ status[j] \in NonTerminal
Finished(j) == /\ Keeps({j}) /\ taken = {j} /\ taken' = {}
               /\ status[j] \in NonTerminal /\ status'[j] \in Terminal
Refused(j)  == /\ Keeps({j}) /\ taken = {} /\ taken' = {}
               /\ status[j] \in NonTerminal /\ status'[j] \in Terminal

Effect == \/ Stuttered
          \/ \E j \in TopId : Submitted(j) \/ Took(j) \/ GaveBack(j) \/ Finished(j) \/ Refused(j)

\* A job that is executed is an unfinished row.
LEMMA TakenIsUnfinished ==
  ASSUME IInv, pc \in Executing
  PROVE  cur \in TopId /\ taken = {cur} /\ status[cur] \in NonTerminal
BY DEF IInv, TypeOK, RowsAndLoopAgree, LoopState, Executing, taken, NonTerminal

\* Steps that leave the statuses of the top-level rows alone.
LEMMA KeepsIfUnchanged ==
  ASSUME \A j \in TopId : status'[j] = status[j]
  PROVE  Keeps({})
BY DEF Keeps

\* The write that ends the row the goroutine works on, or that failed.
LEMMA EndEffect ==
  ASSUME NEW o \in Outcomes, IInv, pc \in Executing, Idle,
         NEW new, Write(o, new), new[cur] \in Terminal,
         \A j \in TopId : j # cur => new[j] = status[j]
  PROVE  GaveBack(cur) \/ Finished(cur)
<1>1. cur \in TopId /\ taken = {cur} /\ status[cur] \in NonTerminal
  BY TakenIsUnfinished
<1>2. taken' = {}
  BY DEF Idle, taken, Executing
<1>3. CASE status' = status
  BY <1>1, <1>2, <1>3 DEF GaveBack, Keeps
<1>4. CASE status' = new
  BY <1>1, <1>2, <1>4 DEF Finished, Keeps
<1> QED
  BY <1>3, <1>4 DEF Write

\* INSERT of a top-level row, by a goroutine or a handler.
LEMMA CreateEffect ==
  ASSUME NEW o, NEW q \in Request, IInv, JobCreate(o, q), taken' = taken
  PROVE  Stuttered \/ Submitted(nextTop)
<1>1. TypeOK /\ RowsBorn
  BY DEF IInv, RowsAndLoopAgree
<1>2. CASE Committed(o)
  <2>1. status'[nextTop] = "queued" /\ status[nextTop] = "absent"
    BY <1>1, <1>2, JobCreateEffect
  <2>2. \A j \in TopId : j # nextTop => status'[j] = status[j]
    BY <1>1, <1>2 DEF JobCreate, TypeOK, JobId
  <2> QED
    BY <2>1, <2>2 DEF Submitted, Keeps, NonTerminal
<1>3. CASE ~Committed(o)
  BY <1>3 DEF JobCreate, Stuttered, Keeps
<1> QED
  BY <1>2, <1>3

\* What a step of the goroutine does to the top-level rows.
LEMMA DispatcherEffect ==
  ASSUME IInv, DispatcherStep
  PROVE  Effect
<1>1. CASE WakeUp \/ LoadFromDB \/ ProcessNext \/ DropEntry \/ HandlerReturns
  <2>1. status' = status
    BY <1>1 DEF WakeUp, LoadFromDB, ProcessNext, DropEntry, HandlerReturns, table
  <2>2. taken' = taken
    BY <1>1 DEF WakeUp, LoadFromDB, ProcessNext, DropEntry, HandlerReturns, Goto, Idle,
                taken, Executing
  <2> QED
    BY <2>1, <2>2 DEF Effect, Stuttered, Keeps
<1>2. CASE ResumeSubJobs
  <2>1. /\ status' = status /\ cur \in TopId /\ status[cur] \in NonTerminal
        /\ taken = {}
    BY <1>2 DEF ResumeSubJobs, table, IInv, RowsAndLoopAgree, TypeOK, LoopState, NonTerminal,
                taken, Executing
  <2>2. taken' = {} \/ taken' = {cur}
    BY <1>2 DEF ResumeSubJobs, Goto, Idle, taken, Executing
  <2> QED
    BY <2>1, <2>2 DEF Effect, Stuttered, Took, Keeps
<1>3. CASE YieldTranscode
  <2>1. pc \in Executing /\ status' = status /\ taken' = {}
    BY <1>3 DEF YieldTranscode, Idle, table, taken, Executing
  <2> QED
    BY <2>1, TakenIsUnfinished DEF Effect, GaveBack, Keeps
<1>4. ASSUME NEW o \in Outcomes, RejectUnknown(o)
      PROVE  Effect
  <2>1. /\ cur \in TopId /\ status[cur] = "queued" /\ taken = {} /\ taken' = {}
    BY <1>4 DEF RejectUnknown, Idle, IInv, RowsAndLoopAgree, TypeOK, LoopState, taken, Executing
  <2>2. \/ status' = status
        \/ /\ status'[cur] = "failed"
           /\ \A j \in TopId : j # cur => status'[j] = status[j]
    BY <1>4, <2>1 DEF RejectUnknown, Write, JobMarkFailed, IInv, TypeOK, JobId
  <2> QED
    BY <2>1, <2>2 DEF Effect, Stuttered, Refused, Keeps, NonTerminal, Terminal
<1>5. ASSUME NEW o \in Outcomes, StartJob(o)
      PROVE  Effect
  <2>1. /\ cur \in TopId /\ status[cur] = "queued" /\ taken = {}
    BY <1>5 DEF StartJob, IInv, RowsAndLoopAgree, TypeOK, LoopState, taken, Executing
  <2>2. \/ status' = status
        \/ /\ status'[cur] = "running"
           /\ \A j \in TopId : j # cur => status'[j] = status[j]
    BY <1>5, <2>1 DEF StartJob, Write, JobMarkRunning, IInv, TypeOK, JobId
  <2>3. taken' = {} \/ taken' = {cur}
    BY <1>5 DEF StartJob, Goto, Idle, taken, Executing
  <2>4. Keeps({})
    BY <2>1, <2>2 DEF Keeps, NonTerminal, Terminal
  <2> QED
    BY <2>1, <2>3, <2>4 DEF Effect, Stuttered, Took, NonTerminal
<1>6. ASSUME NEW o \in Outcomes, HandlerFails(o)
      PROVE  Effect
  <2>1. pc \in Executing /\ Idle /\ Write(o, JobMarkFailed(cur))
    BY <1>6 DEF HandlerFails, Executing
  <2>2. cur \in TopId /\ status \in [JobId -> {"absent"} \cup NonTerminal \cup Terminal]
    BY <2>1, TakenIsUnfinished DEF IInv, TypeOK
  <2>3. /\ JobMarkFailed(cur)[cur] \in Terminal
        /\ \A j \in TopId : j # cur => JobMarkFailed(cur)[j] = status[j]
    BY <2>2 DEF JobMarkFailed, JobId, Terminal
  <2> QED
    BY <2>1, <2>2, <2>3, EndEffect DEF Effect
<1>7. ASSUME NEW o \in Outcomes, pc \in Executing, Idle, Write(o, JobMarkDone(cur))
      PROVE  Effect
  <2>1. cur \in TopId /\ cur \in JobId /\ TypeOK
    BY <1>7, TakenIsUnfinished DEF IInv, JobId
  <2>2. /\ JobMarkDone(cur)[cur] \in Terminal
        /\ \A j \in TopId : j # cur => JobMarkDone(cur)[j] = status[j]
    BY <2>1, MarkDoneEffect DEF Terminal
  <2> QED
    BY <1>7, <2>1, <2>2, EndEffect DEF Effect
<1>8. ASSUME NEW o \in Outcomes, FlushBatch(o)
      PROVE  Effect
  <2>1. taken' = taken
    BY <1>8 DEF FlushBatch, taken, Executing
  <2>2. nextSub \in Nat /\ nextSub >= MaxTop + 1 /\ status \in [JobId -> {"absent"} \cup NonTerminal \cup Terminal]
    BY BoundsAssumption DEF IInv, TypeOK
  <2>3. PICK n : JobCreateSubJobBatch(o, n)
    BY <1>8 DEF FlushBatch
  <2>4. \A j \in TopId : j \in JobId /\ j \notin nextSub..(nextSub + n - 1)
    BY <2>2, BoundsAssumption DEF TopId, JobId
  <2>5. \A j \in TopId : status'[j] = status[j]
    BY <2>3, <2>4 DEF JobCreateSubJobBatch, table
  <2> QED
    BY <2>1, <2>5 DEF Effect, Stuttered, Keeps
<1>9. ASSUME NEW o \in Outcomes, AfterFlush(o)
      PROVE  Effect
  <2>1. pc \in Executing /\ pc = "flush"
    BY <1>9 DEF AfterFlush, Executing
  <2>2. CASE Write(o, JobMarkRunningSubJobs(cur)) /\ Goto("claim")
    <3>1. taken' = taken
      BY <2>1, <2>2 DEF Goto, taken, Executing
    <3>2. cur \in TopId /\ status[cur] \in NonTerminal
      BY <2>1, TakenIsUnfinished
    <3>3. \/ status' = status
          \/ /\ status'[cur] = "running_sub_jobs"
             /\ \A j \in TopId : j # cur => status'[j] = status[j]
      BY <2>2, <3>2 DEF Write, JobMarkRunningSubJobs, IInv, TypeOK, JobId
    <3> QED
      BY <3>1, <3>2, <3>3 DEF Effect, Stuttered, Keeps, NonTerminal, Terminal
  <2> QED
    BY <1>7, <1>9, <2>1, <2>2 DEF AfterFlush
<1>10. ASSUME NEW o \in Outcomes, Claim(o)
       PROVE  Effect
  <2>1. taken' = taken
    BY <1>10 DEF Claim, Goto, taken, Executing
  <2>2. \A j \in TopId : j \in JobId /\ j \notin Claimable(cur)
    BY ClaimableAreChildren, Constants
  <2>3. \A j \in TopId : status'[j] = status[j]
    BY <1>10, <2>2 DEF Claim, Write
  <2> QED
    BY <2>1, <2>3 DEF Effect, Stuttered, Keeps
<1>11. ASSUME NEW o \in Outcomes, NEW s \in batch, RunSubJob(s, o)
       PROVE  Effect
  <2>1. taken' = taken
    BY <1>11 DEF RunSubJob, taken, Executing
  <2>2. s \in JobId /\ s \notin TopId /\ TypeOK
    BY Constants DEF IInv, TypeOK
  <2>3. \A j \in TopId : JobMarkDone(s)[j] = status[j] /\ JobMarkFailed(s)[j] = status[j]
    BY <2>2, MarkDoneEffect DEF JobMarkFailed, TypeOK, JobId
  <2>4. \A j \in TopId : status'[j] = status[j]
    BY <1>11, <2>3 DEF RunSubJob, Write
  <2> QED
    BY <2>1, <2>4 DEF Effect, Stuttered, Keeps
<1>12. ASSUME NEW o \in Outcomes, FinishParent(o)
       PROVE  Effect
  BY <1>7, <1>12 DEF FinishParent, Executing
<1> QED
  BY <1>1, <1>2, <1>3, <1>4, <1>5, <1>6, <1>8, <1>9, <1>10, <1>11, <1>12 DEF DispatcherStep

\* Every step of the system has one of the six effects.
LEMMA StepEffect ==
  ASSUME IInv, [Next]_vars
  PROVE  Effect
<1>1. CASE UNCHANGED vars
  BY <1>1 DEF vars, table, loop, taken, Effect, Stuttered, Keeps
<1>2. CASE DispatcherStep
  BY <1>2, DispatcherEffect
<1>3. CASE PollTick \/ Register \/ Pause \/ Resume
  BY <1>3 DEF PollTick, Register, Pause, Resume, Goto, table, loop, taken, Executing,
              Effect, Stuttered, Keeps
<1>4. ASSUME NEW q \in Requeues, NEW o \in Outcomes, HandlerRequeues(q, o)
      PROVE  Effect
  <2>1. q \in Request /\ JobCreate(o, q) /\ taken' = taken
    BY <1>4, TypesAssumption DEF HandlerRequeues, loop, taken
  <2>2. nextTop \in TopId
    BY <2>1, JobCreateEffect DEF IInv, RowsAndLoopAgree
  <2> QED
    BY <2>1, <2>2, CreateEffect DEF Effect
<1>5. ASSUME NEW c \in Clients, ClientStep(c)
      PROVE  Effect
  <2>1. ASSUME NEW o \in Outcomes, EnqueueRow(c, o)
        PROVE  Effect
    <3>1. req[c] \in Request /\ JobCreate(o, req[c]) /\ taken' = taken
      BY <2>1 DEF EnqueueRow, loop, taken, IInv, RowsAndLoopAgree, HeldBorn
    <3>2. nextTop \in TopId
      BY <3>1, JobCreateEffect DEF IInv, RowsAndLoopAgree
    <3> QED
      BY <3>1, <3>2, CreateEffect DEF Effect
  <2>2. CASE EnqueueEntry(c) \/ \E q \in Requests : CheckActive(c, q)
    BY <2>2 DEF EnqueueEntry, CheckActive, table, loop, taken, Effect, Stuttered, Keeps
  <2> QED
    BY <1>5, <2>1, <2>2 DEF ClientStep
<1>6. CASE Boot
  <2>1. taken' = taken
    BY <1>6 DEF Boot, Goto, taken, Executing
  <2>2. \A j \in TopId : status'[j] = IF status[j] = "running" THEN "queued" ELSE status[j]
    BY <1>6 DEF Boot, JobsResetStuck, JobId
  <2> QED
    BY <2>1, <2>2 DEF Effect, Stuttered, Keeps, NonTerminal, Terminal
<1>7. CASE Crash
  <2>1. taken' = {} /\ status' = status
    BY <1>7 DEF Crash, table, taken, Executing
  <2>2. CASE taken = {}
    BY <2>1, <2>2 DEF Effect, Stuttered, Keeps
  <2>3. CASE pc \in Executing
    BY <2>1, <2>3, TakenIsUnfinished DEF Effect, GaveBack, Keeps
  <2> QED
    BY <2>2, <2>3 DEF taken
<1> QED
  BY <1>1, <1>2, <1>3, <1>4, <1>5, <1>6, <1>7 DEF Next

\* A finished top-level job keeps its status: whatever is in the in-memory queue,
\* twice or from before a restart, no finished job is run or failed again.
THEOREM FinishedStaysFinished == Spec => TerminalIsFinal
<1>1. IInv /\ [Next]_vars => [\A j \in TopId : status[j] \in Terminal => status'[j] = status[j]]_vars
  <2> SUFFICES ASSUME IInv, [Next]_vars, NEW j \in TopId, status[j] \in Terminal
               PROVE  status'[j] = status[j]
    OBVIOUS
  <2>1. status[j] \notin NonTerminal /\ status[j] # "absent"
    BY DEF Terminal, NonTerminal
  <2>2. Effect
    BY StepEffect
  <2> QED
    BY <2>1, <2>2 DEF Effect, Stuttered, Submitted, Took, GaveBack, Finished, Refused, Keeps
<1> QED
  BY <1>1, Invariance, PTL DEF Spec, TerminalIsFinal

\* Outside S, Keeps(S) leaves the unfinished and the finished rows what they are.
LEMMA SidesKept ==
  ASSUME NEW S, Keeps(S)
  PROVE  /\ Unfinished' \ S = Unfinished \ S
         /\ Ended' \ S = Ended \ S
BY DEF Keeps, Unfinished, Ended

\* No row is on both sides.
LEMMA SidesDiffer ==
  /\ Unfinished \cap Ended = {}
  /\ \A j \in TopId : /\ j \in Unfinished <=> status[j] \in NonTerminal
                      /\ j \in Ended <=> status[j] \in Terminal
                      /\ status[j] = "absent" => j \notin Unfinished \cup Ended
BY DEF Unfinished, Ended, NonTerminal, Terminal

\* The dispatcher implements the sequential queue: one job executed at a time,
\* only while unfinished, through crashes, failing and unanswered statements.
THEOREM Implements == Spec => ImplementsSequentialQueue
<1>1. Init => Promise!Init
  <2> SUFFICES ASSUME Init PROVE Promise!Init
    OBVIOUS
  <2>1. \A j \in TopId : status[j] = "absent"
    BY DEF Init, JobId
  <2>2. taken = {}
    BY DEF Init, taken, Executing
  <2> QED
    BY <2>1, <2>2 DEF Promise!Init, NonTerminal, Terminal
<1>2. IInv /\ [Next]_vars => [Promise!Next]_(Promise!vars)
  <2> SUFFICES ASSUME IInv, [Next]_vars PROVE [Promise!Next]_(Promise!vars)
    OBVIOUS
  <2>1. Effect
    BY StepEffect
  <2>2. taken \subseteq Unfinished
    BY TakenIsUnfinished DEF taken, Unfinished
  <2>3. \A j \in TopId : status'[j] \in NonTerminal <=> j \in Unfinished'
    BY DEF Unfinished
  <2>4. \A j \in TopId : status'[j] \in Terminal <=> j \in Ended'
    BY DEF Ended
  <2>5. Unfinished' \cap Ended' = {}
    BY DEF Unfinished, Ended, NonTerminal, Terminal
  <2>6. CASE Stuttered
    <3>1. Unfinished' = Unfinished /\ Ended' = Ended /\ taken' = taken
      BY <2>6, SidesKept DEF Stuttered
    <3> QED
      BY <3>1 DEF Promise!vars, Unfinished, Ended
  <2>7. ASSUME NEW j \in TopId, Submitted(j)
        PROVE  Promise!Submit(j)
    <3>1. /\ Unfinished' = Unfinished \cup {j} /\ Ended' = Ended
          /\ taken' = taken /\ j \notin Unfinished \cup Ended
      BY <2>3, <2>5, <2>7, SidesKept, SidesDiffer DEF Submitted
    <3>2. /\ Unfinished' \ taken' = (Unfinished \ taken) \cup {j}
          /\ j \notin (Unfinished \ taken) \cup taken \cup Ended
      BY <2>2, <3>1
    <3> QED
      BY <3>1, <3>2 DEF Promise!Submit, Unfinished, Ended
  <2>8. ASSUME NEW j \in TopId, Took(j)
        PROVE  Promise!Take(j)
    <3>1. /\ Unfinished' = Unfinished /\ Ended' = Ended
          /\ taken = {} /\ taken' = {j} /\ j \in Unfinished
      BY <2>8, SidesKept, SidesDiffer DEF Took
    <3>2. Unfinished' \ taken' = (Unfinished \ taken) \ {j} /\ j \in Unfinished \ taken
      BY <3>1
    <3> QED
      BY <3>1, <3>2 DEF Promise!Take, Unfinished, Ended
  <2>9. ASSUME NEW j \in TopId, GaveBack(j)
        PROVE  Promise!GiveBack(j)
    <3>1. /\ Unfinished' = Unfinished /\ Ended' = Ended
          /\ taken = {j} /\ taken' = {} /\ j \in Unfinished
      BY <2>9, SidesKept, SidesDiffer DEF GaveBack
    <3>2. Unfinished' \ taken' = (Unfinished \ taken) \cup {j} /\ j \in taken
      BY <3>1
    <3> QED
      BY <3>1, <3>2 DEF Promise!GiveBack, Unfinished, Ended
  <2>10. ASSUME NEW j \in TopId, Finished(j)
         PROVE  Promise!Finish(j)
    <3>1. /\ Unfinished' = Unfinished \ {j} /\ Ended' = Ended \cup {j}
          /\ taken = {j} /\ taken' = {}
      BY <2>4, <2>5, <2>10, SidesKept, SidesDiffer DEF Finished
    <3>2. Unfinished' \ taken' = Unfinished \ taken /\ j \in taken
      BY <3>1
    <3> QED
      BY <3>1, <3>2 DEF Promise!Finish, Unfinished, Ended
  <2>11. ASSUME NEW j \in TopId, Refused(j)
         PROVE  Promise!Refuse(j)
    <3>1. /\ Unfinished' = Unfinished \ {j} /\ Ended' = Ended \cup {j}
          /\ taken = {} /\ taken' = {} /\ j \in Unfinished
      BY <2>4, <2>5, <2>11, SidesKept, SidesDiffer DEF Refused
    <3>2. Unfinished' \ taken' = (Unfinished \ taken) \ {j} /\ j \in Unfinished \ taken
      BY <3>1
    <3> QED
      BY <3>1, <3>2 DEF Promise!Refuse, Unfinished, Ended
  <2> QED
    BY <2>1, <2>6, <2>7, <2>8, <2>9, <2>10, <2>11 DEF Effect, Promise!Next
<1> QED
  BY <1>1, <1>2, Invariance, PTL DEF Spec, ImplementsSequentialQueue, Promise!Spec

-----------------------------------------------------------------------------
(* What the loop has started.  A failing statement may leave a row in running, *)
(* so the first two parts are about runs without one.                          *)

\* The running top-level row is the one the goroutine has in hand; after a crash
\* there is still only one, until Boot queues it again.
StartedIsCurrent ==
  faults = 0 =>
    \A j \in TopId : status[j] = "running" =>
      IF pc = "off" THEN \A i \in TopId : status[i] = "running" => i = j
                    ELSE j = cur /\ pc \in {"handler", "flush"}

\* A job picked before the pause has not been counted when it is about to start.
PauseCounted ==
  /\ pausedStarts \in 0..1
  /\ pc = "fetch" \/ ~paused => pausedStarts = 0

LoopInv == StartedIsCurrent /\ RunningSubJobIsInBatch /\ PauseCounted

\* Without a failing statement, each one so far has been executed and answered.
LEMMA NoFaultYet ==
  ASSUME TypeOK, NEW o \in Outcomes, Spend(o), faults' = 0
  PROVE  faults = 0 /\ o = "ok" /\ Committed(o) /\ Answered(o)
BY BoundsAssumption DEF TypeOK, Outcomes, Spend, Committed, Answered

\* A step that leaves the loop where it is, and every row that was there.
LEMMA LoopKept ==
  ASSUME IInv, LoopInv, UNCHANGED loop, faults' = 0 => faults = 0,
         \A j \in JobId : status'[j] = "running" => status[j] = "running"
  PROVE  StartedIsCurrent' /\ RunningSubJobIsInBatch'
BY DEF LoopInv, StartedIsCurrent, RunningSubJobIsInBatch, loop, JobId

\* A step between jobs: no row is in hand before it nor after it, or only picked.
LEMMA LoopMoves ==
  ASSUME IInv, LoopInv, pc \notin {"off", "handler", "flush", "batch"}, pc' # "off",
         faults' = 0 => faults = 0, batch = {}, batch' = {},
         \A j \in JobId : status'[j] = "running" => status[j] = "running"
  PROVE  StartedIsCurrent' /\ RunningSubJobIsInBatch'
BY DEF LoopInv, StartedIsCurrent, RunningSubJobIsInBatch, JobId

\* A write that ends the row in hand, or leaves it queued: nothing runs after it.
LEMMA LoopEnds ==
  ASSUME IInv, LoopInv, pc \in {"fetch", "handler", "flush", "finish"}, Idle,
         NEW o \in Outcomes, Spend(o), NEW new, Write(o, new), new[cur] # "running",
         \A j \in JobId : new[j] = "running" => status[j] = "running"
  PROVE  StartedIsCurrent' /\ RunningSubJobIsInBatch'
<1> SUFFICES ASSUME faults' = 0 PROVE StartedIsCurrent' /\ RunningSubJobIsInBatch'
  BY DEF StartedIsCurrent, RunningSubJobIsInBatch
<1>1. faults = 0 /\ status' = new
  BY NoFaultYet DEF IInv, Write
<1>2. \A j \in TopId : status'[j] # "running"
  BY <1>1, Constants DEF LoopInv, StartedIsCurrent
<1>3. \A s \in SubId : status'[s] # "running"
  BY <1>1, Constants DEF LoopInv, RunningSubJobIsInBatch, IInv, RowsAndLoopAgree, LoopState
<1> QED
  BY <1>2, <1>3 DEF StartedIsCurrent, RunningSubJobIsInBatch

\* JobMarkRunning of the picked row, when none other was running.
LEMMA StartJobLoop ==
  ASSUME NEW o \in Outcomes, IInv, LoopInv, StartJob(o)
  PROVE  StartedIsCurrent' /\ RunningSubJobIsInBatch'
<1> SUFFICES ASSUME faults' = 0 PROVE StartedIsCurrent' /\ RunningSubJobIsInBatch'
  BY DEF StartedIsCurrent, RunningSubJobIsInBatch
<1>1. /\ faults = 0 /\ pc = "fetch" /\ pc' = "handler" /\ cur' = cur /\ batch' = batch
      /\ status' = [status EXCEPT ![cur] = "running"]
  BY NoFaultYet DEF StartJob, Write, JobMarkRunning, Goto, IInv
<1>2. cur \in TopId /\ batch = {}
  BY <1>1 DEF IInv, RowsAndLoopAgree, TypeOK, LoopState
<1>3. \A j \in TopId : j # cur => status'[j] # "running"
  BY <1>1, Constants DEF IInv, TypeOK, LoopInv, StartedIsCurrent
<1>4. \A s \in SubId : status'[s] = status[s]
  BY <1>1, <1>2, Constants DEF IInv, TypeOK
<1> QED
  BY <1>1, <1>2, <1>3, <1>4 DEF StartedIsCurrent, LoopInv, RunningSubJobIsInBatch

\* The parent leaves running before its sub-jobs are claimed.
LEMMA AfterFlushLoop ==
  ASSUME NEW o \in Outcomes, IInv, LoopInv, AfterFlush(o)
  PROVE  StartedIsCurrent' /\ RunningSubJobIsInBatch'
<1>0. cur \in TopId /\ cur \in JobId /\ cur \notin SubId /\ batch = {}
  BY Constants DEF AfterFlush, IInv, RowsAndLoopAgree, TypeOK, LoopState
<1>1. CASE flushed /\ type[cur] \in SupportsSubjobs
  <2> SUFFICES ASSUME faults' = 0 PROVE StartedIsCurrent' /\ RunningSubJobIsInBatch'
    BY DEF StartedIsCurrent, RunningSubJobIsInBatch
  <2>1. /\ faults = 0 /\ pc = "flush" /\ pc' = "claim" /\ batch' = batch
        /\ status' = [status EXCEPT ![cur] = "running_sub_jobs"]
    BY <1>1, NoFaultYet DEF AfterFlush, Write, JobMarkRunningSubJobs, Goto, IInv
  <2>2. \A j \in TopId : status'[j] # "running"
    BY <1>0, <2>1, Constants DEF IInv, TypeOK, LoopInv, StartedIsCurrent
  <2>3. \A s \in SubId : status'[s] # "running"
    BY <1>0, <2>1, Constants DEF IInv, TypeOK, LoopInv, RunningSubJobIsInBatch
  <2> QED
    BY <2>2, <2>3 DEF StartedIsCurrent, RunningSubJobIsInBatch
<1>2. CASE ~(flushed /\ type[cur] \in SupportsSubjobs)
  <2>1. /\ JobMarkDone(cur)[cur] # "running"
        /\ \A j \in JobId : JobMarkDone(cur)[j] = "running" => status[j] = "running"
    BY <1>0 DEF JobMarkDone
  <2>2. pc = "flush" /\ Idle /\ Spend(o) /\ Write(o, JobMarkDone(cur))
    BY <1>2 DEF AfterFlush
  <2> QED
    BY <2>1, <2>2, LoopEnds
<1> QED
  BY <1>1, <1>2

\* A claim sets running exactly the sub-jobs whose goroutines it starts.
LEMMA ClaimLoop ==
  ASSUME NEW o \in Outcomes, IInv, LoopInv, Claim(o)
  PROVE  StartedIsCurrent' /\ RunningSubJobIsInBatch'
<1> DEFINE S == Claimable(cur)
<1> SUFFICES ASSUME faults' = 0 PROVE StartedIsCurrent' /\ RunningSubJobIsInBatch'
  BY DEF StartedIsCurrent, RunningSubJobIsInBatch
<1>1. faults = 0 /\ pc = "claim" /\ Answered(o) /\ Committed(o)
  BY NoFaultYet DEF Claim, IInv
<1>2. /\ status' = [j \in JobId |-> IF j \in S THEN "running" ELSE status[j]]
      /\ pc' \in {"batch", "finish"} /\ (S # {} => batch' = S) /\ (S = {} => batch' = batch)
  BY <1>1 DEF Claim, Write, Goto
<1>3. S \subseteq SubId /\ batch = {}
  BY <1>1, ClaimableAreChildren DEF IInv, RowsAndLoopAgree, LoopState
<1> HIDE DEF S
<1>4. \A j \in TopId : status'[j] # "running"
  BY <1>1, <1>2, <1>3, Constants DEF LoopInv, StartedIsCurrent
<1>5. \A s \in SubId : status'[s] = "running" => s \in batch'
  BY <1>1, <1>2, <1>3, Constants DEF LoopInv, RunningSubJobIsInBatch
<1> QED
  BY <1>4, <1>5 DEF StartedIsCurrent, RunningSubJobIsInBatch

\* A sub-job leaves the batch when its row has left running.
LEMMA RunSubJobLoop ==
  ASSUME NEW o \in Outcomes, NEW s \in batch, IInv, LoopInv, RunSubJob(s, o)
  PROVE  StartedIsCurrent' /\ RunningSubJobIsInBatch'
<1> SUFFICES ASSUME faults' = 0 PROVE StartedIsCurrent' /\ RunningSubJobIsInBatch'
  BY DEF StartedIsCurrent, RunningSubJobIsInBatch
<1>1. /\ faults = 0 /\ pc = "batch" /\ pc' \in {"claim", "batch"} /\ batch' = batch \ {s}
      /\ status' = JobMarkDone(s) \/ status' = [status EXCEPT ![s] = "failed"]
  BY NoFaultYet DEF RunSubJob, Write, JobMarkFailed, IInv
<1>2. s \in SubId /\ s \in JobId
  BY Constants DEF IInv, TypeOK
<1>3. /\ status'[s] # "running"
      /\ \A j \in JobId : status'[j] = "running" => status[j] = "running"
  BY <1>1, <1>2 DEF JobMarkDone, IInv, TypeOK
<1>4. \A j \in TopId : status'[j] # "running"
  BY <1>1, <1>3, Constants DEF LoopInv, StartedIsCurrent
<1>5. \A t \in SubId : status'[t] = "running" => t \in batch'
  BY <1>1, <1>3, Constants DEF LoopInv, RunningSubJobIsInBatch
<1> QED
  BY <1>4, <1>5 DEF StartedIsCurrent, RunningSubJobIsInBatch

\* INSERT adds queued rows only.
LEMMA CreateRunsNone ==
  ASSUME NEW o, NEW q, IInv, JobCreate(o, q)
  PROVE  \A j \in JobId : status'[j] = "running" => status[j] = "running"
BY DEF JobCreate, IInv, TypeOK

\* Every step of the dispatcher keeps what it has started in hand.
LEMMA DispatcherLoop ==
  ASSUME IInv, LoopInv, DispatcherStep
  PROVE  StartedIsCurrent' /\ RunningSubJobIsInBatch'
<1>0. /\ pc # "batch" => batch = {}
      /\ pc = "fetch" => cur \in JobId
      /\ pc \in {"handler", "flush", "claim", "batch", "finish"} => cur \in TopId /\ cur \in JobId
  BY Constants DEF IInv, RowsAndLoopAgree, TypeOK, LoopState
<1>1. CASE WakeUp \/ ProcessNext
  BY <1>0, <1>1, LoopMoves DEF WakeUp, ProcessNext, Goto, Idle, table
<1>2. CASE LoadFromDB
  <2>1. faults' = 0 => faults = 0
    BY <1>2, BoundsAssumption DEF LoadFromDB, IInv, TypeOK
  <2> QED
    BY <1>0, <1>2, <2>1, LoopMoves DEF LoadFromDB, Goto, table
<1>3. CASE DropEntry
  <2>1. faults' = 0 => faults = 0
    BY <1>3, BoundsAssumption DEF DropEntry, IInv, TypeOK
  <2> QED
    BY <1>0, <1>3, <2>1, LoopMoves DEF DropEntry, Idle, table
<1>4. CASE ResumeSubJobs \/ YieldTranscode
  BY <1>0, <1>4, LoopMoves DEF ResumeSubJobs, YieldTranscode, Goto, Idle, table
<1>5. CASE HandlerReturns
  BY <1>0, <1>5 DEF HandlerReturns, table, LoopInv, StartedIsCurrent, RunningSubJobIsInBatch
<1>6. ASSUME NEW o \in Outcomes, RejectUnknown(o) \/ HandlerFails(o)
      PROVE  StartedIsCurrent' /\ RunningSubJobIsInBatch'
  <2>1. /\ JobMarkFailed(cur)[cur] # "running"
        /\ \A j \in JobId : JobMarkFailed(cur)[j] = "running" => status[j] = "running"
    BY <1>0, <1>6 DEF JobMarkFailed, RejectUnknown, HandlerFails, IInv, TypeOK
  <2>2. /\ pc \in {"fetch", "handler"} /\ Idle /\ Spend(o)
        /\ Write(o, JobMarkFailed(cur))
    BY <1>6 DEF RejectUnknown, HandlerFails
  <2> QED
    BY <2>1, <2>2, LoopEnds
<1>7. ASSUME NEW o \in Outcomes, FinishParent(o)
      PROVE  StartedIsCurrent' /\ RunningSubJobIsInBatch'
  <2>1. /\ JobMarkDone(cur)[cur] # "running"
        /\ \A j \in JobId : JobMarkDone(cur)[j] = "running" => status[j] = "running"
    BY <1>0, <1>7 DEF JobMarkDone, FinishParent
  <2>2. pc = "finish" /\ Idle /\ Spend(o) /\ Write(o, JobMarkDone(cur))
    BY <1>7 DEF FinishParent
  <2> QED
    BY <2>1, <2>2, LoopEnds
<1>8. ASSUME NEW o \in Outcomes, FlushBatch(o)
      PROVE  StartedIsCurrent' /\ RunningSubJobIsInBatch'
  <2>1. /\ UNCHANGED <<pc, cur, batch>>
        /\ faults' = 0 => faults = 0
    BY <1>8, NoFaultYet DEF FlushBatch, IInv
  <2>2. \A j \in JobId : status'[j] = "running" => status[j] = "running"
    BY <1>8 DEF FlushBatch, JobCreateSubJobBatch, table
  <2> QED
    BY <2>1, <2>2, Constants DEF LoopInv, StartedIsCurrent, RunningSubJobIsInBatch
<1>9. ASSUME NEW o \in Outcomes, StartJob(o) \/ AfterFlush(o) \/ Claim(o)
      PROVE  StartedIsCurrent' /\ RunningSubJobIsInBatch'
  BY <1>9, StartJobLoop, AfterFlushLoop, ClaimLoop
<1>10. ASSUME NEW o \in Outcomes, NEW s \in batch, RunSubJob(s, o)
       PROVE  StartedIsCurrent' /\ RunningSubJobIsInBatch'
  BY <1>10, RunSubJobLoop
<1> QED
  BY <1>1, <1>2, <1>3, <1>4, <1>5, <1>6, <1>7, <1>8, <1>9, <1>10 DEF DispatcherStep

\* A job is counted when it starts while paused; the next one is picked only after
\* Resume has set the count back.
LEMMA PauseStep ==
  ASSUME IInv, PauseCounted, [Next]_vars
  PROVE  PauseCounted'
<1>1. CASE ProcessNext
  BY <1>1 DEF ProcessNext, Idle, PauseCounted
<1>2. ASSUME NEW o \in Outcomes, StartJob(o)
      PROVE  PauseCounted'
  <2>1. pausedStarts = 0 /\ ((pausedStarts' = pausedStarts + 1 /\ paused) \/ pausedStarts' = pausedStarts)
    BY <1>2 DEF StartJob, PauseCounted
  <2>2. pc' # "fetch" /\ paused' = paused
    BY <1>2 DEF StartJob, Goto, Idle, memory
  <2> QED
    BY <2>1, <2>2 DEF PauseCounted
<1>3. CASE Pause \/ Resume \/ Crash
  BY <1>3 DEF Pause, Resume, Crash, loop, PauseCounted
<1>4. CASE UNCHANGED <<paused, pausedStarts>> /\ (pc' = "fetch" => pc = "fetch")
  BY <1>4 DEF PauseCounted
<1>5. CASE WakeUp \/ LoadFromDB \/ DropEntry \/ ResumeSubJobs \/ HandlerReturns \/ YieldTranscode
           \/ PollTick \/ Boot \/ Register \/ UNCHANGED vars
  BY <1>4, <1>5 DEF WakeUp, LoadFromDB, DropEntry, ResumeSubJobs, HandlerReturns, YieldTranscode,
                    PollTick, Boot, Register, Goto, Idle, memory, loop, vars
<1>6. ASSUME NEW o \in Outcomes,
             RejectUnknown(o) \/ HandlerFails(o) \/ FlushBatch(o) \/ FinishParent(o)
      PROVE  PauseCounted'
  BY <1>4, <1>6 DEF RejectUnknown, HandlerFails, FlushBatch, FinishParent, Idle, memory
<1>7. ASSUME NEW o \in Outcomes, AfterFlush(o) \/ Claim(o) \/ \E s \in batch : RunSubJob(s, o)
      PROVE  PauseCounted'
  BY <1>4, <1>7 DEF AfterFlush, Claim, RunSubJob, Goto, Idle, memory
<1>8. ASSUME NEW q, NEW o \in Outcomes, HandlerRequeues(q, o)
      PROVE  PauseCounted'
  BY <1>4, <1>8 DEF HandlerRequeues, loop
<1>9. ASSUME NEW c \in Clients, ClientStep(c)
      PROVE  PauseCounted'
  BY <1>4, <1>9 DEF ClientStep, CheckActive, EnqueueRow, EnqueueEntry, memory, loop
<1> QED
  BY <1>1, <1>2, <1>3, <1>5, <1>6, <1>7, <1>8, <1>9 DEF Next, DispatcherStep

\* Every step keeps what the loop has started in hand.
LEMMA LoopStep == IInv /\ LoopInv /\ [Next]_vars => LoopInv'
<1> SUFFICES ASSUME IInv, LoopInv, [Next]_vars PROVE LoopInv'
  OBVIOUS
<1> SUFFICES StartedIsCurrent' /\ RunningSubJobIsInBatch'
  BY PauseStep DEF LoopInv
<1>1. CASE UNCHANGED vars \/ Register \/ Pause \/ Resume
  BY <1>1, LoopKept DEF Register, Pause, Resume, vars, table
<1>2. CASE DispatcherStep
  BY <1>2, DispatcherLoop
<1>3. CASE PollTick
  <2>1. batch = {}
    BY <1>3 DEF PollTick, IInv, RowsAndLoopAgree, LoopState
  <2> QED
    BY <1>3, <2>1, LoopMoves DEF PollTick, Goto, table
<1>4. ASSUME NEW q \in Requeues, NEW o \in Outcomes, HandlerRequeues(q, o)
      PROVE  StartedIsCurrent' /\ RunningSubJobIsInBatch'
  <2>1. faults' = 0 => faults = 0
    BY <1>4, NoFaultYet, BoundsAssumption DEF HandlerRequeues, IInv, TypeOK
  <2> QED
    BY <1>4, <2>1, LoopKept, CreateRunsNone DEF HandlerRequeues
<1>5. ASSUME NEW c \in Clients, ClientStep(c)
      PROVE  StartedIsCurrent' /\ RunningSubJobIsInBatch'
  <2>1. ASSUME NEW o \in Outcomes, EnqueueRow(c, o)
        PROVE  StartedIsCurrent' /\ RunningSubJobIsInBatch'
    <3>1. faults' = 0 => faults = 0
      BY <2>1, NoFaultYet DEF EnqueueRow, IInv
    <3> QED
      BY <2>1, <3>1, LoopKept, CreateRunsNone DEF EnqueueRow
  <2>2. CASE EnqueueEntry(c) \/ \E q \in Requests : CheckActive(c, q)
    BY <2>2, LoopKept DEF EnqueueEntry, CheckActive, table
  <2> QED
    BY <1>5, <2>1, <2>2 DEF ClientStep
<1>6. CASE Boot
  <2>1. \A j \in JobId : status'[j] # "running"
    BY <1>6 DEF Boot, JobsResetStuck
  <2> QED
    BY <2>1 DEF StartedIsCurrent, RunningSubJobIsInBatch, JobId
<1>7. CASE Crash
  BY <1>7 DEF Crash, table, LoopInv, StartedIsCurrent, RunningSubJobIsInBatch
<1> QED
  BY <1>1, <1>2, <1>3, <1>4, <1>5, <1>6, <1>7 DEF Next

\* What the loop has started is in its hands, in every reachable state.
THEOREM LoopInvariance == Spec => []LoopInv
<1>1. Init => LoopInv
  BY DEF Init, LoopInv, StartedIsCurrent, RunningSubJobIsInBatch, PauseCounted, JobId
<1> QED
  BY <1>1, LoopStep, Invariance, PTL DEF Spec

\* "runs jobs sequentially (one top-level at a time)": with no failing statement, the
\* table shows it too, across crashes and whatever is in the in-memory queue.
THEOREM OneRowRunning == Spec => []OneRunning
<1>1. LoopInv => OneRunning
  BY DEF LoopInv, StartedIsCurrent, OneRunning
<1> QED
  BY <1>1, LoopInvariance, PTL

\* A crash leaves no sub-job in running once the server is up again.
THEOREM RunningSubJobsAreRun == Spec => []RunningSubJobIsInBatch
<1>1. LoopInv => RunningSubJobIsInBatch
  BY DEF LoopInv
<1> QED
  BY <1>1, LoopInvariance, PTL

\* Pause lets at most the top-level job that is already picked start, until Resume;
\* the sub-job batches of a job in hand go on, and are not counted.
THEOREM PauseHolds == Spec => []AtMostOneStartWhilePaused
<1>1. LoopInv => AtMostOneStartWhilePaused
  BY DEF LoopInv, PauseCounted, AtMostOneStartWhilePaused
<1> QED
  BY <1>1, LoopInvariance, PTL

-----------------------------------------------------------------------------
(* No sub-job is lost while nothing crashes and no statement fails. The parts *)
(* of the invariant say whose children a JobMarkDone may take with it.        *)

\* Children belong to a row that has been started, and are rows of this process.
RowsWhole ==
  /\ \A s \in SubId : status[s] # "running_sub_jobs"
  /\ \A p \in TopId : status[p] \in {"absent", "queued"} => Children(p) = {}
  /\ pc = "off" => \A s \in SubId : status[s] = "absent"

\* The row in hand has no children before they are flushed, has a type that waits
\* for them afterwards, and has only ended ones when it is to be done.
LoopWhole ==
  /\ flushed => pc \in {"flush", "claim", "batch", "finish"}
  /\ pc = "handler" \/ (pc = "flush" /\ ~flushed) => Children(cur) = {}
  /\ pc = "flush" /\ (flushed \/ buf # <<>>) => type[cur] \in SupportsSubjobs
  /\ pc = "finish" => \A s \in Children(cur) : status[s] \in Terminal

SubJobsWhole == crashes = 0 /\ faults = 0 => RowsWhole /\ LoopWhole

\* A set of ids has a smallest one.
LEMMA FirstId ==
  ASSUME NEW S \in SUBSET Nat, S # {}
  PROVE  \E x \in S : \A y \in S : ~(y < x)
<1>1. IsWellFoundedOn(OpToRel(<, Nat), Nat)
  BY NatLessThanWellFounded
<1>2. PICK x \in S : \A y \in S : ~(<<y, x>> \in OpToRel(<, Nat))
  BY <1>1, WFMin
<1>3. ASSUME NEW y \in S PROVE ~(y < x)
  <2>1. x \in Nat /\ y \in Nat
    OBVIOUS
  <2> QED
    BY <1>2, <2>1 DEF OpToRel
<1> QED
  BY <1>3

\* JobClaimSubJobBatch comes back empty only when no child is queued.
LEMMA EmptyClaim ==
  ASSUME NEW p, Claimable(p) = {}
  PROVE  \A s \in Children(p) : status[s] # "queued"
<1> DEFINE waiting == {s \in Children(p) : status[s] = "queued"}
<1> SUFFICES ASSUME waiting # {} PROVE FALSE
  OBVIOUS
<1>1. waiting \in SUBSET Nat
  BY Constants DEF Children
<1>2. PICK x \in waiting : \A y \in waiting : ~(y < x)
  BY <1>1, FirstId
<1>3. {t \in waiting : t < x} = {}
  BY <1>2
<1>4. Cardinality({t \in waiting : t < x}) < ClaimLimit
  BY <1>3, FS_EmptySet, BoundsAssumption
<1>5. x \in Claimable(p)
  BY <1>4 DEF Claimable
<1> QED
  BY <1>5

\* A step that leaves the loop, the sub-jobs and the started rows where they are.
LEMMA WholeKept ==
  ASSUME RowsWhole, LoopWhole, UNCHANGED <<pc, cur, buf, flushed, parent>>,
         \A s \in SubId : status'[s] = status[s],
         \A p \in TopId : status'[p] \in {"absent", "queued"} => status[p] \in {"absent", "queued"},
         pc = "flush" => type'[cur] = type[cur]
  PROVE  (RowsWhole /\ LoopWhole)'
<1>1. \A p : Children(p)' = Children(p)
  BY DEF Children
<1>2. RowsWhole'
  BY <1>1 DEF RowsWhole
<1>3. Children(cur)' = Children(cur)
  BY DEF Children
<1>4. \A s \in Children(cur) : status'[s] = status[s]
  BY DEF Children
<1>5. LoopWhole'
  BY <1>3, <1>4 DEF LoopWhole
<1> QED
  BY <1>2, <1>5

\* A step that adds no child and leads to none of the positions with a demand.
LEMMA WholeMoves ==
  ASSUME RowsWhole, UNCHANGED parent, pc' \in {"idle", "load", "process", "fetch", "claim", "batch"},
         flushed' => pc' \in {"claim", "batch"},
         \A s \in SubId : /\ status'[s] # "running_sub_jobs"
                          /\ status[s] = "absent" => status'[s] = "absent",
         \A p \in TopId : status'[p] \in {"absent", "queued"} => status[p] \in {"absent", "queued"}
  PROVE  (RowsWhole /\ LoopWhole)'
<1>1. \A p \in TopId : Children(p) = {} => Children(p)' = {}
  BY DEF Children
<1>2. RowsWhole'
  BY <1>1 DEF RowsWhole
<1> QED
  BY <1>2 DEF LoopWhole

\* JobMarkDone takes no sub-job with it but the children of its row; a sub-job's row
\* has none.
LEMMA DoneTakes ==
  ASSUME TypeOK, NEW j \in JobId
  PROVE  /\ \A s \in SubId : JobMarkDone(j)[s] \in {status[s], "absent", "done"}
         /\ \A s \in SubId : /\ status[s] = "absent" /\ s # j => JobMarkDone(j)[s] = "absent"
                             /\ JobMarkDone(j)[s] = "absent" /\ status[s] # "absent" => s \in Children(j)
         /\ \A p \in TopId : JobMarkDone(j)[p] \in {"absent", "queued"} => status[p] \in {"absent", "queued"}
         /\ j \in SubId => Children(j) = {}
<1>1. \A s \in Children(j) : s \in SubId /\ status[s] # "absent"
  BY DEF Children
<1>2. \A p \in TopId : p \notin Children(j)
  BY Constants DEF Children
<1>3. j \in SubId => Children(j) = {}
  <2>1. \A s \in SubId : parent[s] \in TopId \cup {0}
    BY DEF TypeOK
  <2> QED
    BY <2>1, Constants DEF Children
<1> QED
  BY <1>1, <1>2, <1>3, Constants DEF JobMarkDone

\* FlushSubJobs adds queued children of the row in hand, and changes nothing else.
LEMMA FlushAdds ==
  ASSUME IInv, NEW o \in Outcomes, FlushBatch(o)
  PROVE  /\ \A s \in SubId : \/ status'[s] = status[s] /\ parent'[s] = parent[s]
                             \/ status'[s] = "queued" /\ parent'[s] = cur
         /\ \A p \in TopId : status'[p] = status[p] /\ type'[p] = type[p]
<1>1. PICK n : JobCreateSubJobBatch(o, n)
  BY DEF FlushBatch
<1>2. nextSub >= MaxTop + 1 /\ nextSub \in Int /\ MaxTop \in Nat
  BY Constants DEF IInv, TypeOK
<1>3. TopId \cap (nextSub..(nextSub + n - 1)) = {}
  BY <1>2 DEF TopId
<1>4. CASE Committed(o)
  <2>1. PICK new : /\ TopId \cap new = {}
                   /\ status' = [j \in JobId |-> IF j \in new THEN "queued" ELSE status[j]]
                   /\ type' = [j \in JobId |-> IF j \in new THEN buf[j - nextSub + 1] ELSE type[j]]
                   /\ parent' = [s \in SubId |-> IF s \in new THEN cur ELSE parent[s]]
    BY <1>1, <1>3, <1>4 DEF JobCreateSubJobBatch
  <2> QED
    BY <2>1 DEF JobId
<1>5. CASE ~Committed(o)
  BY <1>1, <1>5 DEF JobCreateSubJobBatch, table
<1> QED
  BY <1>4, <1>5

\* The row in hand is a top-level one that has been started.
LEMMA InHand ==
  ASSUME IInv
  PROVE  /\ pc \in {"handler", "flush", "claim", "batch", "finish"} => cur \in TopId /\ cur \in JobId
         /\ pc = "fetch" => cur \in TopId /\ cur \in JobId
         /\ pc = "flush" => status[cur] = "running"
         /\ pc \in {"handler", "flush"} => type[cur] \in Type
         /\ pc # "batch" => batch = {}
         /\ batch \subseteq SubId
<1>1. TypeOK /\ LoopState /\ RowsBorn
  BY DEF IInv, RowsAndLoopAgree
<1>2. batch \subseteq SubId
  BY <1>1 DEF TypeOK
<1> QED
  BY <1>1, <1>2, Constants DEF TypeOK, LoopState, RowsBorn

\* Statements of the dispatcher that are answered keep the sub-jobs whole.
LEMMA WholeDispatcher ==
  ASSUME IInv, LoopInv, RowsWhole, LoopWhole, DispatcherStep, faults = 0, faults' = 0
  PROVE  (RowsWhole /\ LoopWhole)'
<1>0. TypeOK /\ status \in [JobId -> {"absent"} \cup NonTerminal \cup Terminal] /\ JobId = TopId \cup SubId
  BY Constants DEF IInv, TypeOK
<1>1. CASE WakeUp \/ LoadFromDB \/ ProcessNext \/ DropEntry \/ ResumeSubJobs \/ YieldTranscode
  <2>1. UNCHANGED table /\ pc' \in {"idle", "load", "process", "fetch", "claim", "batch"}
        /\ (flushed' => pc' \in {"claim", "batch"})
    BY <1>1 DEF WakeUp, LoadFromDB, ProcessNext, DropEntry, ResumeSubJobs, YieldTranscode, Goto, Idle, LoopWhole
  <2> QED
    BY <2>1, WholeMoves DEF table, RowsWhole
<1>2. ASSUME NEW o \in Outcomes, RejectUnknown(o) \/ HandlerFails(o)
      PROVE  (RowsWhole /\ LoopWhole)'
  <2>1. Idle /\ Spend(o) /\ Write(o, JobMarkFailed(cur)) /\ UNCHANGED identity /\ cur \in TopId
    BY <1>2, InHand DEF RejectUnknown, HandlerFails
  <2>2. status' = [status EXCEPT ![cur] = "failed"]
    BY <1>0, <2>1, NoFaultYet DEF Write, JobMarkFailed
  <2> QED
    BY <1>0, <2>1, <2>2, WholeMoves, Constants DEF Idle, identity, RowsWhole
<1>3. ASSUME NEW o \in Outcomes, StartJob(o)
      PROVE  (RowsWhole /\ LoopWhole)'
  <2>1. /\ pc = "fetch" /\ pc' = "handler" /\ cur' = cur /\ flushed' = flushed /\ cur \in TopId
        /\ status[cur] = "queued" /\ status' = [status EXCEPT ![cur] = "running"] /\ UNCHANGED identity
    BY <1>0, <1>3, NoFaultYet, InHand DEF StartJob, Write, JobMarkRunning, Goto
  <2>2. \A s \in SubId : status'[s] = status[s]
    BY <1>0, <2>1, Constants
  <2>3. \A p : Children(p)' = Children(p)
    BY <2>1, <2>2 DEF Children, identity
  <2>4. RowsWhole'
    BY <1>0, <2>1, <2>2, <2>3 DEF RowsWhole
  <2>5. Children(cur)' = {}
    BY <2>1, <2>2 DEF RowsWhole, Children, identity
  <2> QED
    BY <2>1, <2>4, <2>5 DEF LoopWhole
<1>4. CASE HandlerReturns
  <2>1. /\ pc = "handler" /\ pc' = "flush" /\ UNCHANGED <<table, cur, flushed>>
        /\ buf' \in Emits[type[cur]] /\ type[cur] \in Type
    BY <1>4, InHand DEF HandlerReturns
  <2>2. buf' # <<>> => type[cur] \in SupportsSubjobs
    BY <2>1, SubJobsAssumption
  <2>3. ~flushed /\ Children(cur) = {}
    BY <2>1 DEF LoopWhole
  <2>4. Children(cur)' = {} /\ \A p : Children(p)' = Children(p)
    BY <2>1, <2>3 DEF Children, table
  <2>5. RowsWhole'
    BY <2>1, <2>4 DEF RowsWhole, table
  <2> QED
    BY <2>1, <2>2, <2>3, <2>4, <2>5 DEF LoopWhole, table
<1>5. ASSUME NEW o \in Outcomes, FlushBatch(o)
      PROVE  (RowsWhole /\ LoopWhole)'
  <2>1. /\ pc = "flush" /\ pc' = pc /\ cur' = cur /\ buf # <<>> /\ flushed' = TRUE
        /\ cur \in TopId /\ status[cur] = "running"
    BY <1>0, <1>5, NoFaultYet, InHand DEF FlushBatch
  <2>2. /\ \A s \in SubId : \/ status'[s] = status[s] /\ parent'[s] = parent[s]
                            \/ status'[s] = "queued" /\ parent'[s] = cur
        /\ \A p \in TopId : status'[p] = status[p] /\ type'[p] = type[p]
    BY <1>5, FlushAdds
  <2>3. \A p \in TopId : p # cur => Children(p)' \subseteq Children(p)
    BY <2>2 DEF Children
  <2>4. RowsWhole'
    BY <2>1, <2>2, <2>3 DEF RowsWhole
  <2> QED
    BY <2>1, <2>2, <2>4 DEF LoopWhole
<1>6. ASSUME NEW o \in Outcomes, AfterFlush(o)
      PROVE  (RowsWhole /\ LoopWhole)'
  <2>1. pc = "flush" /\ cur \in TopId /\ cur \in JobId /\ Committed(o) /\ UNCHANGED identity
    BY <1>0, <1>6, NoFaultYet, InHand DEF AfterFlush
  <2>2. CASE flushed /\ type[cur] \in SupportsSubjobs
    <3>1. status' = [status EXCEPT ![cur] = "running_sub_jobs"] /\ pc' = "claim"
      BY <1>6, <2>1, <2>2 DEF AfterFlush, Write, JobMarkRunningSubJobs, Goto
    <3> QED
      BY <1>0, <2>1, <3>1, WholeMoves, Constants DEF identity, RowsWhole
  <2>3. CASE ~(flushed /\ type[cur] \in SupportsSubjobs)
    <3>1. status' = JobMarkDone(cur) /\ Idle
      BY <1>6, <2>1, <2>3 DEF AfterFlush, Write
    <3>2. \A s \in SubId : status'[s] # "running_sub_jobs" /\ (status[s] = "absent" => status'[s] = "absent")
      BY <1>0, <2>1, <3>1, DoneTakes, Constants DEF RowsWhole
    <3>3. \A p \in TopId : status'[p] \in {"absent", "queued"} => status[p] \in {"absent", "queued"}
      BY <1>0, <2>1, <3>1, DoneTakes
    <3> QED
      BY <2>1, <3>1, <3>2, <3>3, WholeMoves DEF Idle, identity
  <2> QED
    BY <2>2, <2>3
<1>7. ASSUME NEW o \in Outcomes, Claim(o)
      PROVE  (RowsWhole /\ LoopWhole)'
  <2>1. /\ pc = "claim" /\ Answered(o) /\ UNCHANGED identity /\ cur' = cur
        /\ status' = [j \in JobId |-> IF j \in Claimable(cur) THEN "running" ELSE status[j]]
        /\ IF Claimable(cur) # {} THEN pc' = "batch" ELSE pc' = "finish" /\ flushed' = flushed
    BY <1>0, <1>7, NoFaultYet DEF Claim, Write, Goto
  <2>2. /\ \A p \in TopId : status'[p] = status[p]
        /\ \A s \in SubId : status'[s] = status[s] \/ (s \in Claimable(cur) /\ status'[s] = "running")
    BY <1>0, <2>1, ClaimableAreChildren, Constants
  <2>3. \A s \in Claimable(cur) : status[s] # "absent"
    BY ClaimableAreChildren DEF Children
  <2>4. CASE Claimable(cur) # {}
    BY <2>1, <2>2, <2>3, <2>4, WholeMoves DEF identity, RowsWhole
  <2>5. CASE Claimable(cur) = {}
    <3>1. \A s \in Children(cur) : status[s] # "queued" /\ status[s] # "running"
      BY <1>0, <2>1, <2>5, EmptyClaim, InHand DEF Children, LoopInv, RunningSubJobIsInBatch
    <3>2. \A s \in Children(cur) : status[s] \in Terminal
      BY <1>0, <3>1 DEF Children, RowsWhole, NonTerminal
    <3>3. (\A p : Children(p)' = Children(p)) /\ Children(cur)' = Children(cur)
      BY <2>1, <2>2, <2>5 DEF Children, identity
    <3>4. RowsWhole'
      BY <2>1, <2>2, <2>5, <3>3 DEF RowsWhole
    <3>5. \A s \in Children(cur)' : status'[s] \in Terminal
      BY <2>2, <2>5, <3>2, <3>3 DEF Children
    <3> QED
      BY <2>1, <2>5, <3>4, <3>5 DEF LoopWhole
  <2> QED
    BY <2>4, <2>5
<1>8. ASSUME NEW o \in Outcomes, NEW s \in batch, RunSubJob(s, o)
      PROVE  (RowsWhole /\ LoopWhole)'
  <2>1. /\ pc = "batch" /\ pc' \in {"batch", "claim"} /\ UNCHANGED <<identity, flushed>>
        /\ status' = JobMarkDone(s) \/ status' = JobMarkFailed(s)
    BY <1>0, <1>8, NoFaultYet DEF RunSubJob, Write
  <2>2. s \in SubId /\ s \in JobId /\ status[s] # "absent"
    BY <1>0, <1>8, Constants DEF IInv, RowsAndLoopAgree, LoopState, Children
  <2>3. CASE status' = JobMarkDone(s)
    <3>1. \A t \in SubId : status'[t] # "running_sub_jobs" /\ (status[t] = "absent" => status'[t] = "absent")
      BY <1>0, <2>2, <2>3, DoneTakes DEF RowsWhole
    <3>2. \A p \in TopId : status'[p] \in {"absent", "queued"} => status[p] \in {"absent", "queued"}
      BY <1>0, <2>2, <2>3, DoneTakes
    <3> QED
      BY <2>1, <3>1, <3>2, WholeMoves DEF identity
  <2>4. CASE status' = JobMarkFailed(s)
    BY <1>0, <2>1, <2>2, <2>4, WholeMoves, Constants DEF JobMarkFailed, identity, RowsWhole
  <2> QED
    BY <2>1, <2>3, <2>4
<1>9. ASSUME NEW o \in Outcomes, FinishParent(o)
      PROVE  (RowsWhole /\ LoopWhole)'
  <2>1. /\ Idle /\ status' = JobMarkDone(cur) /\ UNCHANGED identity /\ cur \in TopId /\ cur \in JobId
    BY <1>0, <1>9, NoFaultYet, InHand DEF FinishParent, Write
  <2>2. \A s \in SubId : status'[s] # "running_sub_jobs" /\ (status[s] = "absent" => status'[s] = "absent")
    BY <1>0, <2>1, DoneTakes, Constants DEF RowsWhole
  <2>3. \A p \in TopId : status'[p] \in {"absent", "queued"} => status[p] \in {"absent", "queued"}
    BY <1>0, <2>1, DoneTakes
  <2> QED
    BY <2>1, <2>2, <2>3, WholeMoves DEF Idle, identity
<1> QED
  BY <1>1, <1>2, <1>3, <1>4, <1>5, <1>6, <1>7, <1>8, <1>9 DEF DispatcherStep

\* So does every other step; a crash or a failing statement ends the claim.
LEMMA WholeStep == IInv /\ LoopInv /\ SubJobsWhole /\ [Next]_vars => SubJobsWhole'
<1> SUFFICES ASSUME IInv, LoopInv, SubJobsWhole, [Next]_vars, crashes' = 0, faults' = 0
             PROVE  (RowsWhole /\ LoopWhole)'
  BY DEF SubJobsWhole
<1>0. /\ TypeOK /\ RowsBorn /\ crashes \in Nat /\ faults \in Nat
      /\ pc = "flush" => cur \in JobId /\ status[cur] # "absent"
  BY Constants, InHand DEF IInv, TypeOK, RowsAndLoopAgree
<1>1. CASE DispatcherStep
  <2>1. faults = 0
    <3>1. CASE WakeUp \/ ProcessNext \/ ResumeSubJobs \/ HandlerReturns \/ YieldTranscode
      BY <3>1 DEF WakeUp, ProcessNext, ResumeSubJobs, HandlerReturns, YieldTranscode
    <3>2. CASE LoadFromDB \/ DropEntry
      BY <1>0, <3>2 DEF LoadFromDB, DropEntry
    <3>3. ASSUME NEW o \in Outcomes, Spend(o) PROVE faults = 0
      BY <1>0, <3>3, NoFaultYet
    <3>4. ASSUME NEW o \in Outcomes,
                 \/ RejectUnknown(o) \/ StartJob(o) \/ HandlerFails(o) \/ FlushBatch(o)
                 \/ AfterFlush(o) \/ Claim(o) \/ FinishParent(o) \/ \E s \in batch : RunSubJob(s, o)
          PROVE  Spend(o)
      BY <3>4 DEF RejectUnknown, StartJob, HandlerFails, FlushBatch, AfterFlush, Claim, FinishParent, RunSubJob
    <3> QED
      BY <1>1, <3>1, <3>2, <3>3, <3>4 DEF DispatcherStep
  <2>2. crashes = 0
    BY <1>1 DEF DispatcherStep, WakeUp, ProcessNext, ResumeSubJobs, HandlerReturns, YieldTranscode,
                LoadFromDB, DropEntry, RejectUnknown, StartJob, HandlerFails, FlushBatch, AfterFlush,
                Claim, FinishParent, RunSubJob
  <2> QED
    BY <1>1, <2>1, <2>2, WholeDispatcher DEF SubJobsWhole
<1>2. CASE PollTick
  <2>1. RowsWhole /\ UNCHANGED table /\ pc' = "load" /\ ~flushed'
    BY <1>2 DEF PollTick, Goto, SubJobsWhole, LoopWhole
  <2> QED
    BY <2>1, WholeMoves DEF table, RowsWhole
<1>3. ASSUME NEW o, NEW q \in Request, JobCreate(o, q), UNCHANGED <<loop, crashes>>, faults = 0
      PROVE  (RowsWhole /\ LoopWhole)'
  <2>1. /\ UNCHANGED parent /\ \A s \in SubId : status'[s] = status[s]
        /\ \A j \in JobId : status[j] # "absent" => status'[j] = status[j] /\ type'[j] = type[j]
    BY <1>0, <1>3, JobCreateEffect
  <2>2. \A p \in TopId : status'[p] \in {"absent", "queued"} => status[p] \in {"absent", "queued"}
    BY <2>1, Constants
  <2> QED
    BY <1>0, <1>3, <2>1, <2>2, WholeKept DEF SubJobsWhole, loop
<1>4. ASSUME NEW q \in Requeues, NEW o \in Outcomes, HandlerRequeues(q, o)
      PROVE  (RowsWhole /\ LoopWhole)'
  <2>1. faults = 0
    BY <1>0, <1>4, NoFaultYet DEF HandlerRequeues
  <2> QED
    BY <1>3, <1>4, <2>1, TypesAssumption DEF HandlerRequeues
<1>5. ASSUME NEW c \in Clients, NEW o \in Outcomes, EnqueueRow(c, o)
      PROVE  (RowsWhole /\ LoopWhole)'
  <2>1. faults = 0 /\ req[c] \in Request /\ crashes' = crashes
    BY <1>0, <1>5, NoFaultYet DEF EnqueueRow, IInv, RowsAndLoopAgree, HeldBorn
  <2> QED
    BY <1>3, <1>5, <2>1 DEF EnqueueRow
<1>6. ASSUME UNCHANGED <<table, loop, crashes, faults>>
      PROVE  (RowsWhole /\ LoopWhole)'
  BY <1>6, WholeKept DEF table, loop, SubJobsWhole
<1>7. ASSUME NEW c \in Clients, ClientStep(c)
      PROVE  (RowsWhole /\ LoopWhole)'
  <2>1. ASSUME NEW q, CheckActive(c, q) PROVE (RowsWhole /\ LoopWhole)'
    BY <1>6, <2>1 DEF CheckActive
  <2>2. CASE EnqueueEntry(c)
    BY <1>6, <2>2 DEF EnqueueEntry
  <2> QED
    BY <1>5, <1>7, <2>1, <2>2 DEF ClientStep
<1>8. CASE Boot
  <2>1. /\ pc = "off" /\ pc' = "load" /\ UNCHANGED <<identity, crashes, faults, flushed>>
        /\ status' = JobsResetStuck
    BY <1>8 DEF Boot, Goto
  <2>2. RowsWhole /\ ~flushed
    BY <2>1 DEF SubJobsWhole, LoopWhole
  <2>3. \A s \in SubId : status'[s] = "absent"
    BY <2>1, <2>2, Constants DEF RowsWhole, JobsResetStuck
  <2>4. \A p : Children(p)' = {}
    BY <2>3 DEF Children
  <2> QED
    BY <2>1, <2>2, <2>3, <2>4 DEF RowsWhole, LoopWhole
<1>9. CASE Register \/ Pause \/ Resume \/ UNCHANGED vars
  BY <1>6, <1>9 DEF Register, Pause, Resume, vars
<1>10. CASE Crash
  BY <1>0, <1>10 DEF Crash
<1> QED
  BY <1>1, <1>2, <1>4, <1>7, <1>8, <1>9, <1>10 DEF Next

\* What a step does to the sub-jobs that have not ended.
LEMMA DispatcherDiscardsNone ==
  ASSUME IInv, RowsWhole, LoopWhole, DispatcherStep
  PROVE  SubJobsEnd
<1>0. TypeOK /\ \A s \in SubId : s \in JobId
  BY Constants DEF IInv
<1>1. ASSUME NEW o, NEW j \in JobId, Write(o, JobMarkDone(j)), \A s \in Children(j) : status[s] \notin NonTerminal
      PROVE  SubJobsEnd
  <2>1. \A s \in SubId : status[s] \in NonTerminal => JobMarkDone(j)[s] # "absent"
    BY <1>0, <1>1, DoneTakes DEF NonTerminal
  <2> QED
    BY <1>1, <2>1 DEF Write, SubJobsEnd, NonTerminal
<1>2. ASSUME \A s \in SubId : status[s] # "absent" => status'[s] # "absent"
      PROVE  SubJobsEnd
  BY <1>2 DEF SubJobsEnd, NonTerminal
<1>3. CASE WakeUp \/ LoadFromDB \/ ProcessNext \/ DropEntry \/ ResumeSubJobs \/ HandlerReturns \/ YieldTranscode
  BY <1>2, <1>3 DEF WakeUp, LoadFromDB, ProcessNext, DropEntry, ResumeSubJobs, HandlerReturns,
                    YieldTranscode, table
<1>4. ASSUME NEW o \in Outcomes, RejectUnknown(o) \/ StartJob(o) \/ HandlerFails(o) PROVE SubJobsEnd
  <2>1. cur \in TopId
    BY <1>4, InHand DEF RejectUnknown, StartJob, HandlerFails
  <2> QED
    BY <1>0, <1>2, <1>4, <2>1, Constants DEF RejectUnknown, StartJob, HandlerFails, Write,
       JobMarkFailed, JobMarkRunning, TypeOK
<1>5. ASSUME NEW o \in Outcomes, FlushBatch(o) PROVE SubJobsEnd
  <2>1. \A s \in SubId : status'[s] = status[s] \/ status'[s] = "queued"
    BY <1>5, FlushAdds
  <2> QED
    BY <1>2, <2>1
<1>6. ASSUME NEW o \in Outcomes, AfterFlush(o) PROVE SubJobsEnd
  <2>1. pc = "flush" /\ cur \in TopId /\ cur \in JobId
    BY <1>6, InHand DEF AfterFlush
  <2>2. CASE flushed /\ type[cur] \in SupportsSubjobs
    BY <1>0, <1>2, <1>6, <2>1, <2>2, Constants DEF AfterFlush, Write, JobMarkRunningSubJobs, TypeOK
  <2>3. CASE ~(flushed /\ type[cur] \in SupportsSubjobs)
    <3>1. Children(cur) = {}
      BY <2>1, <2>3 DEF LoopWhole
    <3> QED
      BY <1>1, <1>6, <2>1, <2>3, <3>1 DEF AfterFlush
  <2> QED
    BY <2>2, <2>3
<1>7. ASSUME NEW o \in Outcomes, Claim(o) PROVE SubJobsEnd
  BY <1>0, <1>2, <1>7 DEF Claim, Write
<1>8. ASSUME NEW o \in Outcomes, NEW s \in batch, RunSubJob(s, o) PROVE SubJobsEnd
  <2>1. s \in SubId /\ s \in JobId /\ Children(s) = {}
    BY <1>0, InHand, DoneTakes
  <2>2. CASE Write(o, JobMarkDone(s))
    BY <1>1, <2>1, <2>2
  <2>3. CASE Write(o, JobMarkFailed(s))
    BY <1>0, <1>2, <2>1, <2>3 DEF Write, JobMarkFailed, TypeOK
  <2> QED
    BY <1>8, <2>2, <2>3 DEF RunSubJob
<1>9. ASSUME NEW o \in Outcomes, FinishParent(o) PROVE SubJobsEnd
  <2>1. pc = "finish" /\ cur \in JobId
    BY <1>9, InHand DEF FinishParent
  <2>2. \A s \in Children(cur) : status[s] \notin NonTerminal
    BY <2>1 DEF LoopWhole, Terminal, NonTerminal
  <2> QED
    BY <1>1, <1>9, <2>1, <2>2 DEF FinishParent
<1> QED
  BY <1>3, <1>4, <1>5, <1>6, <1>7, <1>8, <1>9 DEF DispatcherStep

LEMMA StepDiscardsNone ==
  IInv /\ SubJobsWhole /\ [Next]_vars => (crashes = 0 /\ faults = 0 => SubJobsEnd)
<1> SUFFICES ASSUME IInv, RowsWhole, LoopWhole, [Next]_vars PROVE SubJobsEnd
  BY DEF SubJobsWhole
<1>0. TypeOK /\ RowsBorn /\ \A s \in SubId : s \in JobId
  BY Constants DEF IInv, RowsAndLoopAgree
<1>1. ASSUME \A s \in SubId : status[s] # "absent" => status'[s] # "absent"
      PROVE  SubJobsEnd
  BY <1>1 DEF SubJobsEnd, NonTerminal
<1>2. CASE DispatcherStep
  BY <1>2, DispatcherDiscardsNone
<1>3. ASSUME NEW o, NEW q \in Request, JobCreate(o, q)
      PROVE  SubJobsEnd
  BY <1>0, <1>1, <1>3, JobCreateEffect
<1>4. ASSUME NEW q \in Requeues, NEW o \in Outcomes, HandlerRequeues(q, o)
      PROVE  SubJobsEnd
  BY <1>3, <1>4, TypesAssumption DEF HandlerRequeues
<1>5. ASSUME NEW c \in Clients, ClientStep(c)
      PROVE  SubJobsEnd
  <2>1. ASSUME NEW q, CheckActive(c, q) \/ EnqueueEntry(c) PROVE SubJobsEnd
    BY <1>1, <2>1 DEF CheckActive, EnqueueEntry, table
  <2>2. ASSUME NEW o \in Outcomes, EnqueueRow(c, o) PROVE SubJobsEnd
    BY <1>3, <2>2 DEF EnqueueRow, IInv, RowsAndLoopAgree, HeldBorn
  <2> QED
    BY <1>5, <2>1, <2>2 DEF ClientStep
<1>6. CASE Boot
  BY <1>0, <1>1, <1>6 DEF Boot, JobsResetStuck
<1>7. CASE PollTick \/ Register \/ Crash \/ Pause \/ Resume \/ UNCHANGED vars
  BY <1>1, <1>7 DEF PollTick, Register, Crash, Pause, Resume, vars, table
<1> QED
  BY <1>2, <1>4, <1>5, <1>6, <1>7 DEF Next

\* "executeSubJobs runs all sub-jobs for the given parent job": with no crash and no
\* failing statement a sub-job row is deleted only after its handler succeeded or
\* failed, also when its parent yields between batches and is resumed, and whatever
\* is enqueued meanwhile. Crashes and failures refute it.
THEOREM UndisturbedSubJobsEnd == Spec => NoSubJobDiscardedUndisturbed
<1>1. Init => SubJobsWhole
  BY DEF Init, SubJobsWhole, RowsWhole, LoopWhole, Children, JobId
<1> QED
  BY <1>1, WholeStep, StepDiscardsNone, Invariance, LoopInvariance, PTL
     DEF Spec, NoSubJobDiscardedUndisturbed

-----------------------------------------------------------------------------
(* The check and the insertion of Enqueue are two statements; a caller that has *)
(* checked is counted with the rows it may add.                                 *)

Checked(q) == {c \in Clients : cpc[c] = "checked" /\ req[c] = q}

ActiveBounded ==
  \A q \in Requests : Cardinality(Active(q)) + Cardinality(Checked(q)) <= Cardinality(Clients)

\* Both are finite, so that they can be counted.
LEMMA ActiveFinite ==
  ASSUME IsFiniteSet(Clients), NEW q
  PROVE  /\ IsFiniteSet(Active(q)) /\ Cardinality(Active(q)) \in Nat
         /\ IsFiniteSet(Checked(q)) /\ Cardinality(Checked(q)) \in Nat
         /\ IsFiniteSet(Active(q)') /\ Cardinality(Active(q)') \in Nat
         /\ IsFiniteSet(Checked(q)') /\ Cardinality(Checked(q)') \in Nat
         /\ Cardinality(Clients) \in Nat
<1>1. IsFiniteSet(TopId)
  BY FS_Interval, BoundsAssumption DEF TopId
<1>2. /\ Active(q) \in SUBSET TopId /\ Active(q)' \in SUBSET TopId
      /\ Checked(q) \in SUBSET Clients /\ Checked(q)' \in SUBSET Clients
  BY DEF Active, Checked
<1> QED
  BY <1>1, <1>2, FS_Subset, FS_CardinalityType

\* Steps after which neither has a new member.
LEMMA NoneAdded ==
  ASSUME IsFiniteSet(Clients), ActiveBounded,
         \A q \in Requests : Active(q)' \subseteq Active(q) /\ Checked(q)' \subseteq Checked(q)
  PROVE  ActiveBounded'
<1> SUFFICES ASSUME NEW q \in Requests
             PROVE  Cardinality(Active(q)') + Cardinality(Checked(q)') <= Cardinality(Clients)
  BY DEF ActiveBounded
<1>1. /\ Cardinality(Active(q)') <= Cardinality(Active(q))
      /\ Cardinality(Checked(q)') <= Cardinality(Checked(q))
  BY ActiveFinite, FS_Subset
<1>2. Cardinality(Active(q)) + Cardinality(Checked(q)) <= Cardinality(Clients)
  BY DEF ActiveBounded
<1> QED
  BY <1>1, <1>2, ActiveFinite

\* A step that inserts no top-level row makes no job active.
LEMMA ActiveShrinks ==
  ASSUME IInv, IInv', Effect, nextTop' = nextTop, related' = related,
         \A j \in TopId : type'[j] = type[j], NEW q
  PROVE  Active(q)' \subseteq Active(q)
<1>1. \A j \in TopId : status'[j] # "absent" <=> status[j] # "absent"
  BY DEF IInv, RowsAndLoopAgree, RowsBorn
<1>2. \A j \in TopId : status'[j] \in NonTerminal => status[j] \in NonTerminal
  BY <1>1 DEF Effect, Stuttered, Submitted, Took, GaveBack, Finished, Refused, Keeps, NonTerminal
<1> QED
  BY <1>2 DEF Active

\* Rows get their type and their request when they are inserted.
LEMMA IdentityKept ==
  ASSUME IInv, DispatcherStep \/ PollTick \/ Boot \/ Register \/ Crash \/ Pause \/ Resume
  PROVE  nextTop' = nextTop /\ related' = related /\ \A j \in TopId : type'[j] = type[j]
<1>1. ASSUME NEW o \in Outcomes, FlushBatch(o)
      PROVE  nextTop' = nextTop /\ related' = related /\ \A j \in TopId : type'[j] = type[j]
  <2> DEFINE new == nextSub..(nextSub + (IF Len(buf) < FlushSize THEN Len(buf) ELSE FlushSize) - 1)
  <2>1. nextTop' = nextTop /\ related' = related
    BY <1>1 DEF FlushBatch, JobCreateSubJobBatch, table
  <2>2. \A j \in TopId : j \in JobId /\ j \notin new
    BY BoundsAssumption DEF IInv, TypeOK, TopId, JobId
  <2>3. \/ type' = type
        \/ type' = [j \in JobId |-> IF j \in new THEN buf[j - nextSub + 1] ELSE type[j]]
    BY <1>1 DEF FlushBatch, JobCreateSubJobBatch, table
  <2> HIDE DEF new
  <2> QED
    BY <2>1, <2>2, <2>3
<1>2. CASE UNCHANGED <<type, related, nextTop>>
  BY <1>2
<1>3. CASE WakeUp \/ LoadFromDB \/ ProcessNext \/ DropEntry \/ ResumeSubJobs \/ HandlerReturns
           \/ YieldTranscode \/ PollTick \/ Boot \/ Register \/ Crash \/ Pause \/ Resume
  BY <1>2, <1>3 DEF WakeUp, LoadFromDB, ProcessNext, DropEntry, ResumeSubJobs, HandlerReturns,
        YieldTranscode, PollTick, Boot, Register, Crash, Pause, Resume, table, identity
<1>4. ASSUME NEW o \in Outcomes,
             \/ RejectUnknown(o) \/ StartJob(o) \/ HandlerFails(o) \/ AfterFlush(o)
             \/ Claim(o) \/ FinishParent(o) \/ \E s \in batch : RunSubJob(s, o)
      PROVE  nextTop' = nextTop /\ related' = related /\ \A j \in TopId : type'[j] = type[j]
  BY <1>2, <1>4 DEF RejectUnknown, StartJob, HandlerFails, AfterFlush, Claim, FinishParent,
                    RunSubJob, identity
<1> QED
  BY <1>1, <1>3, <1>4 DEF DispatcherStep

\* The loop never becomes a caller, and a restart ends the calls.
LEMMA CallersKept ==
  ASSUME DispatcherStep \/ PollTick \/ Boot \/ Register \/ Crash \/ Pause \/ Resume, NEW q
  PROVE  Checked(q)' \subseteq Checked(q)
<1>1. CASE UNCHANGED clients
  BY <1>1 DEF clients, Checked
<1>2. CASE WakeUp \/ LoadFromDB \/ ProcessNext \/ DropEntry \/ ResumeSubJobs \/ HandlerReturns
           \/ YieldTranscode \/ PollTick \/ Boot \/ Register \/ Pause \/ Resume
  BY <1>1, <1>2 DEF WakeUp, LoadFromDB, ProcessNext, DropEntry, ResumeSubJobs, HandlerReturns,
        YieldTranscode, PollTick, Boot, Register, Pause, Resume
<1>3. ASSUME NEW o \in Outcomes,
             \/ RejectUnknown(o) \/ StartJob(o) \/ HandlerFails(o) \/ FlushBatch(o) \/ AfterFlush(o)
             \/ Claim(o) \/ FinishParent(o) \/ \E s \in batch : RunSubJob(s, o)
      PROVE  Checked(q)' \subseteq Checked(q)
  BY <1>1, <1>3 DEF RejectUnknown, StartJob, HandlerFails, FlushBatch, AfterFlush, Claim,
                    FinishParent, RunSubJob
<1>4. CASE Crash
  BY <1>4 DEF Crash, Checked
<1> QED
  BY <1>2, <1>3, <1>4 DEF DispatcherStep

\* A caller begins only when its request has no active job.
LEMMA CheckActiveBounded ==
  ASSUME IsFiniteSet(Clients), IInv, ActiveBounded,
         NEW c \in Clients, NEW r \in Requests, CheckActive(c, r)
  PROVE  ActiveBounded'
<1>1. /\ cpc[c] = "idle" /\ ~JobIsActive(r)
      /\ cpc' = [cpc EXCEPT ![c] = "checked"] /\ req' = [req EXCEPT ![c] = r]
      /\ UNCHANGED <<status, type, related>>
  BY DEF CheckActive, table
<1> SUFFICES ASSUME NEW q \in Requests
             PROVE  Cardinality(Active(q)') + Cardinality(Checked(q)') <= Cardinality(Clients)
  BY DEF ActiveBounded
<1>2. Active(q)' = Active(q)
  BY <1>1 DEF Active
<1>3. CASE q = r
  <2>1. Active(q) = {}
    BY <1>1, <1>3 DEF Active, JobIsActive
  <2>2. Cardinality(Checked(q)') <= Cardinality(Clients)
    BY FS_Subset DEF Checked
  <2> QED
    BY <1>2, <2>1, <2>2, FS_EmptySet, ActiveFinite
<1>4. CASE q # r
  <2>1. Checked(q)' = Checked(q)
    BY <1>1, <1>4 DEF Checked, IInv, TypeOK
  <2> QED
    BY <1>2, <2>1 DEF ActiveBounded
<1> QED
  BY <1>3, <1>4

\* Its INSERT moves it from one count to the other.
LEMMA EnqueueRowBounded ==
  ASSUME IsFiniteSet(Clients), IInv, ActiveBounded,
         NEW c \in Clients, NEW o \in Outcomes, EnqueueRow(c, o)
  PROVE  ActiveBounded'
<1>1. /\ cpc[c] = "checked" /\ req[c] \in Request /\ JobCreate(o, req[c]) /\ req' = req
      /\ cpc' = [cpc EXCEPT ![c] = IF Answered(o) THEN "created" ELSE "idle"]
  BY DEF EnqueueRow, IInv, RowsAndLoopAgree, HeldBorn
<1>2. \/ UNCHANGED <<status, type, related>>
      \/ /\ status'  = [status EXCEPT ![nextTop] = "queued"]
         /\ type'    = [type EXCEPT ![nextTop] = req[c].type]
         /\ related' = [related EXCEPT ![nextTop] = req[c].related]
  BY <1>1 DEF JobCreate
<1>3. nextTop \in TopId
  BY <1>1, JobCreateEffect DEF IInv, RowsAndLoopAgree
<1> SUFFICES ASSUME NEW q \in Requests
             PROVE  Cardinality(Active(q)') + Cardinality(Checked(q)') <= Cardinality(Clients)
  BY DEF ActiveBounded
<1>4. Cardinality(Active(q)) + Cardinality(Checked(q)) <= Cardinality(Clients)
  BY DEF ActiveBounded
<1>5. CASE q = req[c]
  <2>1. Active(q)' \subseteq Active(q) \cup {nextTop}
    BY <1>2, <1>3 DEF Active, IInv, TypeOK, JobId
  <2>2. c \in Checked(q) /\ Checked(q)' = Checked(q) \ {c}
    BY <1>1, <1>5 DEF Checked, IInv, TypeOK
  <2>3. /\ IsFiniteSet(Active(q) \cup {nextTop})
        /\ Cardinality(Active(q) \cup {nextTop}) <= Cardinality(Active(q)) + 1
    <3>1. IsFiniteSet(Active(q)) /\ Cardinality(Active(q)) \in Nat
      BY ActiveFinite
    <3>2. /\ IsFiniteSet(Active(q) \cup {nextTop})
          /\ Cardinality(Active(q) \cup {nextTop}) =
               IF nextTop \in Active(q) THEN Cardinality(Active(q)) ELSE Cardinality(Active(q)) + 1
      BY <3>1, FS_AddElement
    <3> QED
      BY <3>1, <3>2
  <2>4. Cardinality(Active(q)') <= Cardinality(Active(q) \cup {nextTop})
    BY <2>1, <2>3, FS_Subset
  <2>5. Cardinality(Checked(q)') = Cardinality(Checked(q)) - 1
    BY <2>2, ActiveFinite, FS_RemoveElement
  <2>6. Cardinality(Active(q) \cup {nextTop}) \in Nat
    BY <2>3, FS_CardinalityType
  <2> QED
    BY <1>4, <2>3, <2>4, <2>5, <2>6, ActiveFinite
<1>6. CASE q # req[c]
  <2>1. q \in Request
    BY TypesAssumption
  <2>2. q.type # req[c].type \/ q.related # req[c].related
    BY <1>1, <1>6, <2>1 DEF Request
  <2>3. Active(q)' \subseteq Active(q)
    BY <1>2, <1>3, <2>2 DEF Active, IInv, TypeOK, JobId
  <2>4. Checked(q)' = Checked(q)
    BY <1>1, <1>6 DEF Checked, IInv, TypeOK
  <2>5. Cardinality(Active(q)') <= Cardinality(Active(q))
    BY <2>3, ActiveFinite, FS_Subset
  <2> QED
    BY <1>4, <2>4, <2>5, ActiveFinite
<1> QED
  BY <1>5, <1>6

\* What a handler inserts is another request.
LEMMA HandlerRequeuesBounded ==
  ASSUME IsFiniteSet(Clients), IInv, ActiveBounded,
         NEW r \in Requeues, r \notin Requests, NEW o \in Outcomes, HandlerRequeues(r, o)
  PROVE  ActiveBounded'
<1>1. /\ r \in Request /\ JobCreate(o, r) /\ UNCHANGED clients
      /\ \/ UNCHANGED <<status, type, related>>
         \/ /\ status'  = [status EXCEPT ![nextTop] = "queued"]
            /\ type'    = [type EXCEPT ![nextTop] = r.type]
            /\ related' = [related EXCEPT ![nextTop] = r.related]
  BY TypesAssumption DEF HandlerRequeues, JobCreate
<1>2. nextTop \in TopId
  BY <1>1, JobCreateEffect DEF IInv, RowsAndLoopAgree
<1>3. ASSUME NEW q \in Requests
      PROVE  Active(q)' \subseteq Active(q) /\ Checked(q)' \subseteq Checked(q)
  <2>1. q \in Request /\ q # r
    BY TypesAssumption
  <2>2. q.type # r.type \/ q.related # r.related
    BY <1>1, <2>1 DEF Request
  <2>3. Active(q)' \subseteq Active(q)
    BY <1>1, <1>2, <2>2 DEF Active, IInv, TypeOK, JobId
  <2> QED
    BY <1>1, <2>3 DEF Checked, clients
<1> QED
  BY <1>3, NoneAdded

\* Every step keeps the count.
LEMMA ActiveStep ==
  ASSUME IsFiniteSet(Clients), Requests \cap Requeues = {}, IInv, IInv', ActiveBounded, [Next]_vars
  PROVE  ActiveBounded'
<1>1. CASE UNCHANGED vars
  BY <1>1 DEF vars, table, clients, ActiveBounded, Active, Checked
<1>2. CASE DispatcherStep \/ PollTick \/ Boot \/ Register \/ Crash \/ Pause \/ Resume
  <2>1. Effect
    BY StepEffect
  <2> QED
    BY <1>2, <2>1, IdentityKept, CallersKept, ActiveShrinks, NoneAdded
<1>3. ASSUME NEW r \in Requeues, NEW o \in Outcomes, HandlerRequeues(r, o)
      PROVE  ActiveBounded'
  BY <1>3, HandlerRequeuesBounded
<1>4. ASSUME NEW c \in Clients, ClientStep(c)
      PROVE  ActiveBounded'
  <2>1. CASE EnqueueEntry(c)
    <3>1. \A q \in Requests : Active(q)' \subseteq Active(q) /\ Checked(q)' \subseteq Checked(q)
      BY <2>1 DEF EnqueueEntry, table, Active, Checked, IInv, TypeOK
    <3> QED
      BY <3>1, NoneAdded
  <2> QED
    BY <1>4, <2>1, CheckActiveBounded, EnqueueRowBounded DEF ClientStep
<1> QED
  BY <1>1, <1>2, <1>3, <1>4 DEF Next

\* The check before Enqueue, without a lock, keeps the unfinished jobs of a request to
\* one per caller, across crashes, failures and lost answers, as long as no handler
\* inserts the same request.
THEOREM ActiveJobsStayBounded ==
  ASSUME IsFiniteSet(Clients), Requests \cap Requeues = {}
  PROVE  Spec => []OneActivePerCaller
<1>1. Init => ActiveBounded
  <2> SUFFICES ASSUME Init, NEW q \in Requests
               PROVE  Cardinality(Active(q)) + Cardinality(Checked(q)) <= Cardinality(Clients)
    BY DEF ActiveBounded
  <2>1. Active(q) = {} /\ Checked(q) = {}
    BY DEF Init, Active, Checked, NonTerminal, JobId
  <2> QED
    BY <2>1, ActiveFinite, FS_EmptySet
<1>2. IInv /\ IInv' /\ ActiveBounded /\ [Next]_vars => ActiveBounded'
  BY ActiveStep
<1>3. ActiveBounded => OneActivePerCaller
  BY ActiveFinite DEF ActiveBounded, OneActivePerCaller
<1> QED
  BY <1>1, <1>2, <1>3, Invariance, PTL DEF Spec

===============================================================================
