-------------------------- MODULE StreamEncoderProofs --------------------------
(* Proofs about StreamEncoder, for any video, look-ahead, number of handlers    *)
(* and of ffmpeg processes.                                                     *)
EXTENDS StreamEncoder, FiniteSetTheorems, SequenceTheorems, WellFoundedInduction, TLAPS

ThreadType == [at : {"idle", "check", "head", "kill", "start", "publish", "wait", "served"},
               target : Target, bound : Seg, head : Target, mine : Proc \cup {None}]
ProcType   == [st : {"none", "running", "exited", "killed"}, seg : 0..(LastSeg + 2),
               open : BOOLEAN, last : Seg]
WaiterType == [at : {"none", "spawned", "waiting", "scanned", "done"},
               cmd : Proc \cup {None}, highest : Seg]

\* What the assumption says of the constants.
LEMMA Constants ==
  /\ LastSeg \in Nat /\ MaxProc \in Nat /\ MaxProc > 0 /\ Lookahead \in Nat
  /\ Seg \subseteq Nat /\ Target \subseteq Nat /\ Seg \subseteq Target /\ 0 \in Seg /\ 0 \in Target
  /\ LastSeg \in Seg /\ Proc \subseteq Nat /\ None \notin Proc /\ 1 \in Proc
  /\ Clients \subseteq Threads /\ Fillers \subseteq Threads /\ IsFiniteSet(Threads)
BY StreamEncoderAssumption DEF Seg, Target, Proc, None, Threads

-----------------------------------------------------------------------------
(* The inductive invariant *)

\* Threads that may still start an ffmpeg.
Ahead == {t \in Threads : thread[t].at \in {"check", "head", "kill", "start"}}

\* Every one of them finds a process number within the bound.
RoomAhead == nextProc + Cardinality(Ahead) <= MaxProc + 1

\* What the locals and the processes hold at each point.
Shape ==
  /\ \A c \in Clients : thread[c].target \in Seg
  /\ \A t \in Threads : IsAt(t, "publish") => thread[t].mine \in Proc /\ thread[t].mine < nextProc
  /\ \A p \in Proc : proc[p].open => proc[p].seg <= LastSeg
  /\ \A p \in Proc : Running(p) \/ waiter[p].at # "none" => p < nextProc
  /\ \A p \in Proc : waiter[p].at = "waiting" => waiter[p].cmd # None

\* Past the check of the gap.
InSeek(t) == thread[t].at \in {"head", "kill", "start", "publish"}

\* One seek at a time: it has emptied the handle when it starts a process, which has
\* no waitAndLog before the handle is stored.
OneSeek ==
  /\ \A t, u \in Threads : InSeek(t) /\ InSeek(u) => t = u
  /\ \A t \in Threads : thread[t].at \in {"start", "publish"} => cmd = None
  /\ \A t \in Threads : IsAt(t, "publish") => waiter[thread[t].mine].at = "none"

\* A process in the handle of the session, or about to be.
Stored(p)  == p = cmd
AtHand(p)  == \E t \in Threads : IsAt(t, "publish") /\ thread[t].mine = p
Awaited(p) == \E q \in Proc : waiter[q].at = "waiting" /\ waiter[q].cmd = p

EveryoneReachable == \A p \in Proc : Running(p) => Stored(p) \/ AtHand(p)
EveryoneWaitedFor ==
  \A p \in 1..(nextProc - 1) :
    \/ p \in reaped
    \/ Awaited(p)
    \/ Stored(p) /\ \E q \in Proc : waiter[q].at = "spawned"
    \/ AtHand(p)

EncoderInv == TypeOK /\ Shape /\ RoomAhead
Serial     == OneSeek /\ EveryoneReachable /\ EveryoneWaitedFor
SeekInv    == ~overlapped => Serial

-----------------------------------------------------------------------------
(* Lemmas about the operators *)

\* A set of naturals has a smallest element.
LEMMA SmallestIsThere ==
  ASSUME NEW S \in SUBSET Nat, S # {}
  PROVE  \E x \in S : \A y \in S : x <= y
<1>1. IsWellFoundedOn(OpToRel(<, Nat), Nat)
  BY NatLessThanWellFounded
<1>2. PICK x \in S : \A y \in S : ~(<<y, x>> \in OpToRel(<, Nat))
  BY <1>1, WFMin
<1>3. ASSUME NEW y \in S PROVE x <= y
  <2>1. x \in Nat /\ y \in Nat
    OBVIOUS
  <2>2. ~(y < x)
    BY <1>2, <2>1 DEF OpToRel
  <2> QED
    BY <2>1, <2>2
<1> QED
  BY <1>3

\* Min of a set of naturals is one of them.
LEMMA MinIsThere ==
  ASSUME NEW S \in SUBSET Nat, S # {}
  PROVE  Min(S) \in S
BY SmallestIsThere DEF Min

\* Max of a set of segments is one of them.
LEMMA MaxIsThere ==
  ASSUME NEW S \in SUBSET Seg, S # {}
  PROVE  Max(S) \in S
<1> DEFINE T == {n \in 0..LastSeg : LastSeg - n \in S}
<1>1. T \in SUBSET Nat
  BY Constants
<1>2. T # {}
  <2>1. PICK m \in S : TRUE
    OBVIOUS
  <2>2. LastSeg - m \in 0..LastSeg /\ LastSeg - (LastSeg - m) = m
    BY Constants, <2>1 DEF Seg
  <2> QED
    BY <2>1, <2>2
<1>3. PICK x \in T : \A y \in T : x <= y
  BY <1>1, <1>2, SmallestIsThere
<1>4. ASSUME NEW m \in S PROVE LastSeg - x >= m
  <2>1. m \in 0..LastSeg /\ LastSeg - m \in 0..LastSeg /\ LastSeg - (LastSeg - m) = m
    BY Constants DEF Seg
  <2>2. LastSeg - m \in T
    BY <2>1
  <2>3. x <= LastSeg - m /\ x \in 0..LastSeg
    BY <2>2, <1>3
  <2> QED
    BY <2>1, <2>3, Constants
<1>5. LastSeg - x \in S
  BY <1>3
<1>6. \E z \in S : \A y \in S : z >= y
  BY <1>4, <1>5
<1> QED
  BY <1>6 DEF Max

\* The end of a gap is a segment of the video.
LEMMA GapEndIsSegment ==
  ASSUME TypeOK, NEW n \in Target
  PROVE  GapEnd(n) \in Seg
<1> DEFINE later == {m \in segments : m > n}
<1>1. later \in SUBSET Nat /\ \A m \in later : m \in Seg /\ m > n
  BY Constants DEF TypeOK
<1>2. CASE later = {}
  BY <1>2, Constants DEF GapEnd
<1>3. CASE later # {}
  <2>1. Min(later) \in Seg /\ Min(later) > n
    BY <1>1, <1>3, MinIsThere
  <2>2. Min(later) - 1 \in Seg
    BY <2>1, Constants DEF Seg, Target
  <2> QED
    BY <1>3, <2>2 DEF GapEnd
<1> QED
  BY <1>2, <1>3

\* The threads CanSeek counts.
LEMMA AheadIsSeeking == Ahead = {t \in Seeking : ~IsAt(t, "publish")}
BY DEF Ahead, Seeking, IsAt

\* They can be counted.
LEMMA AheadFinite ==
  /\ IsFiniteSet(Ahead) /\ Cardinality(Ahead) \in Nat
  /\ IsFiniteSet(Ahead') /\ Cardinality(Ahead') \in Nat
<1>1. Ahead \in SUBSET Threads /\ Ahead' \in SUBSET Threads
  BY DEF Ahead
<1> QED
  BY <1>1, Constants, FS_Subset, FS_CardinalityType

\* A step that starts nothing and sends nobody to start something.
LEMMA RoomStays ==
  ASSUME TypeOK, RoomAhead, nextProc' = nextProc, Ahead' \subseteq Ahead
  PROVE  RoomAhead'
<1>1. Cardinality(Ahead') <= Cardinality(Ahead)
  BY AheadFinite, FS_Subset
<1>2. nextProc \in Nat
  BY DEF TypeOK
<1> QED
  BY <1>1, <1>2, AheadFinite, Constants DEF RoomAhead

\* A step that sends one more thread, with room for it.
LEMMA RoomForOne ==
  ASSUME TypeOK, CanSeek, nextProc' = nextProc, NEW t, Ahead' \subseteq Ahead \cup {t}
  PROVE  RoomAhead'
<1>1. /\ IsFiniteSet(Ahead \cup {t})
      /\ Cardinality(Ahead \cup {t}) = IF t \in Ahead THEN Cardinality(Ahead) ELSE Cardinality(Ahead) + 1
  BY AheadFinite, FS_AddElement
<1>2. Cardinality(Ahead') <= Cardinality(Ahead \cup {t})
  BY <1>1, FS_Subset
<1>3. nextProc \in Nat /\ nextProc + Cardinality(Ahead) <= MaxProc
  BY AheadIsSeeking DEF CanSeek, TypeOK
<1>4. Cardinality(Ahead \cup {t}) <= Cardinality(Ahead) + 1 /\ Cardinality(Ahead \cup {t}) \in Nat
  BY <1>1, AheadFinite
<1> QED
  BY <1>2, <1>3, <1>4, AheadFinite, Constants DEF RoomAhead

-----------------------------------------------------------------------------
(* Types and room: one lemma per group of actions *)

\* ffmpeg's own steps.
LEMMA FFmpegTypes ==
  ASSUME EncoderInv, NEW p \in Proc, FFmpeg(p)
  PROVE  EncoderInv'
<1>0. /\ TypeOK /\ Shape /\ RoomAhead
      /\ proc \in [Proc -> ProcType] /\ proc[p] \in ProcType
  BY DEF EncoderInv, TypeOK, ProcType
<1>1. UNCHANGED <<segments, currentSegment, cmd, closed, reaped, nextProc, thread, waiter, overlapped>>
  BY DEF FFmpeg, OpenSegment, FinishSegment, ExitFFmpeg
<1>2. \A st \in {"exited", "killed"} : Ended(st) \in ProcType /\ ~Ended(st).open /\ Ended(st).st # "running"
  BY Constants DEF Ended, ProcType
<1>3. /\ proc' \in [Proc -> ProcType] /\ file' \in [Seg -> {"none", "partial", "complete"}]
      /\ events' \in Seq(Seg)
      /\ \A q \in Proc : Running(q)' => Running(q)
      /\ \A q \in Proc : proc'[q].open => proc'[q].seg <= LastSeg
  <2>1. CASE OpenSegment(p)
    <3>1. proc[p].seg \in Seg
      BY <1>0, <2>1, Constants DEF OpenSegment, ProcType, Seg
    <3>2. /\ \/ proc' = [proc EXCEPT ![p] = Ended("killed")]
             \/ proc' = [proc EXCEPT ![p].open = TRUE]
          /\ file' = file \/ file' = [file EXCEPT ![proc[p].seg] = "partial"]
          /\ events' = events \/ events' = Append(events, proc[p].seg)
      BY <2>1 DEF OpenSegment
    <3>3. events' \in Seq(Seg)
      <4>1. events \in Seq(Seg)
        BY <1>0 DEF TypeOK
      <4>2. Append(events, proc[p].seg) \in Seq(Seg)
        BY <3>1, <4>1, AppendProperties
      <4> QED
        BY <3>2, <4>1, <4>2
    <3>4. /\ proc' \in [Proc -> ProcType] /\ \A q \in Proc : Running(q)' => Running(q)
          /\ \A q \in Proc : proc'[q].open => proc'[q].seg <= LastSeg
      <4>1. proc[p].seg <= LastSeg /\ Running(p)
        BY <2>1, <3>1, Constants DEF OpenSegment, Seg
      <4>2. CASE proc' = [proc EXCEPT ![p] = Ended("killed")]
        BY <1>0, <1>2, <4>2 DEF Running, Shape
      <4>3. CASE proc' = [proc EXCEPT ![p].open = TRUE]
        BY <1>0, <4>1, <4>3 DEF Running, Shape, ProcType
      <4> QED
        BY <3>2, <4>2, <4>3
    <3>5. file' \in [Seg -> {"none", "partial", "complete"}]
      BY <1>0, <3>2 DEF TypeOK
    <3> QED
      BY <3>3, <3>4, <3>5
  <2>2. CASE FinishSegment(p)
    <3>1. proc[p].seg \in 0..LastSeg
      BY <1>0, <2>2 DEF FinishSegment, Shape, ProcType
    <3>2. proc[p].seg + 1 \in 0..(LastSeg + 2)
      BY <3>1, Constants
    <3>3. proc' = [proc EXCEPT ![p].open = FALSE, ![p].seg = @ + 1]
      BY <2>2 DEF FinishSegment
    <3>4. /\ proc' \in [Proc -> ProcType] /\ \A q \in Proc : Running(q)' => Running(q)
          /\ \A q \in Proc : proc'[q].open => proc'[q].seg <= LastSeg
      BY <1>0, <3>2, <3>3 DEF Running, ProcType, Shape
    <3>5. /\ file' \in [Seg -> {"none", "partial", "complete"}] /\ events' \in Seq(Seg)
      BY <1>0, <2>2 DEF FinishSegment, TypeOK
    <3> QED
      BY <3>4, <3>5
  <2>3. CASE ExitFFmpeg(p)
    <3>1. \E st \in {"exited", "killed"} : proc' = [proc EXCEPT ![p] = Ended(st)]
      BY <2>3 DEF ExitFFmpeg
    <3>2. file' = file /\ events' = events
      BY <2>3 DEF ExitFFmpeg
    <3> QED
      BY <1>0, <1>2, <3>1, <3>2 DEF Running, Shape, TypeOK
  <2> QED
    BY <2>1, <2>2, <2>3 DEF FFmpeg
<1>4. TypeOK'
  BY <1>0, <1>1, <1>3 DEF TypeOK, ProcType
<1>5. Shape'
  BY <1>0, <1>1, <1>3 DEF Shape, IsAt
<1>6. RoomAhead'
  BY <1>0, <1>1, RoomStays DEF Ahead
<1> QED
  BY <1>4, <1>5, <1>6 DEF EncoderInv

\* Steps that only move threads, to points where they start nothing.
LEMMA ThreadMoves ==
  ASSUME EncoderInv,
         UNCHANGED <<segments, currentSegment, cmd, closed, file, events, procVars, waiter>>,
         overlapped' \in BOOLEAN,
         thread' \in [Threads -> ThreadType],
         \A c \in Clients : thread'[c].target \in Seg,
         \A t \in Threads : ~(thread'[t].at = "publish") \/ thread'[t] = thread[t]
  PROVE  TypeOK' /\ Shape'
<1>1. TypeOK'
  BY DEF EncoderInv, TypeOK, procVars, ThreadType
<1>2. Shape'
  BY DEF EncoderInv, Shape, procVars, IsAt, Running
<1> QED
  BY <1>1, <1>2

\* What At makes.
LEMMA AtType ==
  ASSUME NEW n \in Target,
         NEW point \in {"idle", "check", "head", "kill", "start", "publish", "wait", "served"}
  PROVE  /\ At(point, n) \in ThreadType /\ At(point, n).at = point /\ At(point, n).target = n
         /\ Idle \in ThreadType /\ Idle.at = "idle" /\ Idle.target = 0
BY Constants DEF At, Idle, ThreadType

\* A request, its end, and the gap filler it may leave behind.
LEMMA HandlerTypes ==
  ASSUME EncoderInv, NEW c \in Clients,
         Handle(c) \/ \E n \in Seg : RequestSegment(c, n)
  PROVE  EncoderInv'
<1>0. /\ TypeOK /\ Shape /\ RoomAhead /\ c \in Threads
      /\ thread \in [Threads -> ThreadType] /\ thread[c] \in ThreadType /\ thread[c].target \in Seg
  BY Constants DEF EncoderInv, TypeOK, ThreadType, Shape
<1>1. ASSUME NEW n \in Seg, RequestSegment(c, n) PROVE EncoderInv'
  <2>1. PICK point \in {"served", "wait", "check"} :
          /\ thread' = [thread EXCEPT ![c] = At(point, n)]
          /\ point = "check" => CanSeek
    BY <1>1 DEF RequestSegment
  <2>2. At(point, n) \in ThreadType /\ At(point, n).at = point /\ At(point, n).target = n
    BY AtType, Constants
  <2>3. /\ thread' \in [Threads -> ThreadType] /\ thread'[c] = At(point, n)
        /\ \A t \in Threads : t # c => thread'[t] = thread[t]
    BY <1>0, <2>1, <2>2
  <2>4. TypeOK' /\ Shape'
    <3>1. \A d \in Clients : thread'[d].target \in Seg
      BY <1>0, <2>2, <2>3, Constants DEF Shape
    <3>2. UNCHANGED <<segments, currentSegment, cmd, closed, file, events, procVars, waiter, overlapped>>
      BY <1>1 DEF RequestSegment
    <3>3. overlapped' \in BOOLEAN
      BY <1>0, <3>2 DEF TypeOK
    <3> QED
      BY <2>2, <2>3, <3>1, <3>2, <3>3, ThreadMoves
  <2>5. nextProc' = nextProc
    BY <1>1 DEF RequestSegment, procVars
  <2>6. CASE point = "check"
    <3>1. Ahead' \subseteq Ahead \cup {c}
      BY <2>3 DEF Ahead
    <3> QED
      BY <1>0, <2>1, <2>4, <2>5, <2>6, <3>1, RoomForOne DEF EncoderInv
  <2>7. CASE point # "check"
    <3>1. Ahead' \subseteq Ahead
      BY <2>2, <2>3, <2>7 DEF Ahead
    <3> QED
      BY <1>0, <2>4, <2>5, <3>1, RoomStays DEF EncoderInv
  <2> QED
    BY <2>6, <2>7
<1>2. CASE ServeWaiting(c)
  <2>1. \/ thread' = [thread EXCEPT ![c].at = "served"]
        \/ thread' = [thread EXCEPT ![c] = Idle]
    BY <1>2 DEF ServeWaiting
  <2>2. Idle \in ThreadType /\ Idle.at = "idle" /\ Idle.target = 0
    BY AtType, Constants
  <2>3. /\ thread' \in [Threads -> ThreadType]
        /\ \A t \in Threads : t # c => thread'[t] = thread[t]
        /\ thread'[c].at \in {"served", "idle"} /\ thread'[c].target \in Seg
    BY <1>0, <2>1, <2>2, Constants DEF ThreadType
  <2>4. TypeOK' /\ Shape'
    <3>1. UNCHANGED <<segments, currentSegment, cmd, closed, file, events, procVars, waiter, overlapped>>
      BY <1>2 DEF ServeWaiting
    <3>2. overlapped' \in BOOLEAN /\ \A d \in Clients : thread'[d].target \in Seg
      BY <1>0, <2>3, <3>1, Constants DEF TypeOK, Shape
    <3> QED
      BY <2>3, <3>1, <3>2, ThreadMoves
  <2>5. nextProc' = nextProc /\ Ahead' \subseteq Ahead
    BY <1>2, <2>3 DEF ServeWaiting, procVars, Ahead
  <2> QED
    BY <1>0, <2>4, <2>5, RoomStays DEF EncoderInv
<1>3. CASE Fill(c)
  <2>0. Idle \in ThreadType /\ Idle.at = "idle" /\ Idle.target = 0
    BY AtType, Constants
  <2>1. UNCHANGED <<segments, currentSegment, cmd, closed, file, events, procVars, waiter, overlapped>>
    BY <1>3 DEF Fill
  <2>2. overlapped' \in BOOLEAN /\ nextProc' = nextProc
    BY <1>0, <2>1 DEF TypeOK, procVars
  <2>3. CASE thread' = [thread EXCEPT ![c] = Idle]
    <3>1. /\ thread' \in [Threads -> ThreadType] /\ thread'[c] = Idle
          /\ \A t \in Threads : t # c => thread'[t] = thread[t]
      BY <1>0, <2>0, <2>3
    <3>2. \A d \in Clients : thread'[d].target \in Seg
      BY <1>0, <2>0, <3>1, Constants DEF Shape
    <3>3. TypeOK' /\ Shape'
      BY <2>0, <2>1, <2>2, <3>1, <3>2, ThreadMoves
    <3>4. Ahead' \subseteq Ahead
      BY <2>0, <3>1 DEF Ahead
    <3> QED
      BY <1>0, <2>2, <3>3, <3>4, RoomStays DEF EncoderInv
  <2>4. CASE CanSeek /\ \E f \in Fillers, seg \in {thread[c].target + 1, thread[c].target + 2} :
                 thread' = [thread EXCEPT ![c] = Idle, ![f] = At("check", seg)]
    <3>1. PICK f \in Fillers, seg \in {thread[c].target + 1, thread[c].target + 2} :
                 thread' = [thread EXCEPT ![c] = Idle, ![f] = At("check", seg)]
      BY <2>4
    <3>2. f \in Threads /\ f # c /\ f \notin Clients /\ seg \in Target
      BY <1>0, StreamEncoderAssumption, Constants DEF Seg, Target
    <3>3. At("check", seg) \in ThreadType /\ At("check", seg).at = "check"
      BY <3>2, AtType
    <3>4. /\ thread' \in [Threads -> ThreadType]
          /\ thread'[c] = Idle /\ thread'[f] = At("check", seg)
          /\ \A t \in Threads : t # c /\ t # f => thread'[t] = thread[t]
      BY <1>0, <2>0, <3>1, <3>2, <3>3
    <3>5. \A d \in Clients : thread'[d].target \in Seg
      BY <1>0, <2>0, <3>2, <3>4, Constants DEF Shape
    <3>6. TypeOK' /\ Shape'
      <4>1. \A t \in Threads : thread'[t].at # "publish" \/ thread'[t] = thread[t]
        BY <2>0, <3>3, <3>4
      <4> QED
        BY <2>1, <2>2, <3>4, <3>5, <4>1, ThreadMoves
    <3>7. Ahead' \subseteq Ahead \cup {f}
      BY <2>0, <3>4 DEF Ahead
    <3> QED
      BY <1>0, <2>2, <2>4, <3>6, <3>7, RoomForOne DEF EncoderInv
  <2>5. (thread[c].target + 1) + 1 = thread[c].target + 2
    <3>1. thread[c].target \in Nat
      BY <1>0, Constants
    <3> QED
      BY <3>1
  <2> QED
    BY <1>3, <2>3, <2>4, <2>5 DEF Fill
<1> QED
  BY <1>1, <1>2, <1>3 DEF Handle

\* A seek that checks the gap, reads the head, or kills.
LEMMA SeekTypes ==
  ASSUME EncoderInv, NEW t \in Threads, CheckGap(t) \/ ReadHead(t) \/ KillCurrent(t)
  PROVE  EncoderInv'
<1>0. /\ TypeOK /\ Shape /\ RoomAhead
      /\ thread \in [Threads -> ThreadType] /\ thread[t] \in ThreadType
      /\ thread[t].target \in Target /\ currentSegment \in Target
  BY DEF EncoderInv, TypeOK, ThreadType
<1>1. CASE CheckGap(t)
  <2>1. \/ thread' = [thread EXCEPT ![t] = AfterSeek(t)]
        \/ thread' = [thread EXCEPT ![t].at = "head", ![t].bound = GapEnd(thread[t].target)]
    BY <1>1 DEF CheckGap
  <2>2. GapEnd(thread[t].target) \in Seg
    BY <1>0, GapEndIsSegment
  <2>3. /\ AfterSeek(t) \in ThreadType /\ AfterSeek(t).at \in {"wait", "idle"}
        /\ t \in Clients => AfterSeek(t).target = thread[t].target
    BY <1>0, AtType, Constants DEF AfterSeek
  <2>4. /\ thread' \in [Threads -> ThreadType] /\ thread'[t].at \in {"wait", "idle", "head"}
        /\ \A u \in Threads : u # t => thread'[u] = thread[u]
        /\ t \in Clients => thread'[t].target = thread[t].target
    BY <1>0, <2>1, <2>2, <2>3 DEF ThreadType
  <2>5. /\ UNCHANGED <<segments, currentSegment, cmd, closed, file, events, procVars, waiter>>
        /\ overlapped' \in BOOLEAN
    BY <1>0, <1>1 DEF CheckGap, TypeOK
  <2>6. \A c \in Clients : thread'[c].target \in Seg
    BY <1>0, <2>4, Constants DEF Shape
  <2>7. TypeOK' /\ Shape'
    BY <2>4, <2>5, <2>6, ThreadMoves
  <2>8. nextProc' = nextProc /\ Ahead' \subseteq Ahead
    BY <1>1, <2>4, <2>5 DEF CheckGap, IsAt, Ahead, procVars
  <2> QED
    BY <1>0, <2>7, <2>8, RoomStays DEF EncoderInv
<1>2. CASE ReadHead(t)
  <2>1. thread' = [thread EXCEPT ![t].at = "kill", ![t].head = currentSegment]
    BY <1>2 DEF ReadHead
  <2>2. /\ thread' \in [Threads -> ThreadType] /\ thread'[t].at = "kill"
        /\ \A u \in Threads : u # t => thread'[u] = thread[u]
        /\ thread'[t].target = thread[t].target
    BY <1>0, <2>1 DEF ThreadType
  <2>3. /\ UNCHANGED <<segments, currentSegment, cmd, closed, file, events, procVars, waiter, overlapped>>
        /\ overlapped' \in BOOLEAN
    BY <1>0, <1>2 DEF ReadHead, TypeOK
  <2>4. \A c \in Clients : thread'[c].target \in Seg
    BY <1>0, <2>2, Constants DEF Shape
  <2>5. TypeOK' /\ Shape'
    BY <2>2, <2>3, <2>4, ThreadMoves
  <2>6. nextProc' = nextProc /\ Ahead' \subseteq Ahead
    BY <1>2, <2>2, <2>3 DEF ReadHead, IsAt, Ahead, procVars
  <2> QED
    BY <1>0, <2>5, <2>6, RoomStays DEF EncoderInv
<1>3. CASE KillCurrent(t)
  <2>1. /\ thread' = [thread EXCEPT ![t].at = "start"] /\ cmd' = None
        /\ proc' = IF cmd = None THEN proc ELSE Kill(cmd)
        /\ reaped' = reaped \cup ({cmd} \ {None})
        /\ UNCHANGED <<segments, currentSegment, closed, events, nextProc, waiter, overlapped>>
        /\ \E n \in {thread[t].head + 1, thread[t].head} : file' = RemoveFile(n)
    BY <1>3 DEF KillCurrent
  <2>2. /\ thread' \in [Threads -> ThreadType] /\ thread'[t].at = "start"
        /\ \A u \in Threads : u # t => thread'[u] = thread[u]
        /\ thread'[t].target = thread[t].target
    BY <1>0, <2>1 DEF ThreadType
  <2>3. file' \in [Seg -> {"none", "partial", "complete"}]
    BY <1>0, <2>1 DEF RemoveFile, TypeOK
  <2>4. /\ proc' \in [Proc -> ProcType]
        /\ \A q \in Proc : proc'[q].open => proc'[q].seg <= LastSeg
        /\ \A q \in Proc : Running(q)' => Running(q)
    <3>1. /\ Ended("killed") \in ProcType /\ ~Ended("killed").open
          /\ Ended("killed").st = "killed"
      BY Constants DEF Ended, ProcType
    <3>2. proc \in [Proc -> ProcType] /\ \A q \in Proc : proc[q].open => proc[q].seg <= LastSeg
      BY <1>0 DEF TypeOK, ProcType, Shape
    <3>3. CASE proc' = proc
      BY <3>2, <3>3 DEF Running
    <3>4. CASE proc' = [proc EXCEPT ![cmd] = IF @.st = "running" THEN Ended("killed") ELSE @]
      BY <3>1, <3>2, <3>4 DEF Running
    <3> QED
      BY <2>1, <3>3, <3>4 DEF Kill
  <2>5. TypeOK'
    BY <1>0, <2>1, <2>2, <2>3, <2>4 DEF TypeOK, ThreadType, ProcType
  <2>6. \A c \in Clients : thread'[c].target \in Seg
    BY <1>0, <2>2, Constants DEF Shape
  <2>7. Shape'
    BY <1>0, <2>1, <2>2, <2>4, <2>6 DEF Shape, IsAt
  <2>8. nextProc' = nextProc /\ Ahead' \subseteq Ahead
    BY <1>3, <2>1, <2>2 DEF KillCurrent, IsAt, Ahead
  <2> QED
    BY <1>0, <2>5, <2>7, <2>8, RoomStays DEF EncoderInv
<1> QED
  BY <1>1, <1>2, <1>3

\* cmd.Start takes the next number, which the bound leaves free.
LEMMA StartTypes ==
  ASSUME EncoderInv, NEW t \in Threads, StartFFmpeg(t)
  PROVE  EncoderInv' /\ nextProc \in Proc
<1>0. /\ TypeOK /\ Shape /\ RoomAhead
      /\ thread \in [Threads -> ThreadType] /\ thread[t] \in ThreadType
      /\ thread[t].target \in Target /\ thread[t].bound \in Seg
      /\ proc \in [Proc -> ProcType] /\ nextProc \in Nat
  BY DEF EncoderInv, TypeOK, ThreadType, ProcType
<1>1. /\ Cardinality(Ahead \ {t}) = Cardinality(Ahead) - 1 /\ Cardinality(Ahead \ {t}) \in Nat
      /\ IsFiniteSet(Ahead \ {t})
  <2>1. t \in Ahead
    BY DEF StartFFmpeg, IsAt, Ahead
  <2> QED
    BY <2>1, AheadFinite, FS_RemoveElement, FS_CardinalityType
<1>2. nextProc \in Proc /\ nextProc + 1 \in 2..(MaxProc + 1)
      /\ (nextProc + 1) + Cardinality(Ahead \ {t}) <= MaxProc + 1
  BY <1>0, <1>1, AheadFinite, Constants DEF RoomAhead, TypeOK, Proc
<1>3. UNCHANGED <<segments, currentSegment, cmd, closed, file, events, reaped, waiter, overlapped>>
  BY DEF StartFFmpeg
<1>4. CASE /\ thread' = [thread EXCEPT ![t].at = "publish", ![t].mine = nextProc]
           /\ proc' = [proc EXCEPT ![nextProc] = Started(thread[t].target, thread[t].bound)]
           /\ nextProc' = nextProc + 1
  <2>1. /\ thread' \in [Threads -> ThreadType] /\ thread'[t].at = "publish"
        /\ \A u \in Threads : u # t => thread'[u] = thread[u]
        /\ thread'[t].target = thread[t].target /\ thread'[t].mine = nextProc
    BY <1>0, <1>2, <1>4 DEF ThreadType
  <2>2. /\ Started(thread[t].target, thread[t].bound) \in ProcType
        /\ ~Started(thread[t].target, thread[t].bound).open
    BY <1>0 DEF Started, ProcType, Target
  <2>3. /\ proc' \in [Proc -> ProcType]
        /\ \A q \in Proc : proc'[q].open => proc'[q].seg <= LastSeg
        /\ \A q \in Proc : q # nextProc => proc'[q] = proc[q]
    BY <1>0, <1>2, <1>4, <2>2 DEF Shape
  <2>4. TypeOK'
    BY <1>0, <1>2, <1>3, <1>4, <2>1, <2>3 DEF TypeOK, ThreadType, ProcType
  <2>5. \A c \in Clients : thread'[c].target \in Seg
    BY <1>0, <2>1, Constants DEF Shape
  <2>6. ASSUME NEW u \in Threads, thread'[u].at = "publish"
        PROVE  thread'[u].mine \in Proc /\ thread'[u].mine < nextProc'
    <3>1. CASE u = t
      BY <1>0, <1>2, <1>4, <2>1, <3>1
    <3>2. CASE u # t
      <4>1. thread[u].mine \in Proc /\ thread[u].mine < nextProc
        BY <1>0, <2>1, <2>6, <3>2 DEF Shape, IsAt
      <4> QED
        BY <1>0, <1>4, <2>1, <3>2, <4>1, Constants
    <3> QED
      BY <3>1, <3>2
  <2>7. ASSUME NEW p \in Proc, Running(p)' \/ waiter[p].at # "none"
        PROVE  p < nextProc'
    <3>1. CASE p = nextProc
      BY <1>0, <1>4, <3>1
    <3>2. CASE p # nextProc
      <4>1. p < nextProc
        BY <1>0, <2>3, <2>7, <3>2 DEF Shape, Running
      <4> QED
        BY <1>0, <1>4, <4>1, Constants
    <3> QED
      BY <3>1, <3>2
  <2>8. Shape'
    BY <1>0, <1>3, <2>3, <2>5, <2>6, <2>7 DEF Shape, IsAt
  <2>9. RoomAhead'
    <3>1. Ahead' = Ahead \ {t}
      BY <2>1 DEF Ahead
    <3> QED
      BY <1>2, <1>4, <3>1 DEF RoomAhead
  <2> QED
    BY <1>2, <2>4, <2>8, <2>9 DEF EncoderInv
<1>5. CASE thread' = [thread EXCEPT ![t] = AfterSeek(t)] /\ UNCHANGED <<proc, nextProc>>
  <2>1. /\ AfterSeek(t) \in ThreadType /\ AfterSeek(t).at \in {"wait", "idle"}
        /\ t \in Clients => AfterSeek(t).target = thread[t].target
    BY <1>0, AtType, Constants DEF AfterSeek
  <2>2. /\ thread' \in [Threads -> ThreadType] /\ thread'[t].at \in {"wait", "idle"}
        /\ \A u \in Threads : u # t => thread'[u] = thread[u]
        /\ t \in Clients => thread'[t].target = thread[t].target
    BY <1>0, <1>5, <2>1
  <2>3. \A c \in Clients : thread'[c].target \in Seg
    BY <1>0, <2>2, Constants DEF Shape
  <2>4. overlapped' \in BOOLEAN /\ UNCHANGED procVars
    BY <1>0, <1>3, <1>5 DEF TypeOK, procVars
  <2>5. TypeOK' /\ Shape'
    BY <1>3, <2>2, <2>3, <2>4, ThreadMoves
  <2>6. Ahead' \subseteq Ahead
    BY <2>2 DEF Ahead
  <2> QED
    BY <1>0, <1>2, <1>5, <2>5, <2>6, RoomStays DEF EncoderInv
<1> QED
  BY <1>4, <1>5 DEF StartFFmpeg

\* Storing the handle starts the goroutine that waits for the process.
LEMMA PublishTypes ==
  ASSUME EncoderInv, NEW t \in Threads, Publish(t)
  PROVE  EncoderInv'
<1>0. /\ TypeOK /\ Shape /\ RoomAhead
      /\ thread \in [Threads -> ThreadType] /\ thread[t] \in ThreadType
      /\ thread[t].target \in Target /\ thread[t].mine \in Proc /\ thread[t].mine < nextProc
      /\ waiter \in [Proc -> WaiterType]
  BY DEF EncoderInv, TypeOK, ThreadType, WaiterType, Shape, Publish
<1>1. /\ cmd' = thread[t].mine /\ currentSegment' = thread[t].target
      /\ thread' = [thread EXCEPT ![t] = AfterSeek(t)]
      /\ waiter' = [waiter EXCEPT ![thread[t].mine] = Log("spawned", None, 0)]
      /\ UNCHANGED <<segments, closed, file, events, procVars, overlapped>>
  BY DEF Publish
<1>2. Log("spawned", None, 0) \in WaiterType /\ Log("spawned", None, 0).at = "spawned"
  BY Constants DEF Log, WaiterType
<1>3. /\ AfterSeek(t) \in ThreadType /\ AfterSeek(t).at \in {"wait", "idle"}
      /\ t \in Clients => AfterSeek(t).target = thread[t].target
  BY <1>0, AtType, Constants DEF AfterSeek
<1>4. /\ thread' \in [Threads -> ThreadType] /\ thread'[t].at \in {"wait", "idle"}
      /\ \A u \in Threads : u # t => thread'[u] = thread[u]
      /\ t \in Clients => thread'[t].target = thread[t].target
  BY <1>0, <1>1, <1>3
<1>5. /\ waiter' \in [Proc -> WaiterType] /\ waiter'[thread[t].mine].at = "spawned"
      /\ \A p \in Proc : p # thread[t].mine => waiter'[p] = waiter[p]
  BY <1>0, <1>1, <1>2
<1>6. TypeOK'
  BY <1>0, <1>1, <1>4, <1>5 DEF TypeOK, procVars, ThreadType, WaiterType
<1>7. \A c \in Clients : thread'[c].target \in Seg
  BY <1>0, <1>4, Constants DEF Shape
<1>8. Shape'
  BY <1>0, <1>1, <1>4, <1>5, <1>7 DEF Shape, procVars, IsAt, Running
<1>9. nextProc' = nextProc /\ Ahead' \subseteq Ahead
  BY <1>1, <1>4 DEF Ahead, procVars
<1> QED
  BY <1>0, <1>6, <1>8, <1>9, RoomStays DEF EncoderInv

\* The watcher, waitAndLog and the cleanup send nobody to start a process.
LEMMA WatchTypes ==
  ASSUME EncoderInv, NEW n \in Seg, WatchEvent(n)
  PROVE  EncoderInv'
<1>0. TypeOK /\ Shape /\ RoomAhead /\ events \in Seq(Seg) /\ n \in Target
  BY Constants DEF EncoderInv, TypeOK
<1>1. /\ events # <<>> /\ events' = Tail(events) /\ currentSegment' = n
      /\ segments' = IF n > 0 /\ file[n - 1] = "none" THEN segments \cup {n - 1} ELSE segments
      /\ UNCHANGED <<cmd, closed, file, procVars, thread, waiter, overlapped>>
  BY DEF WatchEvent
<1>2. events' \in Seq(Seg)
  BY <1>0, <1>1, HeadTailProperties
<1>3. segments' \subseteq Seg
  <2>1. n > 0 => n - 1 \in Seg
    BY Constants DEF Seg
  <2> QED
    BY <1>0, <1>1, <2>1 DEF TypeOK
<1>4. TypeOK'
  BY <1>0, <1>1, <1>2, <1>3 DEF TypeOK, procVars
<1>5. Shape'
  BY <1>0, <1>1 DEF Shape, procVars, IsAt, Running
<1> QED
  BY <1>0, <1>1, <1>4, <1>5, RoomStays DEF EncoderInv, procVars, Ahead

\* It takes the status of a process that exists, and marks a segment that does.
LEMMA WaitLogTypes ==
  ASSUME EncoderInv, NEW p \in Proc, WaitLog(p)
  PROVE  EncoderInv'
<1>0. /\ TypeOK /\ Shape /\ RoomAhead /\ waiter \in [Proc -> WaiterType] /\ waiter[p] \in WaiterType
      /\ cmd \in Proc \cup {None}
  BY DEF EncoderInv, TypeOK, WaiterType
<1>1. /\ UNCHANGED <<currentSegment, cmd, closed, file, events, proc, nextProc, thread, overlapped>>
      /\ waiter[p].at # "none"
  BY DEF WaitLog, ReadCmd, WaitReturns, MarkHighest, procVars
<1>2. /\ waiter' \in [Proc -> WaiterType]
      /\ \A q \in Proc : q # p => waiter'[q] = waiter[q]
      /\ waiter'[p].at = "waiting" => waiter'[p].cmd # None
      /\ segments' \subseteq Seg /\ reaped' \subseteq Proc
  <2>0. Log("done", None, 0) \in WaiterType /\ Log("done", None, 0).at = "done"
    BY Constants DEF Log, WaiterType
  <2>1. CASE ReadCmd(p)
    <3>1. Log("waiting", cmd, 0) \in WaiterType /\ Log("waiting", cmd, 0).cmd = cmd
      BY <1>0, Constants DEF Log, WaiterType
    <3>2. /\ waiter' = [waiter EXCEPT ![p] = IF cmd = None THEN Log("done", None, 0)
                                                            ELSE Log("waiting", cmd, 0)]
          /\ segments' = segments /\ reaped' = reaped
      BY <2>1 DEF ReadCmd, procVars
    <3> QED
      BY <1>0, <2>0, <3>1, <3>2 DEF TypeOK
  <2>2. CASE WaitReturns(p)
    <3> DEFINE onDisk == {n \in Seg : file[n] # "none"}
    <3>1. waiter[p].cmd \in Proc
      BY <1>0, <2>2 DEF WaitReturns, Shape, WaiterType
    <3>2. /\ reaped' = reaped \cup {waiter[p].cmd} /\ segments' = segments
          /\ \/ waiter' = [waiter EXCEPT ![p] = Log("done", None, 0)]
             \/ /\ onDisk # {}
                /\ waiter' = [waiter EXCEPT ![p] = Log("scanned", None, Max(onDisk))]
      BY <2>2 DEF WaitReturns
    <3>3. onDisk # {} => /\ Log("scanned", None, Max(onDisk)) \in WaiterType
                         /\ Log("scanned", None, Max(onDisk)).at = "scanned"
      <4>1. onDisk # {} => Max(onDisk) \in Seg
        BY MaxIsThere
      <4> HIDE DEF onDisk
      <4> QED
        BY <4>1 DEF Log, WaiterType
    <3> HIDE DEF onDisk
    <3>4. segments \subseteq Seg /\ reaped \subseteq Proc
      BY <1>0 DEF TypeOK
    <3> QED
      BY <1>0, <2>0, <3>1, <3>2, <3>3, <3>4
  <2>3. CASE MarkHighest(p)
    BY <1>0, <2>0, <2>3 DEF MarkHighest, TypeOK, WaiterType, procVars
  <2> QED
    BY <2>1, <2>2, <2>3 DEF WaitLog
<1>3. TypeOK'
  BY <1>0, <1>1, <1>2 DEF TypeOK, WaiterType
<1>4. Shape'
  BY <1>0, <1>1, <1>2 DEF Shape, IsAt, Running
<1> QED
  BY <1>0, <1>1, <1>3, <1>4, RoomStays DEF EncoderInv, Ahead

\* What it removes and kills keeps its type.
LEMMA CleanupTypes ==
  ASSUME EncoderInv, CleanupSession
  PROVE  EncoderInv'
<1>0. TypeOK /\ Shape /\ RoomAhead /\ proc \in [Proc -> ProcType]
  BY DEF EncoderInv, TypeOK, ProcType
<1>1. /\ closed' = TRUE /\ file' = [n \in Seg |-> "none"] /\ events' = <<>>
      /\ proc' = proc \/ proc' = [proc EXCEPT ![cmd] = IF @.st = "running" THEN Ended("killed") ELSE @]
      /\ reaped' = reaped \cup ({cmd} \ {None})
      /\ UNCHANGED <<segments, currentSegment, cmd, nextProc, thread, waiter, overlapped>>
  BY DEF CleanupSession, Kill
<1>2. /\ proc' \in [Proc -> ProcType] /\ \A q \in Proc : Running(q)' => Running(q)
      /\ \A q \in Proc : proc'[q].open => proc'[q].seg <= LastSeg
  <2>1. Ended("killed") \in ProcType /\ ~Ended("killed").open /\ Ended("killed").st = "killed"
    BY Constants DEF Ended, ProcType
  <2>2. CASE proc' = proc
    BY <1>0, <2>2 DEF Running, Shape
  <2>3. CASE proc' = [proc EXCEPT ![cmd] = IF @.st = "running" THEN Ended("killed") ELSE @]
    BY <1>0, <2>1, <2>3 DEF Running, Shape
  <2> QED
    BY <1>1, <2>2, <2>3
<1>3. events' \in Seq(Seg)
  BY <1>1, EmptySeq
<1>4. TypeOK'
  BY <1>0, <1>1, <1>2, <1>3 DEF TypeOK, ProcType
<1>5. Shape'
  BY <1>0, <1>1, <1>2 DEF Shape, IsAt
<1> QED
  BY <1>0, <1>1, <1>4, <1>5, RoomStays DEF EncoderInv, Ahead

\* Every step keeps the types and the room.
LEMMA TypesStep == EncoderInv /\ [Next]_vars => EncoderInv'
<1> SUFFICES ASSUME EncoderInv, [Next]_vars PROVE EncoderInv'
  OBVIOUS
<1>1. CASE UNCHANGED vars
  <2>1. TypeOK /\ Shape /\ RoomAhead
    BY DEF EncoderInv
  <2>2. TypeOK' /\ Shape'
    BY <1>1, <2>1 DEF vars, procVars, TypeOK, Shape, IsAt, Running
  <2>3. RoomAhead'
    BY <1>1, <2>1 DEF vars, procVars, RoomAhead, Ahead
  <2> QED
    BY <2>2, <2>3 DEF EncoderInv
<1>2. ASSUME NEW p \in Proc, FFmpeg(p) \/ WaitLog(p) PROVE EncoderInv'
  BY <1>2, FFmpegTypes, WaitLogTypes
<1>3. ASSUME NEW t \in Threads, Seek(t) PROVE EncoderInv'
  BY <1>3, SeekTypes, StartTypes, PublishTypes DEF Seek
<1>4. ASSUME NEW c \in Clients, Handle(c) \/ \E n \in Seg : RequestSegment(c, n) PROVE EncoderInv'
  BY <1>4, HandlerTypes
<1>5. ASSUME NEW n \in Seg, WatchEvent(n) PROVE EncoderInv'
  BY <1>5, WatchTypes
<1> QED
  BY <1>1, <1>2, <1>3, <1>4, <1>5, CleanupTypes DEF Next

\* GetOrCreateSession's session has its types.
LEMMA TypesInit == Init => EncoderInv
<1> SUFFICES ASSUME Init PROVE EncoderInv
  OBVIOUS
<1>1. /\ Started(0, LastSeg) \in ProcType /\ ~Started(0, LastSeg).open
      /\ Ended("none") \in ProcType /\ ~Ended("none").open /\ Ended("none").st = "none"
  BY Constants DEF Started, Ended, ProcType
<1>2. Idle \in ThreadType /\ Idle.at = "idle" /\ Idle.target = 0
  BY AtType, Constants
<1>3. \A point \in {"spawned", "none"} :
        Log(point, None, 0) \in WaiterType /\ Log(point, None, 0).at = point
  BY Constants DEF Log, WaiterType
<1>4. /\ proc \in [Proc -> ProcType] /\ \A p \in Proc : ~proc[p].open /\ (Running(p) => p = 1)
      /\ thread \in [Threads -> ThreadType] /\ \A t \in Threads : thread[t] = Idle
      /\ waiter \in [Proc -> WaiterType]
      /\ \A p \in Proc : waiter[p].at = IF p = 1 THEN "spawned" ELSE "none"
  BY <1>1, <1>2, <1>3 DEF Init, Running
<1>5. /\ nextProc = 2 /\ nextProc \in 2..(MaxProc + 1) /\ events \in Seq(Seg)
      /\ cmd = 1 /\ reaped = {} /\ segments = {} /\ currentSegment = 0
      /\ closed = FALSE /\ overlapped = FALSE /\ file = [n \in Seg |-> "none"]
  BY Constants, EmptySeq DEF Init
<1>6. TypeOK
  BY <1>4, <1>5, Constants DEF TypeOK, ProcType, ThreadType, WaiterType
<1>7. Shape
  BY <1>2, <1>4, <1>5, Constants DEF Shape, IsAt
<1>8. RoomAhead
  <2>1. Ahead = {}
    BY <1>2, <1>4 DEF Ahead
  <2> QED
    BY <1>5, <2>1, FS_EmptySet, Constants DEF RoomAhead
<1> QED
  BY <1>6, <1>7, <1>8 DEF EncoderInv

-----------------------------------------------------------------------------
(* One seek at a time *)

\* The invariant looks at these only.
LEMMA SerialKept ==
  ASSUME Serial, UNCHANGED <<cmd, reaped, nextProc, waiter>>,
         \A p \in Proc : Running(p)' => Running(p),
         \A t \in Threads : InSeek(t) \/ InSeek(t)' => thread'[t] = thread[t]
  PROVE  Serial'
<1>1. \A t \in Threads : InSeek(t)' <=> InSeek(t)
  BY DEF InSeek
<1>2. \A t \in Threads : thread'[t].at \in {"start", "publish"} => thread'[t] = thread[t]
  BY DEF InSeek
<1>3. OneSeek'
  BY <1>1, <1>2 DEF Serial, OneSeek, IsAt
<1>4. \A p : AtHand(p)' <=> AtHand(p)
  BY <1>1 DEF AtHand, IsAt, InSeek
<1>5. EveryoneReachable'
  BY <1>4 DEF Serial, EveryoneReachable, Stored
<1>6. EveryoneWaitedFor'
  BY <1>4 DEF Serial, EveryoneWaitedFor, Stored, Awaited
<1> QED
  BY <1>3, <1>5, <1>6 DEF Serial

\* A thread that moves within its seek, to a point where it has nothing in hand.
LEMMA SerialMoves ==
  ASSUME Serial, UNCHANGED <<cmd, proc, reaped, nextProc, waiter>>, NEW t \in Threads,
         ~IsAt(t, "publish"), thread'[t].at \notin {"start", "publish"},
         \A u \in Threads : u # t => thread'[u] = thread[u],
         InSeek(t)' => InSeek(t) \/ \A u \in Threads : ~InSeek(u)
  PROVE  Serial'
<1>1. \A u \in Threads : u # t => (InSeek(u)' <=> InSeek(u))
  BY DEF InSeek
<1>2. OneSeek'
  BY <1>1 DEF Serial, OneSeek, IsAt
<1>3. \A p : AtHand(p)' <=> AtHand(p)
  BY DEF AtHand, IsAt
<1>4. EveryoneReachable'
  BY <1>3 DEF Serial, EveryoneReachable, Stored, Running
<1>5. EveryoneWaitedFor'
  BY <1>3 DEF Serial, EveryoneWaitedFor, Stored, Awaited
<1> QED
  BY <1>2, <1>4, <1>5 DEF Serial

\* The kill empties the handle: nothing is left running.
LEMMA KillSerial ==
  ASSUME EncoderInv, Serial, NEW t \in Threads, KillCurrent(t)
  PROVE  Serial'
<1>0. /\ thread \in [Threads -> ThreadType] /\ cmd \in Proc \cup {None} /\ IsAt(t, "kill")
      /\ \A u \in Threads : InSeek(u) => u = t
  BY DEF EncoderInv, TypeOK, ThreadType, KillCurrent, IsAt, Serial, OneSeek, InSeek
<1>1. /\ thread' = [thread EXCEPT ![t].at = "start"] /\ cmd' = None
      /\ proc' = (IF cmd = None THEN proc ELSE Kill(cmd))
      /\ reaped' = reaped \cup ({cmd} \ {None})
      /\ UNCHANGED <<nextProc, waiter>>
  BY DEF KillCurrent
<1>2. thread'[t].at = "start" /\ \A u \in Threads : u # t => thread'[u] = thread[u]
  BY <1>0, <1>1 DEF ThreadType
<1>3. /\ \A u \in Threads : InSeek(u)' => u = t
      /\ \A u \in Threads : ~IsAt(u, "publish") /\ ~IsAt(u, "publish")'
  BY <1>0, <1>2 DEF InSeek, IsAt
<1>4. OneSeek'
  BY <1>1, <1>3 DEF OneSeek
<1>5. \A p \in Proc : ~Running(p)'
  <2> SUFFICES ASSUME NEW p \in Proc PROVE ~Running(p)'
    OBVIOUS
  <2>1. Running(p) => p = cmd
    BY <1>3 DEF Serial, EveryoneReachable, Stored, AtHand
  <2>2. proc \in [Proc -> ProcType]
    BY DEF EncoderInv, TypeOK, ProcType
  <2>3. CASE cmd = None
    BY <1>1, <2>1, <2>3, Constants DEF Running
  <2>4. CASE cmd # None
    BY <1>1, <2>1, <2>2, <2>4 DEF Running, Kill, Ended
  <2> QED
    BY <2>3, <2>4
<1>6. EveryoneReachable'
  BY <1>5 DEF EveryoneReachable
<1>7. EveryoneWaitedFor'
  <2> SUFFICES ASSUME NEW p \in 1..(nextProc - 1) PROVE p \in reaped' \/ Awaited(p)'
    BY <1>1 DEF EveryoneWaitedFor
  <2>1. p # None
    BY DEF None
  <2>2. p \in reaped \/ Awaited(p) \/ p = cmd
    BY <1>3 DEF Serial, EveryoneWaitedFor, Stored, AtHand
  <2> QED
    BY <1>1, <2>1, <2>2 DEF Awaited
<1> QED
  BY <1>4, <1>6, <1>7 DEF Serial

\* The process is in the hands of the only seek until it is stored.
LEMMA StartSerial ==
  ASSUME EncoderInv, Serial, NEW t \in Threads, StartFFmpeg(t)
  PROVE  Serial'
<1>0. /\ thread \in [Threads -> ThreadType] /\ IsAt(t, "start") /\ cmd = None
      /\ \A u \in Threads : InSeek(u) => u = t
  BY DEF EncoderInv, TypeOK, ThreadType, StartFFmpeg, IsAt, Serial, OneSeek, InSeek
<1>1. \A p \in Proc : ~Running(p)
  BY <1>0, Constants DEF Serial, EveryoneReachable, Stored, AtHand, IsAt, InSeek
<1>2. UNCHANGED <<cmd, reaped, waiter>> /\ nextProc \in Proc
  BY StartTypes DEF StartFFmpeg
<1>3. CASE /\ thread' = [thread EXCEPT ![t].at = "publish", ![t].mine = nextProc]
           /\ proc' = [proc EXCEPT ![nextProc] = Started(thread[t].target, thread[t].bound)]
           /\ nextProc' = nextProc + 1
  <2>1. /\ thread'[t].at = "publish" /\ thread'[t].mine = nextProc
        /\ \A u \in Threads : u # t => thread'[u] = thread[u]
    BY <1>0, <1>3 DEF ThreadType
  <2>2. \A u \in Threads : InSeek(u)' => u = t
    BY <1>0, <2>1 DEF InSeek
  <2>3. waiter[nextProc].at = "none"
    BY <1>2, Constants DEF EncoderInv, Shape
  <2>4. OneSeek'
    BY <1>0, <1>2, <2>1, <2>2, <2>3 DEF OneSeek, InSeek, IsAt
  <2>5. \E u \in Threads : thread'[u].at = "publish" /\ thread'[u].mine = nextProc
    BY <2>1
  <2>6. \A p \in Proc : p # nextProc => ~Running(p)'
    <3>1. proc \in [Proc -> ProcType]
      BY DEF EncoderInv, TypeOK, ProcType
    <3> QED
      BY <1>1, <1>3, <3>1 DEF Running
  <2>7. EveryoneReachable'
    BY <2>5, <2>6 DEF EveryoneReachable, AtHand, IsAt
  <2>8. EveryoneWaitedFor'
    <3> SUFFICES ASSUME NEW p \in 1..(nextProc' - 1), p # nextProc
                 PROVE  p \in reaped' \/ Awaited(p)'
      BY <2>5 DEF EveryoneWaitedFor, AtHand, IsAt
    <3>1. p \in 1..(nextProc - 1) /\ p # None
      BY <1>2, <1>3, Constants DEF None
    <3>2. ~AtHand(p) /\ ~Stored(p)
      BY <1>0, <3>1 DEF AtHand, Stored, IsAt, InSeek
    <3> QED
      BY <1>2, <3>1, <3>2 DEF Serial, EveryoneWaitedFor, Awaited
  <2> QED
    BY <2>4, <2>7, <2>8 DEF Serial
<1>4. CASE thread' = [thread EXCEPT ![t] = AfterSeek(t)] /\ UNCHANGED <<proc, nextProc>>
  <2>1. AfterSeek(t).at \in {"wait", "idle"}
    BY DEF AfterSeek, At, Idle
  <2>2. thread'[t].at \in {"wait", "idle"} /\ \A u \in Threads : u # t => thread'[u] = thread[u]
    BY <1>0, <1>4, <2>1
  <2> QED
    BY <1>0, <1>2, <1>4, <2>2, SerialMoves DEF IsAt, InSeek
<1> QED
  BY <1>3, <1>4 DEF StartFFmpeg

\* The handle was empty, and the process has a waitAndLog of its own.
LEMMA PublishSerial ==
  ASSUME EncoderInv, Serial, NEW t \in Threads, Publish(t)
  PROVE  Serial'
<1>0. /\ thread \in [Threads -> ThreadType] /\ waiter \in [Proc -> WaiterType]
      /\ IsAt(t, "publish") /\ cmd = None /\ thread[t].mine \in Proc
      /\ waiter[thread[t].mine].at = "none"
      /\ \A u \in Threads : InSeek(u) => u = t
  BY DEF EncoderInv, Shape, TypeOK, ThreadType, WaiterType, Publish, IsAt, Serial, OneSeek, InSeek
<1>1. /\ cmd' = thread[t].mine /\ thread' = [thread EXCEPT ![t] = AfterSeek(t)]
      /\ waiter' = [waiter EXCEPT ![thread[t].mine] = Log("spawned", None, 0)]
      /\ UNCHANGED <<proc, reaped, nextProc>>
  BY DEF Publish, procVars
<1>2. AfterSeek(t).at \in {"wait", "idle"} /\ Log("spawned", None, 0).at = "spawned"
  BY DEF AfterSeek, At, Idle, Log
<1>3. \A u \in Threads : ~InSeek(u)'
  BY <1>0, <1>1, <1>2 DEF InSeek
<1>4. OneSeek'
  BY <1>3 DEF OneSeek, InSeek, IsAt
<1>5. \A p : AtHand(p) => p = cmd'
  BY <1>0, <1>1 DEF AtHand, IsAt, InSeek
<1>6. EveryoneReachable'
  BY <1>0, <1>1, <1>5, Constants DEF Serial, EveryoneReachable, Stored, Running
<1>7. EveryoneWaitedFor'
  <2> SUFFICES ASSUME NEW p \in 1..(nextProc - 1)
               PROVE  \/ p \in reaped
                      \/ Awaited(p)'
                      \/ p = cmd' /\ \E q \in Proc : waiter'[q].at = "spawned"
    BY <1>1 DEF EveryoneWaitedFor, Stored
  <2>1. \E q \in Proc : waiter'[q].at = "spawned"
    BY <1>0, <1>1, <1>2
  <2>2. p # None
    BY DEF None
  <2>3. p \in reaped \/ Awaited(p) \/ p = cmd'
    BY <1>0, <1>5, <2>2 DEF Serial, EveryoneWaitedFor, Stored
  <2>4. Awaited(p) => Awaited(p)'
    BY <1>0, <1>1 DEF Awaited
  <2> QED
    BY <2>1, <2>3, <2>4
<1> QED
  BY <1>4, <1>6, <1>7 DEF Serial

\* A waitAndLog goes from the handle to the process it found in it, and that one's
\* status is taken when it ends.
LEMMA WaitLogSerial ==
  ASSUME EncoderInv, Serial, NEW p \in Proc, WaitLog(p)
  PROVE  Serial'
<1>0. /\ waiter \in [Proc -> WaiterType] /\ waiter[p].at # "none"
      /\ UNCHANGED <<cmd, proc, nextProc, thread>>
  BY DEF EncoderInv, TypeOK, WaiterType, WaitLog, ReadCmd, WaitReturns, MarkHighest, procVars
<1>1. /\ \A q \in Proc : q # p => waiter'[q] = waiter[q]
      /\ waiter[p].at = "spawned" => cmd = None \/ (waiter'[p].at = "waiting" /\ waiter'[p].cmd = cmd)
      /\ waiter[p].at = "waiting" => waiter[p].cmd \in reaped'
      /\ reaped \subseteq reaped'
  BY <1>0 DEF WaitLog, ReadCmd, WaitReturns, MarkHighest, Log, procVars
<1>2. OneSeek'
  <2>1. ASSUME NEW t \in Threads, IsAt(t, "publish") PROVE waiter'[thread[t].mine].at = "none"
    <3>1. thread[t].mine \in Proc /\ waiter[thread[t].mine].at = "none"
      BY <2>1 DEF EncoderInv, Shape, Serial, OneSeek
    <3> QED
      BY <1>0, <1>1, <3>1
  <2> QED
    BY <1>0, <2>1 DEF Serial, OneSeek, InSeek, IsAt
<1>3. \A q : AtHand(q)' <=> AtHand(q)
  BY <1>0 DEF AtHand, IsAt
<1>4. EveryoneReachable'
  BY <1>0, <1>3 DEF Serial, EveryoneReachable, Stored, Running
<1>5. EveryoneWaitedFor'
  <2> SUFFICES ASSUME NEW n \in 1..(nextProc - 1)
               PROVE  \/ n \in reaped'
                      \/ Awaited(n)'
                      \/ Stored(n) /\ \E q \in Proc : waiter'[q].at = "spawned"
                      \/ AtHand(n)
    BY <1>0, <1>3 DEF EveryoneWaitedFor, Stored
  <2>1. CASE n \in reaped \/ AtHand(n)
    BY <1>1, <2>1
  <2>2. CASE Awaited(n)
    BY <1>1, <2>2 DEF Awaited
  <2>3. CASE Stored(n) /\ \E q \in Proc : waiter[q].at = "spawned"
    <3>1. n # None /\ cmd = n
      BY <2>3 DEF None, Stored
    <3> QED
      BY <1>1, <2>3, <3>1 DEF Awaited
  <2> QED
    BY <2>1, <2>2, <2>3 DEF Serial, EveryoneWaitedFor
<1> QED
  BY <1>2, <1>4, <1>5 DEF Serial

\* The cleanup kills and reaps what the handle leads to.
LEMMA CleanupSerial ==
  ASSUME EncoderInv, Serial, CleanupSession
  PROVE  Serial'
<1>1. /\ UNCHANGED <<cmd, nextProc, thread, waiter>> /\ reaped \subseteq reaped'
      /\ proc' = proc \/ proc' = [proc EXCEPT ![cmd] = IF @.st = "running" THEN Ended("killed") ELSE @]
  BY DEF CleanupSession, Kill
<1>2. \A p \in Proc : Running(p)' => Running(p)
  <2>1. proc \in [Proc -> ProcType]
    BY DEF EncoderInv, TypeOK, ProcType
  <2> QED
    BY <1>1, <2>1 DEF Running, Ended
<1>3. OneSeek'
  BY <1>1 DEF Serial, OneSeek, InSeek, IsAt
<1>4. EveryoneReachable'
  BY <1>1, <1>2 DEF Serial, EveryoneReachable, Stored, AtHand, IsAt
<1>5. EveryoneWaitedFor'
  BY <1>1 DEF Serial, EveryoneWaitedFor, Stored, AtHand, Awaited, IsAt
<1> QED
  BY <1>3, <1>4, <1>5 DEF Serial

\* The check of the gap is where a second seek would show.
LEMMA CheckSerial ==
  ASSUME EncoderInv, Serial, NEW t \in Threads, CheckGap(t), ~overlapped'
  PROVE  Serial'
<1>0. thread \in [Threads -> ThreadType] /\ IsAt(t, "check")
  BY DEF EncoderInv, TypeOK, ThreadType, CheckGap
<1>1. /\ UNCHANGED <<cmd, procVars, waiter>>
      /\ \/ thread' = [thread EXCEPT ![t] = AfterSeek(t)]
         \/ /\ thread' = [thread EXCEPT ![t].at = "head", ![t].bound = GapEnd(thread[t].target)]
            /\ \A u \in Seeking \ {t} : IsAt(u, "check")
  BY DEF CheckGap
<1>2. AfterSeek(t).at \in {"wait", "idle"}
  BY DEF AfterSeek, At, Idle
<1>3. /\ \A u \in Threads : u # t => thread'[u] = thread[u]
      /\ thread'[t].at \in {"wait", "idle", "head"}
      /\ thread'[t].at = "head" => \A u \in Threads : ~InSeek(u)
  <2>1. CASE thread' = [thread EXCEPT ![t] = AfterSeek(t)]
    BY <1>0, <1>2, <2>1
  <2>2. CASE /\ thread' = [thread EXCEPT ![t].at = "head", ![t].bound = GapEnd(thread[t].target)]
             /\ \A u \in Seeking \ {t} : IsAt(u, "check")
    BY <1>0, <2>2 DEF ThreadType, InSeek, Seeking, IsAt
  <2> QED
    BY <1>1, <2>1, <2>2
<1> QED
  BY <1>0, <1>1, <1>3, SerialMoves DEF IsAt, InSeek, procVars

\* Handlers and ffmpeg are not part of a seek.
LEMMA OthersSerial ==
  ASSUME EncoderInv, Serial
  PROVE  /\ \A p \in Proc : FFmpeg(p) => Serial'
         /\ \A c \in Clients : Handle(c) \/ (\E n \in Seg : RequestSegment(c, n)) => Serial'
         /\ \A n \in Seg : WatchEvent(n) => Serial'
<1>0. thread \in [Threads -> ThreadType] /\ proc \in [Proc -> ProcType] /\ Clients \subseteq Threads
  BY Constants DEF EncoderInv, TypeOK, ThreadType, ProcType
<1>1. ASSUME NEW p \in Proc, FFmpeg(p) PROVE Serial'
  <2>1. /\ UNCHANGED <<cmd, reaped, nextProc, waiter, thread>> /\ Running(p)
        /\ \/ proc' = [proc EXCEPT ![p].open = TRUE]
           \/ proc' = [proc EXCEPT ![p].open = FALSE, ![p].seg = @ + 1]
           \/ \E st \in {"exited", "killed"} : proc' = [proc EXCEPT ![p] = Ended(st)]
    BY <1>1 DEF FFmpeg, OpenSegment, FinishSegment, ExitFFmpeg
  <2>2. \A q \in Proc : Running(q)' => Running(q)
    BY <1>0, <2>1 DEF Running, ProcType
  <2> QED
    BY <2>1, <2>2, SerialKept
<1>2. ASSUME NEW c \in Clients, Handle(c) \/ \E n \in Seg : RequestSegment(c, n) PROVE Serial'
  <2>1. UNCHANGED <<cmd, proc, reaped, nextProc, waiter>>
    BY <1>2 DEF Handle, ServeWaiting, Fill, RequestSegment, procVars
  <2>2. \A t \in Threads : InSeek(t) \/ InSeek(t)' => thread'[t] = thread[t]
    <3>1. ASSUME NEW n \in Seg, RequestSegment(c, n)
          PROVE  \A t \in Threads : InSeek(t) \/ InSeek(t)' => thread'[t] = thread[t]
      BY <1>0, <3>1 DEF RequestSegment, InSeek, IsAt, At
    <3>2. CASE ServeWaiting(c)
      <4>1. /\ thread[c].at = "wait"
            /\ \/ thread' = [thread EXCEPT ![c].at = "served"]
               \/ thread' = [thread EXCEPT ![c] = Idle]
        BY <3>2 DEF ServeWaiting, IsAt
      <4>2. /\ \A t \in Threads : t # c => thread'[t] = thread[t]
            /\ thread'[c].at \in {"served", "idle"}
        BY <1>0, <4>1 DEF Idle, At, ThreadType
      <4> QED
        BY <4>1, <4>2 DEF InSeek
    <3>3. CASE Fill(c)
      <4>1. /\ thread[c].at = "served"
            /\ \/ thread' = [thread EXCEPT ![c] = Idle]
               \/ \E f \in Fillers, seg \in {thread[c].target + 1, thread[c].target + 1 + 1} :
                    /\ thread[f].at = "idle"
                    /\ thread' = [thread EXCEPT ![c] = Idle, ![f] = At("check", seg)]
        BY <3>3 DEF Fill, IsAt
      <4>2. CASE thread' = [thread EXCEPT ![c] = Idle]
        BY <1>0, <4>1, <4>2 DEF InSeek, Idle, At
      <4>3. ASSUME NEW f \in Fillers, NEW seg, thread[f].at = "idle",
                   thread' = [thread EXCEPT ![c] = Idle, ![f] = At("check", seg)]
            PROVE  \A t \in Threads : InSeek(t) \/ InSeek(t)' => thread'[t] = thread[t]
        BY <1>0, <4>1, <4>3, Constants DEF InSeek, Idle, At
      <4> QED
        BY <4>1, <4>2, <4>3
    <3> QED
      BY <1>2, <3>1, <3>2, <3>3 DEF Handle
  <2> QED
    BY <2>1, <2>2, SerialKept DEF Running
<1>3. ASSUME NEW n \in Seg, WatchEvent(n) PROVE Serial'
  <2>1. UNCHANGED <<cmd, procVars, waiter, thread>>
    BY <1>3 DEF WatchEvent
  <2> QED
    BY <2>1, SerialKept DEF procVars, Running
<1> QED
  BY <1>1, <1>2, <1>3

\* Every step keeps the order of the seeks, as long as no two overlap.
LEMMA SeekStep == EncoderInv /\ SeekInv /\ [Next]_vars => SeekInv'
<1> SUFFICES ASSUME EncoderInv, SeekInv, [Next]_vars, ~overlapped' PROVE Serial'
  BY DEF SeekInv
<1>0. overlapped \in BOOLEAN
  BY DEF EncoderInv, TypeOK
<1>1. ~overlapped
  <2>1. ASSUME NEW t \in Threads, Seek(t) PROVE ~overlapped
    BY <2>1 DEF Seek, CheckGap, ReadHead, KillCurrent, StartFFmpeg, Publish
  <2>2. ASSUME NEW p \in Proc, FFmpeg(p) \/ WaitLog(p) PROVE ~overlapped
    BY <2>2 DEF FFmpeg, OpenSegment, FinishSegment, ExitFFmpeg, WaitLog, ReadCmd, WaitReturns, MarkHighest
  <2>3. ASSUME NEW c \in Clients, Handle(c) \/ \E n \in Seg : RequestSegment(c, n) PROVE ~overlapped
    BY <2>3 DEF Handle, ServeWaiting, Fill, RequestSegment
  <2>4. CASE (\E n \in Seg : WatchEvent(n)) \/ CleanupSession \/ UNCHANGED vars
    BY <2>4 DEF WatchEvent, CleanupSession, vars
  <2> QED
    BY <2>1, <2>2, <2>3, <2>4 DEF Next
<1>2. Serial
  BY <1>1 DEF SeekInv
<1>3. ASSUME NEW t \in Threads, Seek(t) PROVE Serial'
  <2>1. CASE ReadHead(t)
    <3>1. thread \in [Threads -> ThreadType]
      BY DEF EncoderInv, TypeOK, ThreadType
    <3>2. /\ thread' = [thread EXCEPT ![t].at = "kill", ![t].head = currentSegment]
          /\ thread[t].at = "head" /\ UNCHANGED <<cmd, proc, reaped, nextProc, waiter>>
      BY <2>1 DEF ReadHead, IsAt, procVars
    <3>3. thread'[t].at = "kill" /\ \A u \in Threads : u # t => thread'[u] = thread[u]
      BY <3>1, <3>2 DEF ThreadType
    <3> QED
      BY <1>2, <3>2, <3>3, SerialMoves DEF InSeek, IsAt
  <2> QED
    BY <1>2, <1>3, <2>1, CheckSerial, KillSerial, StartSerial, PublishSerial DEF Seek
<1>4. ASSUME NEW p \in Proc, WaitLog(p) PROVE Serial'
  BY <1>2, <1>4, WaitLogSerial
<1>5. CASE CleanupSession
  BY <1>2, <1>5, CleanupSerial
<1>6. CASE UNCHANGED vars
  BY <1>2, <1>6, SerialKept DEF vars, procVars, Running
<1> QED
  BY <1>2, <1>3, <1>4, <1>5, <1>6, OthersSerial DEF Next

\* The first ffmpeg is in the handle, with a goroutine for it.
LEMMA SeekInit == Init => SeekInv
<1> SUFFICES ASSUME Init PROVE Serial
  BY DEF SeekInv
<1>1. /\ \A t \in Threads : thread[t].at = "idle"
      /\ \A p \in Proc : Running(p) => p = 1
      /\ waiter[1].at = "spawned" /\ 1 \in Proc /\ cmd = 1 /\ nextProc = 2
  BY Constants DEF Init, Idle, At, Running, Ended, Started, Log
<1>2. OneSeek
  BY <1>1 DEF OneSeek, InSeek, IsAt
<1>3. EveryoneReachable
  BY <1>1 DEF EveryoneReachable, Stored
<1>4. EveryoneWaitedFor
  <2> SUFFICES ASSUME NEW p \in 1..(nextProc - 1)
               PROVE  Stored(p) /\ \E q \in Proc : waiter[q].at = "spawned"
    BY DEF EveryoneWaitedFor
  <2>1. p = 1
    BY <1>1
  <2> QED
    BY <1>1, <2>1 DEF Stored
<1> QED
  BY <1>2, <1>3, <1>4 DEF Serial

-----------------------------------------------------------------------------
(* The theorems *)

\* The inductive invariant holds of every reachable state.
THEOREM EncoderInvariance == Spec => [](EncoderInv /\ SeekInv)
<1>1. Init => EncoderInv /\ SeekInv
  BY TypesInit, SeekInit
<1>2. (EncoderInv /\ SeekInv) /\ [Next]_vars => (EncoderInv /\ SeekInv)'
  BY TypesStep, SeekStep
<1> QED
  BY <1>1, <1>2, PTL DEF Spec

\* Every variable of a session has its type: gaps end inside the video, and process
\* numbers stay within the bound whatever seeks are under way.
THEOREM EncoderTypes == Spec => []TypeOK
<1>1. EncoderInv => TypeOK
  BY DEF EncoderInv
<1> QED
  BY <1>1, EncoderInvariance, PTL

\* seekTo without the lock: short of overlapping seeks, an ffmpeg that is encoding can be
\* killed through the session, by the next seek or by the sweeper.
THEOREM EncoderStaysReachable == Spec => []EncoderIsReachable
<1>1. SeekInv => EncoderIsReachable
  BY DEF SeekInv, Serial, EveryoneReachable, EncoderIsReachable, Stored, AtHand
<1> QED
  BY <1>1, EncoderInvariance, PTL

\* waitAndLog waits for whatever s.cmd is: short of overlapping seeks, every ffmpeg has had
\* its status taken, or has a goroutine that will take it.
THEOREM NoZombiesStay == Spec => []NoZombies
<1>1. SeekInv => NoZombies
  BY DEF SeekInv, Serial, EveryoneWaitedFor, NoZombies, Stored, AtHand, Awaited
<1> QED
  BY <1>1, EncoderInvariance, PTL

\* "concurrent users watching the same file share one ffmpeg process": false of seeks in
\* general, true for as long as no two of them have overlapped, whatever waitAndLog, the
\* watcher, the sweeper and the other requests do meanwhile.
THEOREM OneFFmpegUntilSeeksOverlap == Spec => [](overlapped \/ OneFFmpegProcess)
<1>1. SeekInv => overlapped \/ OneFFmpegProcess
  <2> SUFFICES ASSUME Serial PROVE Cardinality({p \in Proc : Running(p)}) <= 1
    BY DEF SeekInv, OneFFmpegProcess
  <2> DEFINE Encoding == {p \in Proc : Running(p)}
  <2>1. ASSUME NEW p \in Encoding, NEW q \in Encoding PROVE p = q
    <3>1. (Stored(p) \/ AtHand(p)) /\ (Stored(q) \/ AtHand(q)) /\ p # None /\ q # None
      BY <2>1, Constants DEF Serial, EveryoneReachable
    <3>2. \A t \in Threads : IsAt(t, "publish") => cmd = None
      BY DEF Serial, OneSeek, IsAt
    <3>3. \A t, u \in Threads : IsAt(t, "publish") /\ IsAt(u, "publish") => t = u
      BY DEF Serial, OneSeek, InSeek, IsAt
    <3> QED
      BY <3>1, <3>2, <3>3 DEF Stored, AtHand
  <2>2. CASE Encoding = {}
    BY <2>2, FS_EmptySet
  <2>3. CASE Encoding # {}
    <3>1. PICK p \in Encoding : TRUE
      BY <2>3
    <3>2. Encoding = {p}
      BY <2>1, <3>1
    <3>3. Cardinality({p}) = 1
      BY FS_Singleton
    <3> QED
      BY <3>2, <3>3
  <2> QED
    BY <2>2, <2>3
<1> QED
  BY <1>1, EncoderInvariance, PTL

================================================================================
