----------------------------- MODULE CoversProofs -----------------------------
(***************************************************************************)
(* Proofs about Covers, for any number of workers, uploads and failures.    *)
(***************************************************************************)
EXTENDS Covers, TLAPS

-----------------------------------------------------------------------------
(* The invariant: who may be at work on a cover that somebody has chosen *)

\* An upload and a worker are at the cover together only in a contended one; a
\* worker that has read the flag, or is about to write, found the cover free.
WorkerMayWrite(w) ==
  /\ act[w] # "idle" => job # "none" /\ (Serving = {} \/ forfeit)
  /\ act[w] = "listed" /\ <<job, kind>> \in ReadsFlag => ~manual \/ forfeit
  /\ act[w] \in {"small", "large"} => ~manual \/ del # "none" \/ forfeit
  /\ act[w] = "large" => kind = "album"

\* A picture being uploaded is in place, and so is one that the flag protects; an
\* album then has a large file too, which thumbnail_scan would miss.
UploadInPlace == Serving # {} => (small \in Upload /\ del = "none") \/ forfeit
ChosenInPlace == manual /\ del = "none" => small \in Upload \/ forfeit
LargeInPlace ==
  kind = "album" /\ del = "none" /\ (manual \/ Serving # {}) /\ (\A u \in Upload : up[u] # "large") =>
    large # "none" \/ forfeit

\* An upload that meets no other is alone, from its first file to its flag.
AloneInPlace(u) ==
  kind = "album" /\ ~mixed =>
    /\ \A v \in Serving : u \in Serving => u = v
    /\ ~forfeit /\ up[u] = "large" => small = u
    /\ ~forfeit /\ up[u] = "flag" => large = small
SizesAgree ==
  kind = "album" /\ ~mixed /\ ~forfeit /\ manual /\ del = "none" /\ (\A u \in Upload : up[u] # "large") =>
    large = small

JobKnown == job = "cover_cycle" => kind \in {"collection", "artist"}

CoversInv ==
  /\ TypeOK /\ JobKnown /\ UploadInPlace /\ ChosenInPlace /\ LargeInPlace /\ SizesAgree
  /\ \A u \in Upload : AloneInPlace(u)
  /\ \A w \in Worker : WorkerMayWrite(w)

-----------------------------------------------------------------------------
LEMMA TypesStep ==
  ASSUME CoversInv, [Next]_vars
  PROVE  TypeOK'
<1>0. TypeOK /\ \A w \in Worker : act[w] = "large" => kind = "album"
  BY DEF CoversInv, WorkerMayWrite
<1>a. faults' = faults \/ Fault => faults' \in 0..MaxFaults
  BY <1>0, CoversAssumption DEF TypeOK, Fault
<1>1. ASSUME NEW j \in {"scan", "thumbnail_scan", "cover_cycle"}, JobStart(j) PROVE TypeOK'
  BY <1>1, <1>0, <1>a DEF TypeOK, JobStart, jobVars
<1>2. ASSUME NEW w \in Worker, List(w) PROVE TypeOK'
  BY <1>2, <1>0, <1>a DEF TypeOK, List, Quiet, jobVars
<1>3. ASSUME NEW w \in Worker, Look(w) \/ NoSource(w) PROVE TypeOK'
  BY <1>3, <1>0, <1>a DEF TypeOK, Look, NoSource, jobVars
<1>4. ASSUME NEW w \in Worker, WriteSmall(w) \/ WriteLarge(w) PROVE TypeOK'
  BY <1>4, <1>0, <1>a DEF TypeOK, WriteSmall, WriteLarge, Fault, jobVars
<1>5. CASE JobEnd \/ LoseDirectory
  BY <1>5, <1>0, <1>a DEF TypeOK, JobEnd, Quiet, LoseDirectory, jobVars
<1>6. CASE Crash
  BY <1>6, <1>0, <1>a DEF TypeOK, Crash, Fault, jobVars
<1>7. ASSUME NEW u \in Upload, UploadSmall(u) PROVE TypeOK'
  BY <1>7, <1>0, <1>a DEF TypeOK, UploadSmall, AfterSmall, Quiet, jobVars
<1>8. ASSUME NEW u \in Upload, UploadLarge(u) PROVE TypeOK'
  BY <1>8, <1>0, <1>a DEF TypeOK, UploadLarge, Fault, jobVars
<1>9. ASSUME NEW u \in Upload, UploadFlag(u) PROVE TypeOK'
  BY <1>9, <1>0, <1>a DEF TypeOK, UploadFlag, Fault, jobVars
<1>10. CASE DeleteSmall \/ DeleteLarge
  BY <1>10, <1>0, <1>a DEF TypeOK, DeleteSmall, AfterSmall, DeleteLarge, jobVars
<1>11. CASE DeleteFlag
  BY <1>11, <1>0, <1>a DEF TypeOK, DeleteFlag, Fault, jobVars
<1>12. CASE UNCHANGED vars
  BY <1>12, <1>0, <1>a DEF TypeOK, vars, jobVars
<1> QED
  BY <1>1, <1>2, <1>3, <1>4, <1>5, <1>6, <1>7, <1>8, <1>9, <1>10, <1>11, <1>12 DEF Next

LEMMA WorkerStep ==
  ASSUME CoversInv, NEW x \in Worker, [Next]_vars
  PROVE  WorkerMayWrite(x)'
<1>0. TypeOK /\ JobKnown /\ UploadInPlace /\ ChosenInPlace /\ LargeInPlace /\ WorkerMayWrite(x)
  BY DEF CoversInv
<1>1. ASSUME NEW j \in {"scan", "thumbnail_scan", "cover_cycle"}, JobStart(j) PROVE WorkerMayWrite(x)'
  BY <1>1, <1>0 DEF WorkerMayWrite, TypeOK, Serving, UploadInPlace, JobStart, jobVars
<1>2. ASSUME NEW w \in Worker, List(w) PROVE WorkerMayWrite(x)'
  BY <1>2, <1>0 DEF WorkerMayWrite, TypeOK, Serving, UploadInPlace, List, Quiet, jobVars
<1>3. ASSUME NEW w \in Worker, Look(w) \/ NoSource(w) PROVE WorkerMayWrite(x)'
  <2>1. ASSUME Look(w), w = x, Wanted, act[x] # "idle" PROVE ~manual \/ del # "none" \/ forfeit
    <3>1. CASE job = "cover_cycle"
      BY <3>1, <2>1, <1>0 DEF WorkerMayWrite, JobKnown, ReadsFlag, Look
    <3>2. CASE small = "none"
      BY <3>2, <1>0, CoversAssumption DEF ChosenInPlace
    <3>3. CASE kind = "album" /\ large = "none"
      BY <3>3, <2>1, <1>0 DEF WorkerMayWrite, LargeInPlace, Serving
    <3> QED
      BY <3>1, <3>2, <3>3, <2>1 DEF Wanted
  <2>2. ASSUME Look(w), w = x PROVE WorkerMayWrite(x)'
    BY <2>1, <2>2, <1>0 DEF WorkerMayWrite, TypeOK, Serving, Look, jobVars
  <2>3. ASSUME Look(w), w # x PROVE WorkerMayWrite(x)'
    BY <2>3, <1>0 DEF WorkerMayWrite, TypeOK, Serving, Look, jobVars
  <2>4. CASE NoSource(w)
    BY <2>4, <1>0 DEF WorkerMayWrite, TypeOK, Serving, NoSource, jobVars
  <2> QED
    BY <2>2, <2>3, <2>4, <1>3
<1>4. ASSUME NEW w \in Worker, WriteSmall(w) \/ WriteLarge(w) PROVE WorkerMayWrite(x)'
  BY <1>4, <1>0 DEF WorkerMayWrite, TypeOK, Serving, UploadInPlace, WriteSmall, WriteLarge,
     Fault, jobVars
<1>5. CASE JobEnd \/ LoseDirectory
  BY <1>5, <1>0 DEF WorkerMayWrite, TypeOK, Serving, UploadInPlace, JobEnd, Quiet,
     LoseDirectory, jobVars
<1>6. CASE Crash
  BY <1>6, <1>0 DEF WorkerMayWrite, TypeOK, Serving, UploadInPlace, Crash, Fault, jobVars
<1>7. ASSUME NEW u \in Upload, UploadSmall(u) PROVE WorkerMayWrite(x)'
  BY <1>7, <1>0 DEF WorkerMayWrite, TypeOK, Serving, UploadInPlace, UploadSmall, AfterSmall,
     Quiet, jobVars
<1>8. ASSUME NEW u \in Upload, UploadLarge(u) PROVE WorkerMayWrite(x)'
  BY <1>8, <1>0 DEF WorkerMayWrite, TypeOK, Serving, UploadInPlace, UploadLarge, Fault, jobVars
<1>9. ASSUME NEW u \in Upload, UploadFlag(u) PROVE WorkerMayWrite(x)'
  BY <1>9, <1>0 DEF WorkerMayWrite, TypeOK, Serving, UploadInPlace, UploadFlag, Fault, jobVars
<1>10. CASE DeleteSmall \/ DeleteLarge
  BY <1>10, <1>0 DEF WorkerMayWrite, TypeOK, Serving, UploadInPlace, DeleteSmall, AfterSmall,
     DeleteLarge, jobVars
<1>11. CASE DeleteFlag
  BY <1>11, <1>0 DEF WorkerMayWrite, TypeOK, Serving, UploadInPlace, DeleteFlag, Fault, jobVars
<1>12. CASE UNCHANGED vars
  BY <1>12, <1>0 DEF WorkerMayWrite, TypeOK, Serving, UploadInPlace, vars, jobVars
<1> QED
  BY <1>1, <1>2, <1>3, <1>4, <1>5, <1>6, <1>7, <1>8, <1>9, <1>10, <1>11, <1>12 DEF Next

LEMMA ChosenStep ==
  ASSUME CoversInv, [Next]_vars
  PROVE  ChosenInPlace'
<1>0. /\ TypeOK /\ JobKnown /\ UploadInPlace /\ ChosenInPlace /\ LargeInPlace /\ SizesAgree
      /\ \A v \in Upload : AloneInPlace(v)
      /\ \A v \in Worker : WorkerMayWrite(v)
  BY DEF CoversInv
<1>1. ASSUME NEW j \in {"scan", "thumbnail_scan", "cover_cycle"}, JobStart(j) PROVE ChosenInPlace'
  BY <1>1, <1>0 DEF ChosenInPlace, UploadInPlace, WorkerMayWrite, Serving, TypeOK, JobStart,
     jobVars
<1>2. ASSUME NEW w \in Worker, List(w) PROVE ChosenInPlace'
  BY <1>2, <1>0 DEF ChosenInPlace, UploadInPlace, WorkerMayWrite, Serving, TypeOK, List,
     Quiet, jobVars
<1>3. ASSUME NEW w \in Worker, Look(w) \/ NoSource(w) PROVE ChosenInPlace'
  BY <1>3, <1>0 DEF ChosenInPlace, UploadInPlace, WorkerMayWrite, Serving, TypeOK, Look,
     NoSource, jobVars
<1>4. ASSUME NEW w \in Worker, WriteSmall(w) \/ WriteLarge(w) PROVE ChosenInPlace'
  BY <1>4, <1>0 DEF ChosenInPlace, UploadInPlace, WorkerMayWrite, Serving, TypeOK, WriteSmall,
     WriteLarge, Fault, jobVars
<1>5. CASE JobEnd \/ LoseDirectory
  BY <1>5, <1>0 DEF ChosenInPlace, UploadInPlace, WorkerMayWrite, Serving, TypeOK, JobEnd,
     Quiet, LoseDirectory, jobVars
<1>6. CASE Crash
  BY <1>6, <1>0 DEF ChosenInPlace, UploadInPlace, WorkerMayWrite, Serving, TypeOK, Crash,
     Fault, jobVars
<1>7. ASSUME NEW u \in Upload, UploadSmall(u) PROVE ChosenInPlace'
  BY <1>7, <1>0 DEF ChosenInPlace, UploadInPlace, WorkerMayWrite, Serving, TypeOK,
     UploadSmall, AfterSmall, Quiet, jobVars
<1>8. ASSUME NEW u \in Upload, UploadLarge(u) PROVE ChosenInPlace'
  BY <1>8, <1>0 DEF ChosenInPlace, UploadInPlace, WorkerMayWrite, Serving, TypeOK,
     UploadLarge, Fault, jobVars
<1>9. ASSUME NEW u \in Upload, UploadFlag(u) PROVE ChosenInPlace'
  BY <1>9, <1>0 DEF ChosenInPlace, UploadInPlace, WorkerMayWrite, Serving, TypeOK, UploadFlag,
     Fault, jobVars
<1>10. CASE DeleteSmall \/ DeleteLarge
  BY <1>10, <1>0 DEF ChosenInPlace, UploadInPlace, WorkerMayWrite, Serving, TypeOK,
     DeleteSmall, AfterSmall, DeleteLarge, jobVars
<1>11. CASE DeleteFlag
  BY <1>11, <1>0 DEF ChosenInPlace, UploadInPlace, WorkerMayWrite, Serving, TypeOK,
     DeleteFlag, Fault, jobVars
<1>12. CASE UNCHANGED vars
  BY <1>12, <1>0 DEF ChosenInPlace, UploadInPlace, WorkerMayWrite, Serving, TypeOK, vars,
     jobVars
<1> QED
  BY <1>1, <1>2, <1>3, <1>4, <1>5, <1>6, <1>7, <1>8, <1>9, <1>10, <1>11, <1>12 DEF Next

LEMMA UploadStep ==
  ASSUME CoversInv, [Next]_vars
  PROVE  UploadInPlace'
<1>0. /\ TypeOK /\ JobKnown /\ UploadInPlace /\ ChosenInPlace /\ LargeInPlace /\ SizesAgree
      /\ \A v \in Upload : AloneInPlace(v)
      /\ \A v \in Worker : WorkerMayWrite(v)
  BY DEF CoversInv
<1>1. ASSUME NEW j \in {"scan", "thumbnail_scan", "cover_cycle"}, JobStart(j) PROVE UploadInPlace'
  BY <1>1, <1>0 DEF UploadInPlace, WorkerMayWrite, Serving, TypeOK, JobStart, jobVars
<1>2. ASSUME NEW w \in Worker, List(w) PROVE UploadInPlace'
  BY <1>2, <1>0 DEF UploadInPlace, WorkerMayWrite, Serving, TypeOK, List, Quiet, jobVars
<1>3. ASSUME NEW w \in Worker, Look(w) \/ NoSource(w) PROVE UploadInPlace'
  BY <1>3, <1>0 DEF UploadInPlace, WorkerMayWrite, Serving, TypeOK, Look, NoSource, jobVars
<1>4. ASSUME NEW w \in Worker, WriteSmall(w) \/ WriteLarge(w) PROVE UploadInPlace'
  BY <1>4, <1>0 DEF UploadInPlace, WorkerMayWrite, Serving, TypeOK, WriteSmall, WriteLarge,
     Fault, jobVars
<1>5. CASE JobEnd \/ LoseDirectory
  BY <1>5, <1>0 DEF UploadInPlace, WorkerMayWrite, Serving, TypeOK, JobEnd, Quiet,
     LoseDirectory, jobVars
<1>6. CASE Crash
  BY <1>6, <1>0 DEF UploadInPlace, WorkerMayWrite, Serving, TypeOK, Crash, Fault, jobVars
<1>7. ASSUME NEW u \in Upload, UploadSmall(u) PROVE UploadInPlace'
  BY <1>7, <1>0 DEF UploadInPlace, WorkerMayWrite, Serving, TypeOK, UploadSmall, AfterSmall,
     Quiet, jobVars
<1>8. ASSUME NEW u \in Upload, UploadLarge(u) PROVE UploadInPlace'
  BY <1>8, <1>0 DEF UploadInPlace, WorkerMayWrite, Serving, TypeOK, UploadLarge, Fault, jobVars
<1>9. ASSUME NEW u \in Upload, UploadFlag(u) PROVE UploadInPlace'
  BY <1>9, <1>0 DEF UploadInPlace, WorkerMayWrite, Serving, TypeOK, UploadFlag, Fault, jobVars
<1>10. CASE DeleteSmall \/ DeleteLarge
  BY <1>10, <1>0 DEF UploadInPlace, WorkerMayWrite, Serving, TypeOK, DeleteSmall, AfterSmall,
     DeleteLarge, jobVars
<1>11. CASE DeleteFlag
  BY <1>11, <1>0 DEF UploadInPlace, WorkerMayWrite, Serving, TypeOK, DeleteFlag, Fault, jobVars
<1>12. CASE UNCHANGED vars
  BY <1>12, <1>0 DEF UploadInPlace, WorkerMayWrite, Serving, TypeOK, vars, jobVars
<1> QED
  BY <1>1, <1>2, <1>3, <1>4, <1>5, <1>6, <1>7, <1>8, <1>9, <1>10, <1>11, <1>12 DEF Next

LEMMA LargeStep ==
  ASSUME CoversInv, [Next]_vars
  PROVE  LargeInPlace'
<1>0. /\ TypeOK /\ JobKnown /\ UploadInPlace /\ ChosenInPlace /\ LargeInPlace /\ SizesAgree
      /\ \A v \in Upload : AloneInPlace(v)
      /\ \A v \in Worker : WorkerMayWrite(v)
  BY DEF CoversInv
<1>1. ASSUME NEW j \in {"scan", "thumbnail_scan", "cover_cycle"}, JobStart(j) PROVE LargeInPlace'
  BY <1>1, <1>0 DEF LargeInPlace, UploadInPlace, WorkerMayWrite, Serving, TypeOK, JobStart,
     jobVars
<1>2. ASSUME NEW w \in Worker, List(w) PROVE LargeInPlace'
  BY <1>2, <1>0 DEF LargeInPlace, UploadInPlace, WorkerMayWrite, Serving, TypeOK, List, Quiet,
     jobVars
<1>3. ASSUME NEW w \in Worker, Look(w) \/ NoSource(w) PROVE LargeInPlace'
  BY <1>3, <1>0 DEF LargeInPlace, UploadInPlace, WorkerMayWrite, Serving, TypeOK, Look,
     NoSource, jobVars
<1>4. ASSUME NEW w \in Worker, WriteSmall(w) \/ WriteLarge(w) PROVE LargeInPlace'
  BY <1>4, <1>0 DEF LargeInPlace, UploadInPlace, WorkerMayWrite, Serving, TypeOK, WriteSmall,
     WriteLarge, Fault, jobVars
<1>5. CASE JobEnd \/ LoseDirectory
  BY <1>5, <1>0 DEF LargeInPlace, UploadInPlace, WorkerMayWrite, Serving, TypeOK, JobEnd,
     Quiet, LoseDirectory, jobVars
<1>6. CASE Crash
  BY <1>6, <1>0 DEF LargeInPlace, UploadInPlace, WorkerMayWrite, Serving, TypeOK, Crash,
     Fault, jobVars
<1>7. ASSUME NEW u \in Upload, UploadSmall(u) PROVE LargeInPlace'
  BY <1>7, <1>0 DEF LargeInPlace, UploadInPlace, WorkerMayWrite, Serving, TypeOK, UploadSmall,
     AfterSmall, Quiet, jobVars
<1>8. ASSUME NEW u \in Upload, UploadLarge(u) PROVE LargeInPlace'
  <2>1. u # "none" /\ UNCHANGED kind
    BY <1>8, CoversAssumption DEF UploadLarge
  <2>2. CASE large' = u
    BY <2>1, <2>2 DEF LargeInPlace
  <2>3. CASE large' = large /\ forfeit' = (forfeit \/ large = "none")
    BY <2>3 DEF LargeInPlace
  <2> QED
    BY <2>2, <2>3, <1>8 DEF UploadLarge
<1>9. ASSUME NEW u \in Upload, UploadFlag(u) PROVE LargeInPlace'
  BY <1>9, <1>0 DEF LargeInPlace, UploadInPlace, WorkerMayWrite, Serving, TypeOK, UploadFlag,
     Fault, jobVars
<1>10. CASE DeleteSmall \/ DeleteLarge
  BY <1>10, <1>0 DEF LargeInPlace, UploadInPlace, WorkerMayWrite, Serving, TypeOK,
     DeleteSmall, AfterSmall, DeleteLarge, jobVars
<1>11. CASE DeleteFlag
  BY <1>11, <1>0 DEF LargeInPlace, UploadInPlace, WorkerMayWrite, Serving, TypeOK, DeleteFlag,
     Fault, jobVars
<1>12. CASE UNCHANGED vars
  BY <1>12, <1>0 DEF LargeInPlace, UploadInPlace, WorkerMayWrite, Serving, TypeOK, vars, jobVars
<1> QED
  BY <1>1, <1>2, <1>3, <1>4, <1>5, <1>6, <1>7, <1>8, <1>9, <1>10, <1>11, <1>12 DEF Next

LEMMA SizesStep ==
  ASSUME CoversInv, [Next]_vars
  PROVE  SizesAgree'
<1>0. /\ TypeOK /\ JobKnown /\ UploadInPlace /\ ChosenInPlace /\ LargeInPlace /\ SizesAgree
      /\ \A v \in Upload : AloneInPlace(v)
      /\ \A v \in Worker : WorkerMayWrite(v)
  BY DEF CoversInv
<1>1. ASSUME NEW j \in {"scan", "thumbnail_scan", "cover_cycle"}, JobStart(j) PROVE SizesAgree'
  BY <1>1, <1>0 DEF SizesAgree, AloneInPlace, UploadInPlace, WorkerMayWrite, Serving, TypeOK,
     JobStart, jobVars
<1>2. ASSUME NEW w \in Worker, List(w) PROVE SizesAgree'
  BY <1>2, <1>0 DEF SizesAgree, AloneInPlace, UploadInPlace, WorkerMayWrite, Serving, TypeOK,
     List, Quiet, jobVars
<1>3. ASSUME NEW w \in Worker, Look(w) \/ NoSource(w) PROVE SizesAgree'
  BY <1>3, <1>0 DEF SizesAgree, AloneInPlace, UploadInPlace, WorkerMayWrite, Serving, TypeOK,
     Look, NoSource, jobVars
<1>4. ASSUME NEW w \in Worker, WriteSmall(w) \/ WriteLarge(w) PROVE SizesAgree'
  BY <1>4, <1>0 DEF SizesAgree, AloneInPlace, UploadInPlace, WorkerMayWrite, Serving, TypeOK,
     WriteSmall, WriteLarge, Fault, jobVars
<1>5. CASE JobEnd \/ LoseDirectory
  BY <1>5, <1>0 DEF SizesAgree, AloneInPlace, UploadInPlace, WorkerMayWrite, Serving, TypeOK,
     JobEnd, Quiet, LoseDirectory, jobVars
<1>6. CASE Crash
  BY <1>6, <1>0 DEF SizesAgree, AloneInPlace, UploadInPlace, WorkerMayWrite, Serving, TypeOK,
     Crash, Fault, jobVars
<1>7. ASSUME NEW u \in Upload, UploadSmall(u) PROVE SizesAgree'
  BY <1>7, <1>0 DEF SizesAgree, AloneInPlace, UploadInPlace, WorkerMayWrite, Serving, TypeOK,
     UploadSmall, AfterSmall, Quiet, jobVars
<1>8. ASSUME NEW u \in Upload, UploadLarge(u) PROVE SizesAgree'
  BY <1>8, <1>0 DEF SizesAgree, AloneInPlace, UploadInPlace, WorkerMayWrite, Serving, TypeOK,
     UploadLarge, Fault, jobVars
<1>9. ASSUME NEW u \in Upload, UploadFlag(u) PROVE SizesAgree'
  BY <1>9, <1>0 DEF SizesAgree, AloneInPlace, UploadInPlace, WorkerMayWrite, Serving, TypeOK,
     UploadFlag, Fault, jobVars
<1>10. CASE DeleteSmall \/ DeleteLarge
  BY <1>10, <1>0 DEF SizesAgree, AloneInPlace, UploadInPlace, WorkerMayWrite, Serving, TypeOK,
     DeleteSmall, AfterSmall, DeleteLarge, jobVars
<1>11. CASE DeleteFlag
  BY <1>11, <1>0 DEF SizesAgree, AloneInPlace, UploadInPlace, WorkerMayWrite, Serving, TypeOK,
     DeleteFlag, Fault, jobVars
<1>12. CASE UNCHANGED vars
  BY <1>12, <1>0 DEF SizesAgree, AloneInPlace, UploadInPlace, WorkerMayWrite, Serving, TypeOK,
     vars, jobVars
<1> QED
  BY <1>1, <1>2, <1>3, <1>4, <1>5, <1>6, <1>7, <1>8, <1>9, <1>10, <1>11, <1>12 DEF Next

LEMMA AloneStep ==
  ASSUME CoversInv, NEW x \in Upload, [Next]_vars
  PROVE  AloneInPlace(x)'
<1>0. /\ TypeOK /\ UploadInPlace /\ SizesAgree
      /\ \A v \in Upload : AloneInPlace(v)
      /\ \A v \in Worker : WorkerMayWrite(v)
  BY DEF CoversInv
<1>1. ASSUME NEW j \in {"scan", "thumbnail_scan", "cover_cycle"}, JobStart(j) PROVE AloneInPlace(x)'
  BY <1>1, <1>0 DEF AloneInPlace, UploadInPlace, WorkerMayWrite, Serving, TypeOK, JobStart,
     jobVars
<1>2. ASSUME NEW w \in Worker, List(w) PROVE AloneInPlace(x)'
  BY <1>2, <1>0 DEF AloneInPlace, UploadInPlace, WorkerMayWrite, Serving, TypeOK, List, Quiet,
     jobVars
<1>3. ASSUME NEW w \in Worker, Look(w) \/ NoSource(w) PROVE AloneInPlace(x)'
  BY <1>3, <1>0 DEF AloneInPlace, UploadInPlace, WorkerMayWrite, Serving, TypeOK, Look,
     NoSource, jobVars
<1>4. ASSUME NEW w \in Worker, WriteSmall(w) \/ WriteLarge(w) PROVE AloneInPlace(x)'
  BY <1>4, <1>0 DEF AloneInPlace, UploadInPlace, WorkerMayWrite, Serving, TypeOK, WriteSmall,
     WriteLarge, Fault, jobVars
<1>5. CASE JobEnd \/ LoseDirectory
  BY <1>5, <1>0 DEF AloneInPlace, UploadInPlace, WorkerMayWrite, Serving, TypeOK, JobEnd,
     Quiet, LoseDirectory, jobVars
<1>6. CASE Crash
  BY <1>6, <1>0 DEF AloneInPlace, UploadInPlace, WorkerMayWrite, Serving, TypeOK, Crash,
     Fault, jobVars
<1>7. ASSUME NEW u \in Upload, UploadSmall(u) PROVE AloneInPlace(x)'
  BY <1>7, <1>0 DEF AloneInPlace, UploadInPlace, WorkerMayWrite, Serving, TypeOK, UploadSmall,
     AfterSmall, Quiet, jobVars
<1>8. ASSUME NEW u \in Upload, UploadLarge(u) PROVE AloneInPlace(x)'
  BY <1>8, <1>0 DEF AloneInPlace, UploadInPlace, WorkerMayWrite, Serving, TypeOK, UploadLarge,
     Fault, jobVars
<1>9. ASSUME NEW u \in Upload, UploadFlag(u) PROVE AloneInPlace(x)'
  BY <1>9, <1>0 DEF AloneInPlace, UploadInPlace, WorkerMayWrite, Serving, TypeOK, UploadFlag,
     Fault, jobVars
<1>10. CASE DeleteSmall \/ DeleteLarge
  BY <1>10, <1>0 DEF AloneInPlace, UploadInPlace, WorkerMayWrite, Serving, TypeOK,
     DeleteSmall, AfterSmall, DeleteLarge, jobVars
<1>11. CASE DeleteFlag
  BY <1>11, <1>0 DEF AloneInPlace, UploadInPlace, WorkerMayWrite, Serving, TypeOK, DeleteFlag,
     Fault, jobVars
<1>12. CASE UNCHANGED vars
  BY <1>12, <1>0 DEF AloneInPlace, UploadInPlace, WorkerMayWrite, Serving, TypeOK, vars, jobVars
<1> QED
  BY <1>1, <1>2, <1>3, <1>4, <1>5, <1>6, <1>7, <1>8, <1>9, <1>10, <1>11, <1>12 DEF Next

LEMMA JobKnownStep ==
  ASSUME JobKnown, [Next]_vars
  PROVE  JobKnown'
<1>1. ASSUME NEW j \in {"scan", "thumbnail_scan", "cover_cycle"}, JobStart(j) PROVE JobKnown'
  BY <1>1 DEF JobKnown, JobStart, CaresFor, jobVars
<1>2. ASSUME NEW w \in Worker, List(w) \/ Look(w) \/ NoSource(w) \/ WriteSmall(w) \/ WriteLarge(w) PROVE JobKnown'
  BY <1>2 DEF JobKnown, List, Quiet, Look, NoSource, WriteSmall, Fault, WriteLarge, jobVars
<1>3. CASE JobEnd \/ LoseDirectory \/ Crash
  BY <1>3 DEF JobKnown, JobEnd, Quiet, LoseDirectory, Crash, Fault, jobVars
<1>4. CASE DeleteSmall \/ DeleteLarge \/ DeleteFlag \/ (\E u \in Upload : UploadSmall(u) \/ UploadLarge(u) \/ UploadFlag(u))
  BY <1>4 DEF JobKnown, UploadSmall, AfterSmall, Quiet, UploadLarge, Fault, UploadFlag,
     DeleteSmall, DeleteLarge, DeleteFlag, jobVars
<1>5. CASE UNCHANGED vars
  BY <1>5 DEF JobKnown, vars, jobVars
<1> QED
  BY <1>1, <1>2, <1>3, <1>4, <1>5 DEF Next

LEMMA CoversInvHolds == Spec => []CoversInv
<1>1. Init => CoversInv
  <2> SUFFICES ASSUME Init PROVE CoversInv
    OBVIOUS
  <2>1. TypeOK
    <3>1. 0 \in 0..MaxFaults
      BY CoversAssumption
    <3>2. act \in [Worker -> {"idle", "listed", "small", "large"}]
      BY DEF Init
    <3>3. up \in [Upload -> {"new", "large", "flag", "done"}] /\ \A u \in Upload : up[u] = "new"
      BY DEF Init
    <3> QED
      BY <3>1, <3>2, <3>3 DEF Init, TypeOK
  <2>2. JobKnown /\ UploadInPlace /\ ChosenInPlace /\ LargeInPlace /\ SizesAgree
    BY DEF Init, JobKnown, UploadInPlace, ChosenInPlace, LargeInPlace, SizesAgree, Serving
  <2>4. \A u \in Upload : AloneInPlace(u)
    BY DEF Init, AloneInPlace, Serving
  <2>3. \A w \in Worker : WorkerMayWrite(w)
    BY DEF Init, WorkerMayWrite
  <2> QED
    BY <2>1, <2>2, <2>3, <2>4 DEF CoversInv
<1>2. CoversInv /\ [Next]_vars => CoversInv'
  BY TypesStep, JobKnownStep, UploadStep, ChosenStep, LargeStep, SizesStep, AloneStep,
     WorkerStep
     DEF CoversInv
<1> QED
  BY <1>1, <1>2, PTL DEF Spec

\* The types of the state, and that only an album has a second file.
THEOREM CoverTypes == Spec => []TypeOK
  BY CoversInvHolds, PTL DEF CoversInv

\* No job replaces an uploaded picture that its flag protects, but for the uploads
\* the property names, however many sub-jobs of a scan run at once.
THEOREM ManualCoversStay == Spec => []ManualCoverKept
<1>1. CoversInv => ManualCoverKept
  BY DEF CoversInv, ChosenInPlace, ManualCoverKept
<1> QED
  BY <1>1, CoversInvHolds, PTL

\* After an upload that met nothing and wrote both its files, an album's two files are
\* of that upload, and neither a job nor half a delete changes that.
THEOREM ManualSizesStayAlike == Spec => []ManualSizesAgree
<1>1. CoversInv => ManualSizesAgree
  BY DEF CoversInv, SizesAgree, ManualSizesAgree, Serving
<1> QED
  BY <1>1, CoversInvHolds, PTL
=============================================================================
