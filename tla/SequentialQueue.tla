---------------------------- MODULE SequentialQueue ----------------------------
(***************************************************************************)
(* What the job dispatcher promises of top-level jobs, with no table, no     *)
(* queue and no restart: jobs are taken one at a time; a job finishes only   *)
(* while it is the one taken, and a finished job is never taken again.       *)
(* A taken job may go back to the waiting ones (a crash, an outcome that     *)
(* could not be recorded, a transcode that yields).                          *)
(***************************************************************************)
CONSTANT Job

VARIABLES waiting, running, finished

vars == <<waiting, running, finished>>

Submit(j) ==
  /\ j \notin waiting \cup running \cup finished
  /\ waiting' = waiting \cup {j}
  /\ UNCHANGED <<running, finished>>

Take(j) ==
  /\ running = {} /\ j \in waiting
  /\ running' = {j} /\ waiting' = waiting \ {j}
  /\ UNCHANGED finished

Finish(j) ==
  /\ j \in running
  /\ running' = {} /\ finished' = finished \cup {j}
  /\ UNCHANGED waiting

GiveBack(j) ==
  /\ j \in running
  /\ running' = {} /\ waiting' = waiting \cup {j}
  /\ UNCHANGED finished

\* A job of a type nobody handles is failed without being taken.
Refuse(j) ==
  /\ running = {} /\ j \in waiting
  /\ waiting' = waiting \ {j} /\ finished' = finished \cup {j}
  /\ UNCHANGED running

Init == waiting = {} /\ running = {} /\ finished = {}

Next == \E j \in Job : Submit(j) \/ Take(j) \/ Finish(j) \/ GiveBack(j) \/ Refuse(j)

Spec == Init /\ [][Next]_vars

=============================================================================
