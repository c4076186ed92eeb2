---------------------------- MODULE JobAdmission ----------------------------
(***************************************************************************)
(* What the job runner promises its callers, without semaphores, counters  *)
(* or tasks: a bounded queue, a bounded number of jobs running, no job     *)
(* accepted once close() has begun and none started once it has cancelled  *)
(* the queue.  JobRunner implements it.                                    *)
(***************************************************************************)
EXTENDS Naturals, FiniteSets

CONSTANTS Job, MaxConcurrent, MaxQueued

VARIABLES queue,  \* accepted jobs that have not started
          active, \* started jobs that have not finished
          past,   \* jobs refused, given up or finished
          phase   \* "open", "closing", "draining"

aVars == <<queue, active, past, phase>>

AInit == queue = {} /\ active = {} /\ past = {} /\ phase = "open"

AAccept(j) == /\ phase = "open"
              /\ j \notin queue \cup active \cup past
              /\ Cardinality(queue) < MaxQueued
              /\ queue' = queue \cup {j}
              /\ UNCHANGED <<active, past, phase>>

\* A job is refused only for a full queue or a runner that has begun to close.
ARefuse(j) == /\ j \notin queue \cup active \cup past
              /\ phase # "open" \/ Cardinality(queue) >= MaxQueued
              /\ past' = past \cup {j}
              /\ UNCHANGED <<queue, active, phase>>

AStart(j) == /\ phase # "draining"
             /\ j \in queue
             /\ Cardinality(active) < MaxConcurrent
             /\ queue' = queue \ {j}
             /\ active' = active \cup {j}
             /\ UNCHANGED <<past, phase>>

AGiveUp(j) == /\ j \in queue
              /\ queue' = queue \ {j}
              /\ past' = past \cup {j}
              /\ UNCHANGED <<active, phase>>

AFinish(j) == /\ j \in active
              /\ active' = active \ {j}
              /\ past' = past \cup {j}
              /\ UNCHANGED <<queue, phase>>

\* close() skips straight to its end when it finds no task.
AClose == /\ phase = "open"
          /\ \/ phase' = "closing"
             \/ queue = {} /\ active = {} /\ phase' = "draining"
          /\ UNCHANGED <<queue, active, past>>

ADrain == /\ phase = "closing"
          /\ phase' = "draining"
          /\ UNCHANGED <<queue, active, past>>

ANext == \/ \E j \in Job : \/ AAccept(j) \/ ARefuse(j) \/ AStart(j)
                           \/ AGiveUp(j) \/ AFinish(j)
         \/ AClose \/ ADrain

ASpec == AInit /\ [][ANext]_aVars
=============================================================================
