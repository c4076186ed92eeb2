--------------------------- MODULE JobRunner_proofs ---------------------------
(***************************************************************************)
(* Proofs about JobRunner, for any set of submissions, any limits and with  *)
(* or without database faults.                                             *)
(*                                                                         *)
(* The counters are right because every step that moves a job across the    *)
(* border of WaitPc or of the slot holders changes `waiting' or `slots' by   *)
(* the same amount: Counts says so with cardinalities, and is inductive     *)
(* together with TypeOK (the decrement of `waiting' stays in Nat because    *)
(* the job that leaves was counted).                                       *)
(***************************************************************************)
EXTENDS JobRunner, TLAPS, FiniteSetTheorems, SequenceTheorems

HoldPc == RunPc \cup {"granted"}

Counts == /\ IsFiniteSet(In(WaitPc))
          /\ waiting = Cardinality(In(WaitPc))
          /\ waiting <= MaxQueued
          /\ running = In(RunPc)
          /\ IsFiniteSet(Holders)
          /\ slots + Cardinality(Holders) = MaxConcurrent

IInv == TypeOK /\ Counts

-----------------------------------------------------------------------------
(* Lemmas about the operators of the model.                                *)

\* A step that leaves the three sets and the counters alone keeps Counts.
LEMMA CountsFrame ==
  ASSUME Counts, In(WaitPc)' = In(WaitPc), In(RunPc)' = In(RunPc),
         Holders' = Holders, UNCHANGED <<waiting, slots, running>>
  PROVE  Counts'
BY DEF Counts

\* A job that waits is counted: without it the counter is one less.
LEMMA OneLessWaiting ==
  ASSUME Counts, TypeOK, NEW j \in Job, pc[j] \in WaitPc
  PROVE  /\ IsFiniteSet(In(WaitPc) \ {j})
         /\ waiting - 1 = Cardinality(In(WaitPc) \ {j})
         /\ waiting - 1 \in Nat
         /\ waiting - 1 <= MaxQueued
<1>1. j \in In(WaitPc)
  BY DEF In
<1>2. /\ IsFiniteSet(In(WaitPc) \ {j})
      /\ Cardinality(In(WaitPc) \ {j}) = Cardinality(In(WaitPc)) - 1
  BY <1>1, FS_RemoveElement DEF Counts
<1>3. Cardinality(In(WaitPc) \ {j}) \in Nat
  BY <1>2, FS_CardinalityType
<1> QED
  BY <1>2, <1>3, LimitsAssumption DEF Counts, TypeOK

\* Removing one future from the queue leaves a sequence of jobs.
LEMMA ForgetType ==
  ASSUME waiters \in Seq(Job), NEW j \in Job, Forget(j)
  PROVE  waiters' \in Seq(Job)
<1>1. PICK i \in 1..Len(waiters) :
         waiters' = SubSeq(waiters, 1, i-1) \o SubSeq(waiters, i+1, Len(waiters))
  BY DEF Forget
<1>2. /\ Len(waiters) \in Nat
      /\ \A k \in 1..Len(waiters) : waiters[k] \in Job
  BY LenProperties
<1>3. SubSeq(waiters, 1, i-1) \in Seq(Job)
  BY <1>2, SubSeqProperties
<1>4. SubSeq(waiters, i+1, Len(waiters)) \in Seq(Job)
  BY <1>2, SubSeqProperties
<1> QED
  BY <1>1, <1>3, <1>4, ConcatProperties

\* Waking the next waiter moves at most one job, from the pending futures to the
\* granted ones, and pays for it with one slot.
LEMMA WakeNextEffect ==
  ASSUME pc \in [Job -> Pc], NEW pcs \in [Job -> Pc], NEW free \in Nat,
         \A w \in Job : pc[w] = "queued" => pcs[w] = "queued",
         NEW W, W = {k \in Job : pcs[k] \in WaitPc},
         NEW R, R = {k \in Job : pcs[k] \in RunPc},
         NEW H, H = {k \in Job : pcs[k] \in HoldPc}, IsFiniteSet(H),
         WakeNext(pcs, free)
  PROVE  /\ pc' \in [Job -> Pc]
         /\ slots' \in Nat
         /\ In(WaitPc)' = W
         /\ In(RunPc)' = R
         /\ IsFiniteSet(Holders')
         /\ slots' + Cardinality(Holders') = free + Cardinality(H)
<1>1. CASE /\ free > 0
           /\ \E w \in Job : /\ FirstPending(w)
                             /\ pc' = [pcs EXCEPT ![w] = "granted"]
                             /\ slots' = free - 1
  <2>1. PICK w \in Job : /\ pcs[w] = "queued"
                         /\ pc' = [pcs EXCEPT ![w] = "granted"]
                         /\ slots' = free - 1
    BY <1>1 DEF FirstPending
  <2>2. pc' \in [Job -> Pc] /\ slots' \in Nat
    BY <1>1, <2>1 DEF Pc, WaitPc
  <2>3. In(WaitPc)' = W /\ In(RunPc)' = R
    BY <2>1 DEF In, WaitPc, RunPc
  <2>4. Holders' = H \cup {w} /\ w \notin H
    BY <2>1 DEF Holders, In, HoldPc, RunPc
  <2>5. /\ IsFiniteSet(Holders')
        /\ Cardinality(Holders') = Cardinality(H) + 1
        /\ Cardinality(H) \in Nat
    BY <2>4, FS_AddElement, FS_CardinalityType
  <2> QED
    BY <2>1, <2>2, <2>3, <2>5
<1>2. CASE pc' = pcs /\ slots' = free
  <2>1. Holders' = H
    BY <1>2 DEF Holders, In, HoldPc
  <2> QED
    BY <1>2, <2>1 DEF In
<1> QED
  BY <1>1, <1>2 DEF WakeNext

\* Whatever is logged of an end of fn is an outcome.
LEMMA OutcomeType ==
  ASSUME NEW r, NEW causes
  PROVE  OutcomesOf(r, causes) \subseteq Outcome
BY DEF OutcomesOf, Outcome

\* A task that ends notes how fn ended and logs an outcome of that.
LEMMA EndLogged ==
  ASSUME TypeOK, NEW j \in Job, Finish(j)
  PROVE  \E r \in Ends(j) : \E o \in OutcomesOf(r, cause[j]) :
            /\ r \in {"none", "true", "false", "raised", "cancelled"} /\ o \in Outcome
            /\ result' = [result EXCEPT ![j] = r] /\ outcome' = [outcome EXCEPT ![j] = o]
<1>1. PICK r \in Ends(j) : \E o \in OutcomesOf(r, cause[j]) :
              result' = [result EXCEPT ![j] = r] /\ outcome' = [outcome EXCEPT ![j] = o]
  BY DEF Finish
<1>2. r \in {"none", "true", "false", "raised", "cancelled"}
  BY DEF Ends, TypeOK
<1> QED
  BY <1>1, <1>2, OutcomeType

-----------------------------------------------------------------------------
(* The invariant.                                                          *)

LEMMA InitIInv == Init => IInv
<1> SUFFICES ASSUME Init PROVE IInv
  OBVIOUS
<1>1. TypeOK
  BY LimitsAssumption
  DEF Init, TypeOK, Pc, Cause, Message, Terminal, Outcome
<1>2. In(WaitPc) = {} /\ In(RunPc) = {} /\ Holders = {}
  BY DEF Init, In, Holders, WaitPc, RunPc
<1>3. Counts
  BY <1>2, FS_EmptySet, LimitsAssumption DEF Counts, Init
<1> QED
  BY <1>1, <1>3 DEF IInv

\* Steps of a task, of the database and of a timer that move no job between
\* waiting, granted and running.
LEMMA QuietSteps ==
  ASSUME IInv, NEW j \in Job,
         \/ RejectionReturns(j) \/ MarkWritten(j) \/ MarkRaises(j)
         \/ UnstartedMarked(j) \/ UnstartedInterrupted(j) \/ Complete(j)
         \/ Raise(j) \/ Return(j) \/ Interrupt(j)
  PROVE  IInv'
<1> USE DEF IInv, TypeOK, Pc, WaitPc, RunPc, Message, Terminal, Outcome,
            dbVars, semVars, taskVars
<1>1. CASE RejectionReturns(j)
  <2>1. TypeOK'
    BY <1>1 DEF RejectionReturns
  <2>2. Counts'
    BY <1>1, CountsFrame DEF RejectionReturns, In, Holders
  <2> QED
    BY <2>1, <2>2
<1>2. CASE MarkWritten(j)
  <2>1. TypeOK'
    BY <1>2 DEF MarkWritten, InFlight
  <2>2. Counts'
    BY <1>2, CountsFrame DEF MarkWritten, In, Holders
  <2> QED
    BY <2>1, <2>2
<1>3. CASE MarkRaises(j)
  <2>1. TypeOK'
    BY <1>3 DEF MarkRaises, InFlight
  <2>2. Counts'
    BY <1>3, CountsFrame DEF MarkRaises, In, Holders
  <2> QED
    BY <2>1, <2>2
<1>4. CASE UnstartedMarked(j)
  <2>1. TypeOK'
    BY <1>4 DEF UnstartedMarked
  <2>2. Counts'
    BY <1>4, CountsFrame DEF UnstartedMarked, In, Holders
  <2> QED
    BY <2>1, <2>2
<1>5. CASE UnstartedInterrupted(j)
  <2>1. TypeOK'
    BY <1>5 DEF UnstartedInterrupted
  <2>2. Counts'
    BY <1>5, CountsFrame DEF UnstartedInterrupted, In, Holders
  <2> QED
    BY <2>1, <2>2
<1>6. CASE Complete(j)
  <2>1. TypeOK'
    BY <1>6 DEF Complete
  <2>2. Counts'
    BY <1>6, CountsFrame DEF Complete, In, Holders
  <2> QED
    BY <2>1, <2>2
<1>7. CASE Raise(j)
  <2>1. TypeOK'
    BY <1>7 DEF Raise, FriendlyMessage
  <2>2. Counts'
    BY <1>7, CountsFrame DEF Raise, In, Holders
  <2> QED
    BY <2>1, <2>2
<1>8. CASE Return(j)
  <2>1. TypeOK'
    BY <1>8 DEF Return, Leave
  <2>2. pc[j] \in RunPc /\ pc' = [pc EXCEPT ![j] = "leaving"]
    BY <1>8 DEF Return, Leave
  <2>3. Counts'
    BY <1>8, <2>2, CountsFrame DEF Return, In, Holders
  <2> QED
    BY <2>1, <2>3
<1>9. CASE Interrupt(j)
  <2>1. TypeOK'
    BY <1>9 DEF Interrupt, Leave, CancellationMessage, InFlight
  <2>2. \E p \in RunPc : pc[j] \in RunPc /\ pc' = [pc EXCEPT ![j] = p]
    BY <1>9 DEF Interrupt, Leave
  <2>3. Counts'
    BY <1>9, <2>2, CountsFrame DEF Interrupt, In, Holders
  <2> QED
    BY <2>1, <2>3
<1> QED
  BY <1>1, <1>2, <1>3, <1>4, <1>5, <1>6, <1>7, <1>8, <1>9

\* A cancellation request moves jobs between states of WaitPc only, when it
\* reaches no job that has not taken its first step.
LEMMA CancelStep ==
  ASSUME IInv, NEW T \in SUBSET Job, NEW c \in Cause, Cancel(T, c),
         T \cap In({"created"}) = {},
         closer' \in {"open", "yield", "grace", "drain", "closed", "exited"}
  PROVE  IInv'
<1> USE DEF IInv, TypeOK, Pc, WaitPc, RunPc
<1>1. \A k \in Job : \/ pc'[k] = pc[k]
                     \/ pc[k] = "queued" /\ pc'[k] = "dropped"
  BY DEF Cancel, AfterCancel, In
<1>2. pc' \in [Job -> Pc]
  <2>1. pc' = [k \in Job |-> pc'[k]]
    BY DEF Cancel
  <2> QED
    BY <1>1, <2>1
<1>3. TypeOK'
  BY <1>2 DEF Cancel, dbVars, semVars, Cause
<1>4. Counts'
  <2>1. /\ In(WaitPc)' = In(WaitPc)
        /\ In(RunPc)' = In(RunPc)
        /\ Holders' = Holders
    BY <1>1 DEF In, Holders
  <2> QED
    BY <2>1, CountsFrame DEF Cancel, semVars
<1> QED
  BY <1>3, <1>4

\* The steps that move a job between waiting, granted and running.
LEMMA MovingSteps ==
  ASSUME IInv, NEW j \in Job,
         Submit(j) \/ FirstStep(j) \/ Acquired(j) \/ WaitCancelled(j) \/ Finish(j)
  PROVE  IInv'
<1> USE DEF IInv, dbVars, semVars
<1>1. CASE Submit(j)
  <2>1. CASE Accept(j)
    <3>1. TypeOK'
      BY <1>1, <2>1 DEF Submit, Accept, TypeOK, Pc, WaitPc
    <3>2. In(WaitPc)' = In(WaitPc) \cup {j} /\ j \notin In(WaitPc)
      BY <1>1, <2>1 DEF Submit, Accept, TypeOK, In, WaitPc
    <3>3. In(RunPc)' = In(RunPc) /\ Holders' = Holders
      BY <1>1, <2>1 DEF Submit, Accept, TypeOK, In, Holders, RunPc
    <3>4. /\ IsFiniteSet(In(WaitPc)')
          /\ Cardinality(In(WaitPc)') = Cardinality(In(WaitPc)) + 1
      BY <3>2, FS_AddElement DEF Counts
    <3>5. waiting' = waiting + 1 /\ waiting' <= MaxQueued
      BY <2>1, LimitsAssumption DEF Accept, TypeOK
    <3>6. Counts'
      BY <1>1, <3>3, <3>4, <3>5 DEF Submit, Counts
    <3> QED
      BY <3>1, <3>6
  <2>2. CASE \E m \in {"busy", "enqueue_failed"} : Reject(j, m)
    <3>1. TypeOK'
      BY <1>1, <2>2 DEF Submit, Accept, Reject, TypeOK, Pc, Message, Outcome
    <3>2. Counts'
      BY <1>1, <2>2, CountsFrame
      DEF Submit, Reject, TypeOK, In, Holders, WaitPc, RunPc
    <3> QED
      BY <3>1, <3>2
  <2> QED
    BY <1>1, <2>1, <2>2 DEF Submit
<1>2. CASE FirstStep(j)
  <2>1. CASE TakeFreeSlot(j)
    <3>1. slots - 1 \in Nat
      BY <2>1 DEF TakeFreeSlot, Locked, TypeOK
    <3>2. TypeOK'
      BY <1>2, <2>1, <3>1, OneLessWaiting
      DEF FirstStep, TakeFreeSlot, EnterRun, TypeOK, Pc, WaitPc, RunPc
    <3>3. /\ In(WaitPc)' = In(WaitPc) \ {j}
          /\ In(RunPc)' = In(RunPc) \cup {j}
          /\ Holders' = Holders \cup {j}
          /\ j \notin Holders
      BY <1>2, <2>1
      DEF FirstStep, TakeFreeSlot, TypeOK, In, Holders, WaitPc, RunPc
    <3>4. /\ IsFiniteSet(Holders')
          /\ Cardinality(Holders') = Cardinality(Holders) + 1
          /\ Cardinality(Holders) \in Nat
      BY <3>3, FS_AddElement, FS_CardinalityType DEF Counts
    <3>5. pc[j] \in WaitPc
      BY <1>2 DEF FirstStep, WaitPc
    <3>6. /\ waiting' = waiting - 1
          /\ running' = running \cup {j}
          /\ slots' = slots - 1
      BY <2>1 DEF TakeFreeSlot, EnterRun
    <3>7. slots' + Cardinality(Holders') = MaxConcurrent
      BY <3>4, <3>6, LimitsAssumption DEF Counts, TypeOK
    <3>8. Counts'
      BY <3>3, <3>4, <3>5, <3>6, <3>7, OneLessWaiting DEF Counts
    <3> QED
      BY <3>2, <3>8
  <2>2. CASE JoinQueue(j)
    <3>1. Append(waiters, j) \in Seq(Job)
      BY AppendProperties DEF TypeOK
    <3>2. TypeOK'
      BY <1>2, <2>2, <3>1 DEF FirstStep, JoinQueue, TypeOK, Pc, WaitPc
    <3>3. Counts'
      BY <1>2, <2>2, CountsFrame
      DEF FirstStep, JoinQueue, TypeOK, In, Holders, WaitPc, RunPc
    <3> QED
      BY <3>2, <3>3
  <2> QED
    BY <1>2, <2>1, <2>2 DEF FirstStep
<1>3. CASE Acquired(j)
  <2> DEFINE pcs == [pc EXCEPT ![j] = "working"]
  <2>1. pcs \in [Job -> Pc] /\ pc[j] \in WaitPc /\ pc \in [Job -> Pc]
    BY <1>3 DEF Acquired, TypeOK, Pc, WaitPc, RunPc
  <2>2. /\ {k \in Job : pcs[k] \in HoldPc} = Holders
        /\ {k \in Job : pcs[k] \in WaitPc} = In(WaitPc) \ {j}
        /\ {k \in Job : pcs[k] \in RunPc} = In(RunPc) \cup {j}
        /\ \A w \in Job : pc[w] = "queued" => pcs[w] = "queued"
    BY <1>3 DEF Acquired, TypeOK, In, Holders, HoldPc, WaitPc, RunPc
  <2>3. WakeNext(pcs, slots) /\ slots \in Nat /\ IsFiniteSet(Holders)
    BY <1>3 DEF Acquired, TypeOK, Counts
  <2>4. /\ pc' \in [Job -> Pc]
        /\ slots' \in Nat
        /\ In(WaitPc)' = In(WaitPc) \ {j}
        /\ In(RunPc)' = In(RunPc) \cup {j}
        /\ IsFiniteSet(Holders')
        /\ slots' + Cardinality(Holders') = slots + Cardinality(Holders)
    <3> HIDE DEF pcs
    <3> QED
      BY <2>1, <2>2, <2>3, WakeNextEffect
  <2>5. waiters' \in Seq(Job)
    BY <1>3, ForgetType DEF Acquired, TypeOK
  <2>6. waiting' = waiting - 1 /\ running' = running \cup {j}
    BY <1>3 DEF Acquired, EnterRun
  <2>7. TypeOK'
    BY <1>3, <2>1, <2>4, <2>5, <2>6, OneLessWaiting DEF Acquired, TypeOK
  <2>8. Counts'
    BY <2>1, <2>4, <2>6, OneLessWaiting DEF Counts
  <2> QED
    BY <2>7, <2>8
<1>4. CASE WaitCancelled(j)
  <2>1. waiters' \in Seq(Job)
    BY <1>4, ForgetType DEF WaitCancelled, TypeOK
  <2>2. pc[j] \in WaitPc /\ waiting' = waiting - 1 /\ UNCHANGED running
    BY <1>4 DEF WaitCancelled, WaitPc
  <2>3. /\ pc' \in [Job -> Pc]
        /\ slots' \in Nat
        /\ In(WaitPc)' = In(WaitPc) \ {j}
        /\ In(RunPc)' = In(RunPc)
        /\ IsFiniteSet(Holders')
        /\ slots' + Cardinality(Holders') = slots + Cardinality(Holders)
    <3>1. CASE pc[j] = "granted" /\ ReturnSlot(j)
      <4> DEFINE pcs == [pc EXCEPT ![j] = "unstarted"]
      <4>1. pcs \in [Job -> Pc] /\ pc \in [Job -> Pc]
        BY DEF TypeOK, Pc
      <4>2. /\ {k \in Job : pcs[k] \in HoldPc} = Holders \ {j}
            /\ j \in Holders
            /\ {k \in Job : pcs[k] \in WaitPc} = In(WaitPc) \ {j}
            /\ {k \in Job : pcs[k] \in RunPc} = In(RunPc)
            /\ \A w \in Job : pc[w] = "queued" => pcs[w] = "queued"
        BY <3>1 DEF TypeOK, In, Holders, HoldPc, WaitPc, RunPc
      <4>3. WakeNext(pcs, slots + 1) /\ slots + 1 \in Nat
        BY <3>1 DEF ReturnSlot, TypeOK
      <4>4. /\ IsFiniteSet(Holders \ {j})
            /\ Cardinality(Holders \ {j}) = Cardinality(Holders) - 1
            /\ Cardinality(Holders) \in Nat
        BY <4>2, FS_RemoveElement, FS_CardinalityType DEF Counts
      <4>5. slots + 1 + Cardinality(Holders \ {j}) = slots + Cardinality(Holders)
        BY <4>4 DEF TypeOK
      <4> HIDE DEF pcs
      <4> QED
        BY <4>1, <4>2, <4>3, <4>4, <4>5, WakeNextEffect
    <3>2. CASE /\ pc[j] = "dropped"
               /\ pc' = [pc EXCEPT ![j] = "unstarted"]
               /\ UNCHANGED slots
      <4>1. /\ In(WaitPc)' = In(WaitPc) \ {j}
            /\ In(RunPc)' = In(RunPc)
            /\ Holders' = Holders
        BY <3>2 DEF TypeOK, In, Holders, WaitPc, RunPc
      <4> QED
        BY <3>2, <4>1 DEF TypeOK, Pc, Counts
    <3> QED
      BY <1>4, <3>1, <3>2 DEF WaitCancelled
  <2>4. TypeOK'
    BY <1>4, <2>1, <2>2, <2>3, OneLessWaiting DEF WaitCancelled, TypeOK, Message
  <2>5. Counts'
    BY <2>2, <2>3, OneLessWaiting DEF Counts
  <2> QED
    BY <2>4, <2>5
<1>5. CASE Finish(j)
  <2> DEFINE pcs == [pc EXCEPT ![j] = "done"]
  <2>1. pcs \in [Job -> Pc] /\ pc \in [Job -> Pc]
    BY DEF TypeOK, Pc
  <2>2. /\ {k \in Job : pcs[k] \in HoldPc} = Holders \ {j}
        /\ j \in Holders
        /\ {k \in Job : pcs[k] \in WaitPc} = In(WaitPc)
        /\ {k \in Job : pcs[k] \in RunPc} = In(RunPc) \ {j}
        /\ \A w \in Job : pc[w] = "queued" => pcs[w] = "queued"
    BY <1>5 DEF Finish, TypeOK, In, Holders, HoldPc, WaitPc, RunPc
  <2>3. WakeNext(pcs, slots + 1) /\ slots + 1 \in Nat
    BY <1>5 DEF Finish, TypeOK
  <2>4. /\ IsFiniteSet(Holders \ {j})
        /\ Cardinality(Holders \ {j}) = Cardinality(Holders) - 1
        /\ Cardinality(Holders) \in Nat
    BY <2>2, FS_RemoveElement, FS_CardinalityType DEF Counts
  <2>5. slots + 1 + Cardinality(Holders \ {j}) = slots + Cardinality(Holders)
    BY <2>4 DEF TypeOK
  <2>6. /\ pc' \in [Job -> Pc]
        /\ slots' \in Nat
        /\ In(WaitPc)' = In(WaitPc)
        /\ In(RunPc)' = In(RunPc) \ {j}
        /\ IsFiniteSet(Holders')
        /\ slots' + Cardinality(Holders') = slots + Cardinality(Holders)
    <3> HIDE DEF pcs
    <3> QED
      BY <2>1, <2>2, <2>3, <2>4, <2>5, WakeNextEffect
  <2>7. /\ outcome' \in [Job -> Outcome \cup {"none"}]
        /\ result' \in [Job -> {"none", "true", "false", "raised", "cancelled"}]
    BY <1>5, EndLogged DEF TypeOK
  <2>8. running' = running \ {j}
    BY <1>5 DEF Finish
  <2>9. TypeOK'
    BY <1>5, <2>6, <2>7, <2>8 DEF Finish, TypeOK
  <2>10. Counts'
    BY <1>5, <2>6, <2>8 DEF Finish, Counts
  <2> QED
    BY <2>9, <2>10
<1> QED
  BY <1>1, <1>2, <1>3, <1>4, <1>5

LEMMA NextIInv == IInv /\ [Next]_vars => IInv'
<1> SUFFICES ASSUME IInv, [Next]_vars PROVE IInv'
  OBVIOUS
<1>1. ASSUME NEW j \in Job, TaskStep(j) \/ Write(j) \/ Submit(j) \/ Complete(j) \/ Raise(j)
      PROVE  IInv'
  BY <1>1, QuietSteps, MovingSteps DEF TaskStep, Write
<1>2. ASSUME NEW j \in Job, Timer(j)
      PROVE  IInv'
  <2>1. {j} \cap In({"created"}) = {}
    BY <1>2 DEF Timer, In, RunPc
  <2>2. /\ Cancel({j}, "timer")
        /\ closer' \in {"open", "yield", "grace", "drain", "closed", "exited"}
    BY <1>2 DEF Timer, IInv, TypeOK
  <2> QED
    BY <2>1, <2>2, CancelStep DEF Cause
<1>3. CASE CloseCancelWaiting
  <2>1. (Live \ running) \cap In({"created"}) = {} /\ Live \ running \in SUBSET Job
    BY <1>3 DEF CloseCancelWaiting, YieldOver, Live, In
  <2>2. /\ Cancel(Live \ running, "close")
        /\ closer' \in {"open", "yield", "grace", "drain", "closed", "exited"}
    BY <1>3 DEF CloseCancelWaiting
  <2> HIDE DEF Live
  <2> QED
    BY <2>1, <2>2, CancelStep DEF Cause
<1>4. CASE GraceEnd
  <2>1. running \cap In({"created"}) = {} /\ running \in SUBSET Job
    BY DEF IInv, TypeOK, Counts, In, RunPc
  <2> QED
    BY <1>4, <2>1, CancelStep DEF GraceEnd, Cause
<1>5. CASE CloseStart \/ DrainEnd \/ Exit \/ Stopped \/ UNCHANGED vars
  <2>1. /\ UNCHANGED <<taskVars, dbVars, semVars, waiting, running>>
        /\ closer' \in {"open", "yield", "grace", "drain", "closed", "exited"}
    BY <1>5 DEF CloseStart, DrainEnd, Exit, Stopped, vars, taskVars, dbVars,
                semVars, IInv, TypeOK
  <2>2. TypeOK'
    BY <2>1 DEF IInv, TypeOK, taskVars, dbVars, semVars
  <2>3. Counts'
    BY <2>1, CountsFrame DEF IInv, In, Holders, taskVars, semVars
  <2> QED
    BY <2>2, <2>3 DEF IInv
<1> QED
  BY <1>1, <1>2, <1>3, <1>4, <1>5 DEF Next, CloseStep

THEOREM Invariance == Spec => []IInv
<1>1. Init => IInv
  BY InitIInv
<1>2. IInv /\ [Next]_vars => IInv'
  BY NextIInv
<1> QED
  BY <1>1, <1>2, PTL DEF Spec

-----------------------------------------------------------------------------
(* What the invariant gives.                                               *)

\* Every variable keeps its type: in particular _waiting and the semaphore never
\* go below zero, on any path out of the wait or the run.
THEOREM TypeCorrect == Spec => []TypeOK
<1>1. IInv => TypeOK
  BY DEF IInv
<1> QED
  BY <1>1, Invariance, PTL

\* No path through acquire, cancellation, hand-off and release loses or
\* duplicates a slot.
THEOREM SlotsAreConserved == Spec => []SlotsConserved
<1>1. IInv => SlotsConserved
  BY DEF IInv, Counts, SlotsConserved
<1> QED
  BY <1>1, Invariance, PTL

\* Running jobs hold slots, so there are at most MaxConcurrent of them.
LEMMA RunningBound ==
  ASSUME IInv
  PROVE  /\ IsFiniteSet(running)
         /\ Cardinality(running) <= MaxConcurrent
         /\ \A j \in Job : pc[j] = "granted" => Cardinality(running) < MaxConcurrent
<1>1. running \subseteq Holders /\ IsFiniteSet(Holders)
  BY DEF IInv, Counts, Holders, In
<1>2. /\ IsFiniteSet(running)
      /\ Cardinality(running) <= Cardinality(Holders)
      /\ Cardinality(running) = Cardinality(Holders) => running = Holders
  BY <1>1, FS_Subset
<1>3. Cardinality(Holders) \in Nat /\ Cardinality(running) \in Nat
  BY <1>1, <1>2, FS_CardinalityType
<1>4. Cardinality(Holders) <= MaxConcurrent
  BY <1>3, LimitsAssumption DEF IInv, Counts, TypeOK
<1>5. \A j \in Job : pc[j] = "granted" => j \in Holders \ running
  BY DEF IInv, Counts, Holders, In, RunPc
<1> QED
  BY <1>2, <1>3, <1>4, <1>5, LimitsAssumption

\* What submit compares with max_queued is the number of jobs without a slot, and
\* neither limit is ever exceeded.
THEOREM AdmissionIsBounded == Spec => []AdmissionBounds
<1>1. IInv => AdmissionBounds
  BY RunningBound DEF IInv, Counts, AdmissionBounds
<1> QED
  BY <1>1, Invariance, PTL

-----------------------------------------------------------------------------
(* JobRunner implements JobAdmission.                                      *)

\* Once close() has cancelled the queue nobody can start: no job is before its
\* first step or pending, and one that was granted a slot is cancelled too.
Drained == closer \notin {"open", "yield"} =>
             /\ In({"created", "queued"}) = {}
             /\ In({"granted"}) \subseteq hit

\* The contract counts with the same function.
LEMMA SameCardinality ==
  ASSUME NEW S
  PROVE  Admission!Cardinality(S) = Cardinality(S)
BY DEF Admission!Cardinality, Cardinality, Admission!IsFiniteSet, IsFiniteSet

\* The part of WakeNextEffect about the jobs outside WaitPc and RunPc, and about
\* who can become granted.
LEMMA WakeNextElsewhere ==
  ASSUME pc \in [Job -> Pc], NEW pcs \in [Job -> Pc], NEW free,
         \A w \in Job : pc[w] = "queued" => pcs[w] = "queued",
         WakeNext(pcs, free)
  PROVE  /\ Past' = {k \in Job : pcs[k] \in {"rejected", "unstarted", "done"}}
         /\ \A k \in Job : \/ pc'[k] = pcs[k]
                           \/ pc[k] = "queued" /\ pc'[k] = "granted"
<1>1. CASE \E w \in Job : FirstPending(w) /\ pc' = [pcs EXCEPT ![w] = "granted"]
  BY <1>1 DEF FirstPending, Past, In
<1>2. CASE pc' = pcs
  BY <1>2 DEF Past, In
<1> QED
  BY <1>1, <1>2 DEF WakeNext

LEMMA DrainedStep == IInv /\ Drained /\ [Next]_vars => Drained'
<1> SUFFICES ASSUME IInv, Drained, [Next]_vars PROVE Drained'
  OBVIOUS
<1> USE DEF Drained, In, semVars, dbVars, taskVars
<1> pc \in [Job -> Pc] /\ hit \subseteq Job
  BY DEF IInv, TypeOK
<1>1. ASSUME NEW j \in Job, Submit(j)
      PROVE  Drained'
  BY <1>1 DEF Submit, Accept, Reject, Closed
<1>2. ASSUME NEW j \in Job,
             \/ RejectionReturns(j) \/ MarkWritten(j) \/ MarkRaises(j)
             \/ UnstartedMarked(j) \/ UnstartedInterrupted(j) \/ Complete(j)
             \/ Raise(j) \/ Return(j) \/ Interrupt(j)
      PROVE  Drained'
  <2>1. /\ closer' = closer
        /\ \A k \in Job : \/ pc'[k] = pc[k]
                          \/ pc'[k] \notin {"created", "queued", "granted"}
        /\ hit' = hit \/ (hit' = hit \ {j} /\ pc[j] # "granted")
    BY <1>2 DEF RejectionReturns, MarkWritten, MarkRaises, UnstartedMarked,
                UnstartedInterrupted, Complete, Raise, Return, Interrupt, Leave
  <2> QED
    BY <2>1
<1>3. ASSUME NEW j \in Job, FirstStep(j)
      PROVE  Drained'
  BY <1>3 DEF FirstStep, TakeFreeSlot, JoinQueue, EnterRun
<1>4. ASSUME NEW j \in Job, Acquired(j) \/ WaitCancelled(j) \/ Finish(j)
      PROVE  Drained'
  <2>1. /\ closer' = closer
        /\ hit' = hit \/ hit' = hit \ {j}
        /\ Acquired(j) => j \notin hit
    BY <1>4 DEF Acquired, WaitCancelled, Finish
  <2>2. \A k \in Job : \/ pc'[k] = pc[k] /\ (k # j \/ hit' = hit)
                       \/ pc[k] = "queued" /\ pc'[k] = "granted"
                       \/ k = j /\ pc'[k] \in {"working", "unstarted", "done"}
    <3>1. CASE Acquired(j)
      <4> DEFINE pcs == [pc EXCEPT ![j] = "working"]
      <4>1. /\ pcs \in [Job -> Pc] /\ WakeNext(pcs, slots)
            /\ \A w \in Job : pc[w] = "queued" => pcs[w] = "queued"
        BY <3>1 DEF Acquired, Pc, RunPc
      <4>2. \A k \in Job : \/ pc'[k] = pcs[k]
                           \/ pc[k] = "queued" /\ pc'[k] = "granted"
        <5> HIDE DEF pcs
        <5> QED
          BY <4>1, WakeNextElsewhere
      <4> QED
        BY <4>2
    <3>2. CASE WaitCancelled(j) /\ pc[j] = "granted"
      <4> DEFINE pcs == [pc EXCEPT ![j] = "unstarted"]
      <4>1. /\ pcs \in [Job -> Pc] /\ WakeNext(pcs, slots + 1)
            /\ \A w \in Job : pc[w] = "queued" => pcs[w] = "queued"
        BY <3>2 DEF WaitCancelled, ReturnSlot, Pc
      <4>2. \A k \in Job : \/ pc'[k] = pcs[k]
                           \/ pc[k] = "queued" /\ pc'[k] = "granted"
        <5> HIDE DEF pcs
        <5> QED
          BY <4>1, WakeNextElsewhere
      <4> QED
        BY <4>2
    <3>3. CASE WaitCancelled(j) /\ pc[j] # "granted"
      BY <3>3 DEF WaitCancelled
    <3>4. CASE Finish(j)
      <4> DEFINE pcs == [pc EXCEPT ![j] = "done"]
      <4>1. /\ pcs \in [Job -> Pc] /\ WakeNext(pcs, slots + 1)
            /\ \A w \in Job : pc[w] = "queued" => pcs[w] = "queued"
        BY <3>4 DEF Finish, Pc
      <4>2. \A k \in Job : \/ pc'[k] = pcs[k]
                           \/ pc[k] = "queued" /\ pc'[k] = "granted"
        <5> HIDE DEF pcs
        <5> QED
          BY <4>1, WakeNextElsewhere
      <4> QED
        BY <4>2
    <3> QED
      BY <1>4, <3>1, <3>2, <3>3, <3>4
  <2> QED
    BY <2>1, <2>2
<1>5. ASSUME NEW j \in Job, Timer(j)
      PROVE  Drained'
  BY <1>5 DEF Timer, Cancel, AfterCancel
<1>6. CASE CloseStart
  BY <1>6 DEF CloseStart, Live, WaitPc
<1>7. CASE CloseCancelWaiting
  <2>1. \A k \in In({"queued", "granted"}) : k \in Live \ running
    BY DEF Live, WaitPc, RunPc, IInv, Counts
  <2> HIDE DEF Live
  <2>2. YieldOver /\ Cancel(Live \ running, "close")
    BY <1>7 DEF CloseCancelWaiting
  <2>3. \A k \in Job : /\ pc[k] # "created"
                       /\ pc'[k] # "created"
                       /\ pc'[k] # "queued"
                       /\ pc'[k] = "granted" => pc[k] = "granted"
    BY <2>1, <2>2 DEF YieldOver, Cancel, AfterCancel
  <2>4. \A k \in Job : pc[k] = "granted" => k \in hit'
    BY <2>1, <2>2 DEF Cancel
  <2> QED
    BY <2>3, <2>4
<1>8. CASE GraceEnd
  BY <1>8 DEF GraceEnd, Cancel, AfterCancel
<1>9. CASE DrainEnd \/ Exit \/ Stopped \/ UNCHANGED vars
  BY <1>9 DEF DrainEnd, Exit, Stopped, Up, vars
<1> QED
  BY <1>1, <1>2, <1>3, <1>4, <1>5, <1>6, <1>7, <1>8, <1>9
  DEF Next, TaskStep, Write, CloseStep

LEMMA DrainedAlways == Spec => []Drained
<1>1. Init => Drained
  BY DEF Init, Drained
<1>2. IInv /\ Drained /\ [Next]_vars => Drained'
  BY DrainedStep
<1> QED
  BY <1>1, <1>2, Invariance, PTL DEF Spec

\* Every step of the runner is a step of its contract, or none.
LEMMA AdmissionStep ==
  ASSUME IInv, Drained, [Next]_vars
  PROVE  [Admission!ANext]_(Admission!aVars)
<1> DEFINE Q == In(WaitPc)
<1> USE DEF In, Past, Phase, semVars, dbVars, taskVars
<1>0. /\ pc \in [Job -> Pc]
      /\ running = In(RunPc)
      /\ waiting = Cardinality(Q)
  BY DEF IInv, TypeOK, Counts
<1> HIDE DEF Q
<1>1. ASSUME Q' = Q, UNCHANGED <<running, Past, Phase>>
      PROVE  UNCHANGED Admission!aVars
  BY <1>1 DEF Admission!aVars, Q
<1>2. ASSUME NEW j \in Job, Submit(j)
      PROVE  Admission!ANext
  <2>1. j \notin Q \cup running \cup Past
    BY <1>0, <1>2 DEF Submit, Q, WaitPc, RunPc
  <2>2. CASE Accept(j)
    <3>1. Q' = Q \cup {j} /\ UNCHANGED <<running, Past, Phase>>
      BY <1>0, <1>2, <2>2 DEF Submit, Accept, Q, WaitPc
    <3>2. Phase = "open" /\ Cardinality(Q) < MaxQueued
      BY <1>0, <2>2 DEF Accept, Closed
    <3>3. Admission!AAccept(j)
      BY <2>1, <3>1, <3>2, SameCardinality DEF Admission!AAccept, Q
    <3> QED
      BY <3>3 DEF Admission!ANext
  <2>3. CASE \E m \in {"busy", "enqueue_failed"} : Reject(j, m)
    <3>1. UNCHANGED <<Q, running, Phase>> /\ Past' = Past \cup {j}
      BY <1>0, <1>2, <2>3 DEF Submit, Reject, Q, WaitPc
    <3>2. Phase # "open" \/ Cardinality(Q) >= MaxQueued
      <4>1. CASE Closed
        BY <4>1 DEF Closed
      <4>2. CASE waiting >= MaxQueued
        BY <1>0, <4>2
      <4> QED
        <5>1. ~Accept(j)
          BY <1>0, <2>3 DEF Accept, Reject
        <5> QED
          BY <1>2, <4>1, <4>2, <5>1 DEF Submit
    <3>3. Admission!ARefuse(j)
      BY <2>1, <3>1, <3>2, SameCardinality DEF Admission!ARefuse, Q
    <3> QED
      BY <3>3 DEF Admission!ANext
  <2> QED
    BY <1>2, <2>2, <2>3 DEF Submit
<1>3. ASSUME NEW j \in Job,
             \/ RejectionReturns(j) \/ MarkWritten(j) \/ MarkRaises(j)
             \/ UnstartedMarked(j) \/ UnstartedInterrupted(j) \/ Complete(j)
             \/ Raise(j) \/ Return(j) \/ Interrupt(j)
      PROVE  UNCHANGED Admission!aVars
  <2>1. UNCHANGED <<running, closer>>
    BY <1>3 DEF RejectionReturns, MarkWritten, MarkRaises, UnstartedMarked,
                UnstartedInterrupted, Complete, Raise, Return, Interrupt
  <2>2. \/ pc' = pc
        \/ \E p \in {"done"} : pc[j] \in {"rejected", "unstarted"} /\ pc' = [pc EXCEPT ![j] = p]
        \/ \E p \in RunPc : pc[j] \in RunPc /\ pc' = [pc EXCEPT ![j] = p]
    BY <1>3 DEF RejectionReturns, MarkWritten, MarkRaises, UnstartedMarked,
                UnstartedInterrupted, Complete, Raise, Return, Interrupt, Leave,
                RunPc
  <2>3. Q' = Q /\ Past' = Past
    BY <1>0, <2>2 DEF Q, WaitPc, RunPc
  <2> QED
    BY <1>1, <2>1, <2>3
<1>4. ASSUME NEW j \in Job, FirstStep(j)
      PROVE  [Admission!ANext]_(Admission!aVars)
  <2>1. CASE TakeFreeSlot(j)
    <3>1. /\ Q' = Q \ {j}
          /\ running' = running \cup {j}
          /\ UNCHANGED <<Past, Phase>>
          /\ j \in Q
      BY <1>0, <1>4, <2>1 DEF FirstStep, TakeFreeSlot, EnterRun, Q, WaitPc
    <3>2. Phase # "draining"
      BY <1>4 DEF FirstStep, Drained
    <3>3. Cardinality(running) < MaxConcurrent
      <4>1. slots \in Nat /\ slots > 0
        BY <2>1 DEF TakeFreeSlot, Locked, IInv, TypeOK
      <4>2. running \subseteq Holders /\ IsFiniteSet(Holders)
        BY <1>0 DEF IInv, Counts, Holders
      <4>3. /\ Cardinality(running) <= Cardinality(Holders)
            /\ Cardinality(running) \in Nat /\ Cardinality(Holders) \in Nat
        BY <4>2, FS_Subset, FS_CardinalityType
      <4>4. slots + Cardinality(Holders) = MaxConcurrent
        BY DEF IInv, Counts
      <4> HIDE DEF In
      <4> QED
        BY <4>1, <4>3, <4>4, LimitsAssumption
    <3>4. Admission!AStart(j)
      BY <3>1, <3>2, <3>3, SameCardinality DEF Admission!AStart, Q
    <3> QED
      BY <3>4 DEF Admission!ANext
  <2>2. CASE JoinQueue(j)
    <3>1. Q' = Q /\ UNCHANGED <<running, Past, Phase>>
      BY <1>0, <1>4, <2>2 DEF FirstStep, JoinQueue, Q, WaitPc
    <3> QED
      BY <1>1, <3>1
  <2> QED
    BY <1>4, <2>1, <2>2 DEF FirstStep
<1>5. ASSUME NEW j \in Job, Acquired(j)
      PROVE  Admission!ANext
  <2> DEFINE pcs == [pc EXCEPT ![j] = "working"]
  <2>1. /\ pcs \in [Job -> Pc] /\ WakeNext(pcs, slots)
        /\ \A w \in Job : pc[w] = "queued" => pcs[w] = "queued"
        /\ pc[j] = "granted"
    BY <1>0, <1>5 DEF Acquired, Pc, RunPc
  <2>2. /\ Past' = {k \in Job : pcs[k] \in {"rejected", "unstarted", "done"}}
        /\ \A k \in Job : \/ pc'[k] = pcs[k]
                          \/ pc[k] = "queued" /\ pc'[k] = "granted"
    <3> HIDE DEF pcs
    <3> QED
      BY <1>0, <2>1, WakeNextElsewhere
  <2>3. /\ Q' = Q \ {j}
        /\ running' = running \cup {j}
        /\ UNCHANGED <<Past, Phase>>
        /\ j \in Q
    BY <1>0, <1>5, <2>1, <2>2 DEF Acquired, EnterRun, Q, WaitPc
  <2>4. Phase # "draining"
    BY <1>5, <2>1 DEF Acquired, Drained
  <2>5. Cardinality(running) < MaxConcurrent
    BY <2>1, RunningBound
  <2>6. Admission!AStart(j)
    BY <2>3, <2>4, <2>5, SameCardinality DEF Admission!AStart, Q
  <2> QED
    BY <2>6 DEF Admission!ANext
<1>6. ASSUME NEW j \in Job, WaitCancelled(j)
      PROVE  Admission!ANext
  <2> DEFINE pcs == [pc EXCEPT ![j] = "unstarted"]
  <2>1. /\ \A k \in Job : \/ pc'[k] = pcs[k]
                          \/ pc[k] = "queued" /\ pc'[k] = "granted"
        /\ Past' = {k \in Job : pcs[k] \in {"rejected", "unstarted", "done"}}
    <3>1. CASE pc[j] = "granted" /\ ReturnSlot(j)
      <4>1. /\ pcs \in [Job -> Pc] /\ WakeNext(pcs, slots + 1)
            /\ \A w \in Job : pc[w] = "queued" => pcs[w] = "queued"
        BY <1>0, <3>1 DEF ReturnSlot, Pc
      <4> HIDE DEF pcs
      <4> QED
        BY <1>0, <4>1, WakeNextElsewhere
    <3>2. CASE pc' = pcs
      BY <3>2
    <3> QED
      BY <1>6, <3>1, <3>2 DEF WaitCancelled
  <2>2. /\ Q' = Q \ {j} /\ j \in Q
        /\ Past' = Past \cup {j}
        /\ UNCHANGED <<running, Phase>>
    BY <1>0, <1>6, <2>1 DEF WaitCancelled, Q, WaitPc
  <2>3. Admission!AGiveUp(j)
    BY <2>2 DEF Admission!AGiveUp, Q
  <2> QED
    BY <2>3 DEF Admission!ANext
<1>7. ASSUME NEW j \in Job, Finish(j)
      PROVE  Admission!ANext
  <2> DEFINE pcs == [pc EXCEPT ![j] = "done"]
  <2>1. /\ pcs \in [Job -> Pc] /\ WakeNext(pcs, slots + 1)
        /\ \A w \in Job : pc[w] = "queued" => pcs[w] = "queued"
    BY <1>0, <1>7 DEF Finish, Pc
  <2>2. /\ Past' = {k \in Job : pcs[k] \in {"rejected", "unstarted", "done"}}
        /\ \A k \in Job : \/ pc'[k] = pcs[k]
                          \/ pc[k] = "queued" /\ pc'[k] = "granted"
    <3> HIDE DEF pcs
    <3> QED
      BY <1>0, <2>1, WakeNextElsewhere
  <2>3. /\ Q' = Q
        /\ Past' = Past \cup {j}
        /\ running' = running \ {j} /\ j \in running
        /\ UNCHANGED Phase
    BY <1>0, <1>7, <2>2 DEF Finish, Q, WaitPc, RunPc
  <2>4. Admission!AFinish(j)
    BY <2>3 DEF Admission!AFinish, Q
  <2> QED
    BY <2>4 DEF Admission!ANext
<1>8. ASSUME NEW T \in SUBSET Job, NEW c, Cancel(T, c), T \cap In({"created"}) = {}
      PROVE  Q' = Q /\ UNCHANGED <<running, Past>>
  <2>1. \A k \in Job : pc'[k] = pc[k] \/ (pc[k] = "queued" /\ pc'[k] = "dropped")
    BY <1>8 DEF Cancel, AfterCancel
  <2>2. running' = running
    BY <1>8 DEF Cancel
  <2> QED
    BY <2>1, <2>2 DEF Q, WaitPc
<1>9. ASSUME NEW j \in Job, Timer(j)
      PROVE  UNCHANGED Admission!aVars
  <2>1. Cancel({j}, "timer") /\ {j} \cap In({"created"}) = {} /\ UNCHANGED Phase
    BY <1>9 DEF Timer, RunPc
  <2> QED
    BY <1>1, <1>8, <2>1
<1>10. CASE CloseStart
  <2>1. Q' = Q /\ UNCHANGED <<running, Past>> /\ Phase = "open"
    BY <1>10 DEF CloseStart, Q
  <2>2. \/ Phase' = "closing"
        \/ Q = {} /\ running = {} /\ Phase' = "draining"
    BY <1>0, <1>10 DEF CloseStart, Live, Q
  <2>3. Admission!AClose
    BY <2>1, <2>2 DEF Admission!AClose, Q
  <2> QED
    BY <2>3 DEF Admission!ANext
<1>11. CASE CloseCancelWaiting
  <2>1. (Live \ running) \cap In({"created"}) = {} /\ Live \ running \in SUBSET Job
    BY <1>11 DEF CloseCancelWaiting, YieldOver, Live
  <2>2. Q' = Q /\ UNCHANGED <<running, Past>>
    <3> HIDE DEF Live
    <3> QED
      BY <1>8, <1>11, <2>1 DEF CloseCancelWaiting
  <2>3. Phase = "closing" /\ Phase' = "draining"
    BY <1>11 DEF CloseCancelWaiting
  <2>4. Admission!ADrain
    BY <2>2, <2>3 DEF Admission!ADrain, Q
  <2> QED
    BY <2>4 DEF Admission!ANext
<1>12. CASE GraceEnd
  <2>1. running \cap In({"created"}) = {} /\ running \in SUBSET Job
    BY <1>0 DEF RunPc
  <2>2. Q' = Q /\ UNCHANGED <<running, Past>>
    BY <1>8, <1>12, <2>1 DEF GraceEnd
  <2>3. UNCHANGED Phase
    BY <1>12 DEF GraceEnd
  <2> QED
    BY <1>1, <2>2, <2>3
<1>13. CASE DrainEnd \/ Exit \/ Stopped \/ UNCHANGED vars
  <2>1. Q' = Q /\ UNCHANGED <<running, Past, Phase>>
    BY <1>13 DEF DrainEnd, Exit, Stopped, vars, Q
  <2> QED
    BY <1>1, <2>1
<1> QED
  BY <1>2, <1>3, <1>4, <1>5, <1>6, <1>7, <1>9, <1>10, <1>11, <1>12, <1>13
  DEF Next, TaskStep, Write, CloseStep

\* The semaphore, the counter, the cancellations and close() together implement
\* the contract: refused only when full or closing, started only under the limit
\* and never after the queue was cancelled.
THEOREM RunnerImplementsAdmission == Spec => ImplementsAdmission
<1>1. Init => Admission!AInit
  BY DEF Init, Admission!AInit, In, Past, Phase, WaitPc
<1>2. IInv /\ Drained /\ [Next]_vars => [Admission!ANext]_(Admission!aVars)
  BY AdmissionStep
<1> QED
  BY <1>1, <1>2, Invariance, DrainedAlways, PTL
  DEF Spec, ImplementsAdmission, Admission!ASpec
===============================================================================
