--------------------------- MODULE JobProgress_proofs ---------------------------
(***************************************************************************)
(* Proofs that a job of JobRunner cannot hang and cannot loop, and that it *)
(* treats its row as the models of reviews and plans assume (JobLife).     *)
(*                                                                         *)
(* Together, NeverStuck and AlwaysForward are the safety half of JobsEnd:  *)
(* until it is over a job has a step that waits for nobody, and each of    *)
(* its steps raises a rank that has a bound.  All three follow from the    *)
(* records of JobRecords_proofs.                                           *)
(***************************************************************************)
EXTENDS JobRecords_proofs

\* From submission to end, a job meets every one of its cancellations: nobody has
\* cancelled one that still waits in the queue or for Gemini, unless the
\* cancellation is on its way.
THEOREM NeverStuck == Spec => []NobodyIsStuck
<1>1. ASSUME IInv, Records, NEW j \in Job
      PROVE  pc[j] \in {"new", "done"} \/ CanMove(j)
  <2>1. Record(j) /\ pc[j] \in Pc
    BY <1>1 DEF Records, IInv, TypeOK
  <2> QED
    BY <2>1 DEF Record, Cancelled, CanMove, Pc, WaitPc, RunPc
<1>2. IInv /\ Records => NobodyIsStuck
  BY <1>1 DEF NobodyIsStuck
<1> QED
  BY <1>2, Invariance, RecordsKept, PTL

-----------------------------------------------------------------------------
(* What a step does to one job.                                            *)

\* A timer and close() each cancel a job at most once, and none that has not had
\* its first step.
LEMMA CancelsAreNew ==
  ASSUME IInv, Records, (\E j \in Job : Timer(j)) \/ CloseCancelWaiting \/ GraceEnd
  PROVE  \E T \in SUBSET Job, c \in Cause :
            /\ Cancel(T, c)
            /\ \A k \in T : c \notin cause[k] /\ pc[k] \notin {"new", "created", "done"}
<1>1. ASSUME NEW j \in Job, Timer(j)
      PROVE  /\ Cancel({j}, "timer") /\ "timer" \notin cause[j]
             /\ pc[j] \notin {"new", "created", "done"}
  BY <1>1 DEF Timer, RunPc
<1>2. ASSUME NEW k \in Job, "close" \in cause[k]
      PROVE  closer \notin {"open", "yield"} /\ (pc[k] \in RunPc => closer # "grace")
  BY <1>2 DEF Records, Record, Cancelled
<1>3. CASE CloseCancelWaiting
  <2>1. \A k \in Live \ running : k \in Job /\ pc[k] \notin {"new", "created", "done"}
    BY <1>3 DEF CloseCancelWaiting, YieldOver, Live, In, WaitPc, RunPc
  <2>2. \A k \in Live \ running : "close" \notin cause[k]
    BY <1>2, <1>3, <2>1 DEF CloseCancelWaiting
  <2>3. Cancel(Live \ running, "close")
    BY <1>3 DEF CloseCancelWaiting
  <2> HIDE DEF Live
  <2> QED
    BY <2>1, <2>2, <2>3 DEF Cause
<1>4. CASE GraceEnd
  <2>1. \A k \in running : k \in Job /\ pc[k] \in RunPc
    BY DEF IInv, Counts, In
  <2>2. \A k \in running : "close" \notin cause[k]
    BY <1>2, <1>4, <2>1 DEF GraceEnd
  <2> QED
    BY <1>4, <2>1, <2>2 DEF GraceEnd, Cause, RunPc
<1>5. CASE \E j \in Job : Timer(j)
  <2>1. PICK j \in Job : Timer(j)
    BY <1>5
  <2>2. {j} \in SUBSET Job /\ "timer" \in Cause
    BY DEF Cause
  <2> QED
    BY <1>1, <2>1, <2>2
<1> QED
  BY <1>3, <1>4, <1>5

\* A job whose task is at a later state has a higher rank, whoever cancelled it
\* and whatever is being written.
LEMMA LaterStage ==
  ASSUME NEW k \in Job, pc[k] \in Pc, pc'[k] \in Pc, Stage[pc'[k]] > Stage[pc[k]]
  PROVE  Rank(k)' > Rank(k)
<1>1. Stage[pc[k]] \in Nat /\ Stage[pc'[k]] \in Nat
  BY DEF Stage, Pc, WaitPc, RunPc
<1>2. /\ One("timer" \in cause[k]) \in {0, 1} /\ One("timer" \in cause'[k]) \in {0, 1}
      /\ One("close" \in cause[k]) \in {0, 1} /\ One("close" \in cause'[k]) \in {0, 1}
      /\ One(~InFlight(k)) \in {0, 1} /\ One(~InFlight(k))' \in {0, 1}
  BY DEF One
<1> HIDE DEF Stage, One
<1> QED
  BY <1>1, <1>2 DEF Rank

\* What the steps of job j leave of the others: one may be handed a slot.
Elsewhere(j) ==
  \A k \in Job \ {j} :
     /\ pc'[k] = pc[k] \/ (pc[k] = "queued" /\ pc'[k] = "granted")
     /\ (k \in hit') = (k \in hit) /\ (k \in raised') = (k \in raised)
     /\ cause'[k] = cause[k] /\ result'[k] = result[k] /\ mark'[k] = mark[k]
     /\ row'[k] = row[k] /\ outcome'[k] = outcome[k]

JobStep(j) == TaskStep(j) \/ Write(j) \/ Submit(j) \/ Complete(j) \/ Raise(j)

\* A job's step, with the slot it may hand over, leaves every other job alone but
\* for the one that gets the slot.
LEMMA StepElsewhere ==
  ASSUME IInv, NEW j \in Job, JobStep(j)
  PROVE  Elsewhere(j) /\ pc'[j] \in Pc
<1> USE DEF IInv, TypeOK, dbVars, semVars, taskVars, Elsewhere
<1>0. /\ {"new", "created", "queued", "granted", "dropped", "rejected", "unstarted",
          "working", "committed", "failing", "cancelling", "leaving", "done"} = Pc
  BY DEF Pc, WaitPc, RunPc
<1>1. CASE Submit(j) \/ RejectionReturns(j) \/ FirstStep(j)
  BY <1>0, <1>1 DEF Submit, Accept, Reject, RejectionReturns, FirstStep, TakeFreeSlot, JoinQueue
<1>2. CASE Write(j) \/ UnstartedMarked(j) \/ UnstartedInterrupted(j)
  BY <1>0, <1>2 DEF Write, MarkWritten, MarkRaises, UnstartedMarked, UnstartedInterrupted
<1>3. CASE Complete(j) \/ Raise(j) \/ Return(j)
  BY <1>0, <1>3 DEF Complete, Raise, Return, Leave
<1>4. CASE Interrupt(j)
  BY <1>0, <1>4 DEF Interrupt, Leave
<1>5. CASE Acquired(j)
  <2>1. /\ pc'[j] = "working"
        /\ \A k \in Job \ {j} : pc'[k] = pc[k] \/ (pc[k] = "queued" /\ pc'[k] = "granted")
    BY <1>5, HandOff DEF Acquired, Pc, RunPc
  <2> QED
    BY <1>0, <1>5, <2>1 DEF Acquired
<1>6. CASE WaitCancelled(j)
  <2>1. /\ pc'[j] = "unstarted"
        /\ \A k \in Job \ {j} : pc'[k] = pc[k] \/ (pc[k] = "queued" /\ pc'[k] = "granted")
    <3>1. CASE pc[j] = "granted" /\ ReturnSlot(j)
      BY <3>1, HandOff DEF ReturnSlot, Pc
    <3>2. CASE pc' = [pc EXCEPT ![j] = "unstarted"]
      BY <3>2
    <3> QED
      BY <1>6, <3>1, <3>2 DEF WaitCancelled
  <2> QED
    BY <1>0, <1>6, <2>1 DEF WaitCancelled
<1>7. CASE Finish(j)
  <2>1. /\ pc'[j] = "done"
        /\ \A k \in Job \ {j} : pc'[k] = pc[k] \/ (pc[k] = "queued" /\ pc'[k] = "granted")
    BY <1>7, HandOff DEF Finish, Pc
  <2> QED
    BY <1>0, <1>7, <2>1 DEF Finish
<1> QED
  BY <1>1, <1>2, <1>3, <1>4, <1>5, <1>6, <1>7 DEF JobStep, TaskStep

\* A job's own step takes its task to a later state, or ends a write of it.
LEMMA StepAdvances ==
  ASSUME IInv, NEW j \in Job, JobStep(j)
  PROVE  Rank(j)' > Rank(j)
<1> USE DEF IInv, TypeOK, dbVars, semVars, taskVars
<1>0. pc[j] \in Pc /\ pc'[j] \in Pc
  BY StepElsewhere
<1>1. CASE Write(j)
  <2>1. InFlight(j) /\ ~InFlight(j)' /\ UNCHANGED <<pc, cause>>
    BY <1>1 DEF Write, MarkWritten, MarkRaises, InFlight, Message
  <2>2. Stage[pc[j]] \in Nat
    BY <1>0 DEF Stage, Pc, WaitPc, RunPc
  <2> HIDE DEF Stage
  <2> QED
    BY <2>1, <2>2 DEF Rank, One
<1>2. CASE ~Write(j)
  <2>1. Stage[pc'[j]] > Stage[pc[j]]
    <3>1. CASE Submit(j) \/ RejectionReturns(j) \/ FirstStep(j)
      BY <3>1 DEF Submit, Accept, Reject, RejectionReturns, FirstStep, TakeFreeSlot,
                  JoinQueue, Stage
    <3>2. CASE UnstartedMarked(j) \/ UnstartedInterrupted(j) \/ Complete(j) \/ Raise(j)
      BY <3>2 DEF UnstartedMarked, UnstartedInterrupted, Complete, Raise, Stage
    <3>3. CASE Return(j) \/ Interrupt(j)
      BY <3>3 DEF Return, Interrupt, Leave, Stage
    <3>4. CASE Acquired(j)
      <4>1. pc[j] = "granted" /\ pc'[j] = "working"
        BY <3>4, HandOff DEF Acquired, Pc, RunPc
      <4> QED
        BY <4>1 DEF Stage
    <3>5. CASE WaitCancelled(j)
      <4>1. pc[j] \in {"granted", "dropped"} /\ pc'[j] = "unstarted"
        <5>1. CASE ReturnSlot(j) /\ pc[j] = "granted"
          BY <5>1, HandOff DEF ReturnSlot, Pc
        <5> QED
          BY <3>5, <5>1 DEF WaitCancelled
      <4> QED
        BY <4>1 DEF Stage
    <3>6. CASE Finish(j)
      <4>1. pc[j] = "leaving" /\ pc'[j] = "done"
        BY <3>6, HandOff DEF Finish, Pc
      <4> QED
        BY <4>1 DEF Stage
    <3> QED
      BY <1>2, <3>1, <3>2, <3>3, <3>4, <3>5, <3>6 DEF JobStep, TaskStep
  <2> QED
    BY <1>0, <2>1, LaterStage
<1> QED
  BY <1>1, <1>2

\* So does a cancellation of it, or a slot that is handed to it.
LEMMA CancelAdvances ==
  ASSUME IInv, NEW T \in SUBSET Job, NEW c \in Cause, Cancel(T, c), NEW k \in T,
         c \notin cause[k], pc[k] # "created"
  PROVE  Rank(k)' > Rank(k)
<1> USE DEF IInv, TypeOK, dbVars
<1>1. CASE pc[k] = "queued"
  <2>1. pc'[k] = "dropped"
    BY <1>1 DEF Cancel, AfterCancel
  <2>2. /\ pc[k] \in Pc /\ pc'[k] \in Pc
        /\ Stage[pc'[k]] > Stage[pc[k]]
    BY <1>1, <2>1 DEF Stage, Pc, WaitPc
  <2> QED
    BY <2>2, LaterStage
<1>2. CASE pc[k] # "queued"
  <2>1. /\ pc'[k] = pc[k] /\ pc[k] \in Pc
        /\ cause'[k] = cause[k] \cup {c} /\ mark'[k] = mark[k]
    BY <1>2 DEF Cancel, AfterCancel
  <2>2. Stage[pc[k]] \in Nat /\ One(~InFlight(k))' = One(~InFlight(k))
    BY <2>1 DEF Stage, Pc, WaitPc, RunPc, InFlight, One
  <2>3. One(~InFlight(k)) \in {0, 1}
    BY DEF One
  <2> HIDE DEF Stage
  <2> QED
    BY <2>1, <2>2, <2>3 DEF Rank, One, Cause
<1> QED
  BY <1>1, <1>2

\* Being handed a slot takes a waiting job to a later state.
LEMMA GrantAdvances ==
  ASSUME IInv, NEW k \in Job, pc[k] = "queued", pc'[k] = "granted"
  PROVE  Rank(k)' > Rank(k)
<1>1. pc[k] \in Pc /\ pc'[k] \in Pc /\ Stage[pc'[k]] > Stage[pc[k]]
  BY DEF Stage, Pc, WaitPc
<1> QED
  BY <1>1, LaterStage

\* Whatever step changes a job raises its rank.
LEMMA NextAdvances ==
  ASSUME IInv, Records, [Next]_vars, NEW k \in Job, Of(k)' # Of(k)
  PROVE  Rank(k)' > Rank(k)
<1>1. ASSUME NEW j \in Job, JobStep(j)
      PROVE  Rank(k)' > Rank(k)
  <2>1. CASE j = k
    BY <1>1, <2>1, StepAdvances
  <2>2. CASE j # k
    <3>1. pc[k] = "queued" /\ pc'[k] = "granted"
      BY <1>1, <2>2, StepElsewhere DEF Elsewhere, Of
    <3> QED
      BY <3>1, GrantAdvances
  <2> QED
    BY <2>1, <2>2
<1>2. CASE (\E j \in Job : Timer(j)) \/ CloseCancelWaiting \/ GraceEnd
  <2>1. PICK T \in SUBSET Job, c \in Cause :
           /\ Cancel(T, c)
           /\ \A i \in T : c \notin cause[i] /\ pc[i] \notin {"new", "created", "done"}
    BY <1>2, CancelsAreNew
  <2>2. k \in T
    BY <2>1 DEF Cancel, Of, dbVars, IInv, TypeOK
  <2> QED
    BY <2>1, <2>2, CancelAdvances
<1>3. CASE CloseStart \/ DrainEnd \/ Exit \/ Stopped \/ UNCHANGED vars
  BY <1>3 DEF CloseStart, DrainEnd, Exit, Stopped, vars, taskVars, dbVars, Of
<1> QED
  BY <1>1, <1>2, <1>3 DEF Next, CloseStep, JobStep

\* No interleaving of timer, close(), failures and writes makes a job come back to
\* where it was: the rank it climbs with every change never falls.
THEOREM AlwaysForward == Spec => JobsAdvance
<1>1. IInv /\ Records /\ [Next]_vars =>
        [\A j \in Job : Of(j)' # Of(j) => Rank(j)' > Rank(j)]_vars
  BY NextAdvances
<1> QED
  BY <1>1, Invariance, RecordsKept, PTL DEF Spec, JobsAdvance

\* The rank is a natural number that cannot pass 35: a job changes a bounded number
\* of times.
THEOREM RankIsBounded == Spec => [](\A j \in Job : Rank(j) \in 0..35)
<1>1. ASSUME IInv, NEW j \in Job
      PROVE  Rank(j) \in 0..35
  <2>1. pc[j] \in Pc
    BY <1>1 DEF IInv, TypeOK
  <2>2. Stage[pc[j]] \in 0..8
    BY <2>1 DEF Stage, Pc, WaitPc, RunPc
  <2> HIDE DEF Stage
  <2> QED
    BY <2>2 DEF Rank, One
<1>2. IInv => \A j \in Job : Rank(j) \in 0..35
  BY <1>1
<1> QED
  BY <1>2, Invariance, PTL

-----------------------------------------------------------------------------
(* The contract of one job.                                                *)

\* Moved(j) says that job j's phase and status take a step of JobLife, or none.
Moved(j) ==
  LET p == LifePhase(j)
      q == LifePhase(j)'
      kept == LifeStatus(j)' = LifeStatus(j)
      failed == LifeStatus(j)' = "failed"
  IN  \/ p = q /\ kept
      \/ p = "idle" /\ q \in {"pending", "rejecting"} /\ kept
      \/ p = "pending" /\ q = "working" /\ kept
      \/ p = "working" /\ q = "committed" /\ LifeStatus(j)' = "completed"
      \/ p \in {"rejecting", "pending", "working", "committed"} /\ q = "over"
         /\ (kept \/ failed)

\* A job whose row, write and end stay as they are, and whose task at most leaves
\* the queue with a slot or without, has not moved.
LEMMA NotMoved ==
  ASSUME NEW k \in Job,
         pc'[k] = pc[k] \/ (pc[k] = "queued" /\ pc'[k] \in {"granted", "dropped"}),
         result'[k] = result[k], mark'[k] = mark[k], row'[k] = row[k]
  PROVE  LifePhase(k)' = LifePhase(k) /\ LifeStatus(k)' = LifeStatus(k)
<1>1. InFlight(k)' = InFlight(k)
  BY DEF InFlight
<1> QED
  BY <1>1 DEF LifePhase, LifeStatus, WaitPc, RunPc

\* If one job moves and the others do not, the contract takes a step or stutters.
LEMMA LifeStep ==
  ASSUME NEW j \in Job, Moved(j),
         \A k \in Job \ {j} :
            LifePhase(k)' = LifePhase(k) /\ LifeStatus(k)' = LifeStatus(k)
  PROVE  [Life!LNext]_(Life!lVars)
<1> DEFINE phase == [k \in Job |-> LifePhase(k)]
           status == [k \in Job |-> LifeStatus(k)]
<1>1. phase' = [phase EXCEPT ![j] = LifePhase(j)']
  OBVIOUS
<1>2. status' = [status EXCEPT ![j] = LifeStatus(j)']
  OBVIOUS
<1>3. phase[j] = LifePhase(j) /\ status[j] = LifeStatus(j)
  OBVIOUS
<1>4. LifeStatus(j)' = LifeStatus(j) => status' = status
  OBVIOUS
<1>5. LifePhase(j)' = LifePhase(j) => phase' = phase
  OBVIOUS
<1> HIDE DEF phase, status
<1>6. CASE LifePhase(j)' = LifePhase(j) /\ LifeStatus(j)' = LifeStatus(j)
  BY <1>4, <1>5, <1>6 DEF Life!lVars, phase, status
<1> USE DEF Life!Go, Life!Write
<1>7. CASE LifePhase(j) = "idle"
  BY <1>1, <1>3, <1>4, <1>6, <1>7 DEF Moved, Life!LNext, Life!LSubmit, phase, status
<1>8. CASE LifePhase(j) = "rejecting"
  BY <1>1, <1>2, <1>3, <1>4, <1>6, <1>8
  DEF Moved, Life!LNext, Life!LReject, Life!LVanish, phase, status
<1>9. CASE LifePhase(j) = "pending"
  BY <1>1, <1>2, <1>3, <1>4, <1>6, <1>9
  DEF Moved, Life!LNext, Life!LStart, Life!LFail, Life!LVanish, phase, status
<1>10. CASE LifePhase(j) = "working"
  BY <1>1, <1>2, <1>3, <1>4, <1>6, <1>10
  DEF Moved, Life!LNext, Life!LComplete, Life!LFail, Life!LVanish, phase, status
<1>11. CASE LifePhase(j) = "committed"
  BY <1>1, <1>2, <1>3, <1>4, <1>6, <1>11
  DEF Moved, Life!LNext, Life!LFail, Life!LVanish, phase, status
<1> QED
  BY <1>6, <1>7, <1>8, <1>9, <1>10, <1>11 DEF Moved

\* A job's own step, action by action.
LEMMA StepMoves ==
  ASSUME IInv, Records, NEW j \in Job, JobStep(j)
  PROVE  Moved(j)
<1> USE DEF IInv, TypeOK, WaitPc, RunPc, dbVars, semVars, taskVars, InFlight, LifePhase,
            LifeStatus, Moved
<1>0. Record(j)
  BY DEF Records
<1>1. CASE Submit(j)
  <2>1. CASE Accept(j)
    BY <1>1, <2>1 DEF Submit, Accept
  <2>2. ASSUME NEW m \in {"busy", "enqueue_failed"}, Reject(j, m)
        PROVE  Moved(j)
    <3>1. pc[j] = "new" /\ pc'[j] = "rejected" /\ mark'[j] \in Message /\ row'[j] = row[j]
      BY <1>1, <2>2 DEF Submit, Reject, Message
    <3> QED
      BY <3>1
  <2> QED
    BY <1>1, <2>1, <2>2 DEF Submit
<1>2. CASE RejectionReturns(j) \/ UnstartedMarked(j)
  BY <1>2 DEF RejectionReturns, UnstartedMarked
<1>3. CASE FirstStep(j)
  BY <1>3 DEF FirstStep, TakeFreeSlot, JoinQueue
<1>4. CASE Acquired(j)
  <2>1. pc[j] = "granted" /\ pc'[j] = "working" /\ row'[j] = row[j]
    BY <1>4, HandOff DEF Acquired, Pc
  <2> QED
    BY <2>1
<1>5. CASE WaitCancelled(j)
  <2>1. pc[j] \in {"granted", "dropped"} /\ pc'[j] = "unstarted"
    <3>1. CASE pc[j] = "granted" /\ ReturnSlot(j)
      BY <3>1, HandOff DEF ReturnSlot, Pc
    <3> QED
      BY <1>5, <3>1 DEF WaitCancelled
  <2>2. /\ row[j] = "processing" /\ row'[j] = row[j] /\ mark'[j] \in Message
        /\ result[j] = "none" /\ result'[j] = result[j]
    BY <1>0, <1>5, <2>1 DEF WaitCancelled, Record, Message
  <2> QED
    BY <2>1, <2>2
<1>6. CASE UnstartedInterrupted(j)
  <2>1. result[j] = "none"
    BY <1>0, <1>6 DEF UnstartedInterrupted, Record
  <2> QED
    BY <1>6, <2>1 DEF UnstartedInterrupted
<1>7. CASE Complete(j)
  BY <1>7 DEF Complete, Message
<1>8. CASE Raise(j)
  <2>1. /\ row[j] = IF pc[j] = "committed" THEN "completed" ELSE "processing"
        /\ pc[j] \in {"working", "committed"} /\ pc'[j] = "failing"
        /\ row'[j] = row[j] /\ mark'[j] \in Message
    BY <1>0, <1>8 DEF Raise, Record, FriendlyMessage, Message
  <2> QED
    BY <2>1
<1>9. CASE Return(j)
  <2>1. /\ pc'[j] = "leaving" /\ row'[j] = row[j] /\ mark'[j] = mark[j]
        /\ pc[j] \in {"committed", "failing", "cancelling"}
        /\ ~InFlight(j)
    BY <1>0, <1>9 DEF Return, Leave, Record, Message
  <2> QED
    BY <2>1
<1>10. CASE Interrupt(j)
  <2>1. CASE pc[j] \in {"working", "committed"}
    <3>1. /\ row[j] = IF pc[j] = "committed" THEN "completed" ELSE "processing"
          /\ pc'[j] = "cancelling" /\ row'[j] = row[j] /\ mark'[j] \in Message
      BY <1>0, <1>10, <2>1 DEF Interrupt, Record, CancellationMessage, Message
    <3> QED
      BY <2>1, <3>1
  <2>2. CASE pc[j] = "failing"
    <3>1. pc'[j] = "leaving" /\ row'[j] = row[j] /\ ~InFlight(j)'
      BY <1>10, <2>2 DEF Interrupt, Leave, Message
    <3> QED
      BY <2>2, <3>1
  <2>3. CASE pc[j] = "cancelling"
    <3>1. pc'[j] = "leaving" /\ row'[j] = row[j] /\ mark'[j] = mark[j]
      BY <1>10, <2>3 DEF Interrupt, Leave
    <3> QED
      BY <2>3, <3>1
  <2> QED
    BY <1>10, <2>1, <2>2, <2>3 DEF Interrupt
<1>11. CASE Finish(j)
  <2>1. pc[j] = "leaving" /\ pc'[j] = "done"
    BY <1>11, HandOff DEF Finish, Pc
  <2>2. /\ result[j] # "none" /\ row'[j] = row[j] /\ mark'[j] = mark[j]
        /\ result'[j] # "none"
    BY <1>0, <1>11, <2>1, EndLogged DEF Finish, Ends, Record, Left, IInv, TypeOK
  <2> QED
    BY <2>1, <2>2
<1>12. CASE Write(j)
  <2>1. /\ pc'[j] = pc[j] /\ InFlight(j) /\ ~InFlight(j)'
        /\ row'[j] = row[j] \/ row'[j] \in Message
        /\ result'[j] = result[j]
    BY <1>12 DEF Write, MarkWritten, MarkRaises, Message
  <2>2. pc[j] \in {"rejected", "unstarted", "failing", "cancelling", "leaving", "done"}
    BY <1>0, <2>1 DEF Record, Message, Pc
  <2> QED
    BY <2>1, <2>2
<1> QED
  BY <1>1, <1>2, <1>3, <1>4, <1>5, <1>6, <1>7, <1>8, <1>9, <1>10, <1>11, <1>12
  DEF JobStep, TaskStep

LEMMA NextLife == IInv /\ Records /\ [Next]_vars => [Life!LNext]_(Life!lVars)
<1> SUFFICES ASSUME IInv, Records, [Next]_vars PROVE [Life!LNext]_(Life!lVars)
  OBVIOUS
<1>1. ASSUME NEW j \in Job, JobStep(j)
      PROVE  [Life!LNext]_(Life!lVars)
  <2>1. Moved(j) /\ Elsewhere(j)
    BY <1>1, StepMoves, StepElsewhere
  <2>2. \A k \in Job \ {j} :
          LifePhase(k)' = LifePhase(k) /\ LifeStatus(k)' = LifeStatus(k)
    BY <2>1, NotMoved DEF Elsewhere
  <2> QED
    BY <2>1, <2>2, LifeStep
<1>2. ASSUME \A k \in Job : LifePhase(k)' = LifePhase(k) /\ LifeStatus(k)' = LifeStatus(k)
      PROVE  [Life!LNext]_(Life!lVars)
  BY <1>2 DEF Life!lVars
<1>3. CASE (\E j \in Job : Timer(j)) \/ CloseCancelWaiting \/ GraceEnd
  <2>1. PICK T \in SUBSET Job, c \in Cause :
           /\ Cancel(T, c)
           /\ \A i \in T : c \notin cause[i] /\ pc[i] \notin {"new", "created", "done"}
    BY <1>3, CancelsAreNew
  <2>2. ASSUME NEW k \in Job
        PROVE  /\ pc'[k] = pc[k] \/ (pc[k] = "queued" /\ pc'[k] \in {"granted", "dropped"})
               /\ result'[k] = result[k] /\ mark'[k] = mark[k] /\ row'[k] = row[k]
    BY <2>1 DEF Cancel, AfterCancel, dbVars, IInv, TypeOK
  <2> QED
    BY <1>2, <2>2, NotMoved
<1>4. CASE CloseStart \/ DrainEnd \/ Exit \/ Stopped \/ UNCHANGED vars
  <2>1. UNCHANGED <<pc, result, mark, row>>
    BY <1>4 DEF CloseStart, DrainEnd, Exit, Stopped, vars, taskVars, dbVars
  <2> QED
    BY <1>2, <2>1, NotMoved
<1> QED
  BY <1>1, <1>3, <1>4 DEF Next, CloseStep, JobStep

\* Each row is treated as the contract of one job says, by every interleaving of
\* its task, its failure writes and those that outlive the task.
THEOREM RunnerImplementsLife == Spec => ImplementsLife
<1>1. Init => Life!LInit
  <2>1. ASSUME Init, NEW j \in Job
        PROVE  LifePhase(j) = "idle" /\ LifeStatus(j) = "processing"
    <3>1. pc[j] = "new" /\ row[j] = "processing"
      BY <2>1 DEF Init
    <3> QED
      BY <3>1 DEF LifePhase, LifeStatus, WaitPc, Message
  <2> HIDE DEF LifePhase, LifeStatus
  <2> QED
    BY <2>1 DEF Life!LInit
<1> QED
  BY <1>1, NextLife, Invariance, RecordsKept, PTL DEF Spec, ImplementsLife, Life!LSpec
=================================================================================
