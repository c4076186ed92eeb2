---------------------------- MODULE JobRecords_proofs ----------------------------
(***************************************************************************)
(* Proofs about what each submission of JobRunner leaves behind: its row,  *)
(* the message in it, and its job.finished event.                          *)
(*                                                                         *)
(* The properties speak of jobs that are over, but what a job may say then *)
(* was decided when its cancellations were delivered.  Record(j) follows a *)
(* job through its states: which cancellations it has met, which message   *)
(* its failure write carries, and what fn's end was.                       *)
(***************************************************************************)
EXTENDS JobRunner_proofs

\* The failure write of a message of S, over a row in B, is in flight, has taken
\* effect, or has raised, before or after it took effect.
Told(j, S, B) == \/ mark[j] \in S /\ row[j] \in B
                 \/ mark[j] = "none" /\ row[j] \in S
                 \/ mark[j] = "error" /\ row[j] \in S \cup B

\* A cancellation is delivered to a job that was cancelled; close() cancels the
\* jobs without a slot before the others, and each of them once.
Cancelled(j) ==
  /\ j \in hit => cause[j] # {} /\ pc[j] \in {"granted", "dropped", "unstarted"} \cup RunPc
  /\ "close" \in cause[j] => /\ closer \notin {"open", "yield"}
                             /\ pc[j] \in RunPc => closer # "grace"
  /\ pc[j] \in {"new", "created", "queued", "rejected"} => cause[j] = {}
  /\ pc[j] \in {"granted", "working", "committed", "failing"} /\ j \notin hit => cause[j] = {}
  /\ pc[j] = "dropped" => j \in hit
  /\ pc[j] \in {"unstarted", "cancelling"} =>
       cause[j] # {} /\ (j \in hit => cause[j] = Cause)

Untouched == {"processing"}
Saved == {"processing", "completed"}

\* Refused by submit.
Refused(j) == \/ Told(j, {"busy"}, Untouched) /\ outcome[j] = "rejected_busy"
              \/ /\ Told(j, {"enqueue_failed"}, Untouched)
                 /\ outcome[j] = "none" /\ Closed

\* Cancelled before it had a slot: `busy' is written unless close() had a part in
\* it by then, and is not followed by an event that names close().
GivenUp(j) == \/ Told(j, {"busy"}, Untouched)
              \/ Told(j, {"sweep"}, Untouched) /\ "close" \in cause[j]

\* Cancelled in fn.
CutShort(j) == \/ Told(j, {"timeout"}, Saved) /\ "timer" \in cause[j]
               \/ Told(j, {"sweep"}, Saved) /\ Closed

\* fn has ended: with its row completed; after an exception of its own, whose
\* failure write has ended or was killed by a cancellation; or cut short.  An error
\* may have escaped it in each case.
Left(j) ==
  \/ /\ j \notin raised /\ row[j] = "completed" /\ mark[j] = "none"
     /\ \/ result[j] \in {"true", "raised"}
        \/ result[j] = "cancelled" /\ cause[j] # {}
  \/ /\ j \in raised /\ ~InFlight(j)
     /\ Told(j, FriendlyMessage, Saved)
     /\ \/ result[j] = "false" /\ mark[j] = "none"
        \/ result[j] = "raised"
        \/ result[j] = "cancelled" /\ cause[j] # {}
  \/ /\ j \in raised /\ cause[j] # {}
     /\ row[j] \in Saved /\ mark[j] = "none"
     /\ result[j] \in {"raised", "cancelled"}
  \/ /\ j \notin raised /\ cause[j] # {}
     /\ CutShort(j)
     /\ result[j] \in {"raised", "cancelled"}
     /\ InFlight(j) => cause[j] = Cause

\* The runner has logged how fn ended.
Logged(j) == outcome[j] \in OutcomesOf(result[j], cause[j])

\* The task is over without having entered fn.
NeverRan(j) ==
  /\ j \notin raised
  /\ \/ /\ cause[j] = {} /\ ~InFlight(j)
        /\ Refused(j)
     \/ /\ cause[j] = Cause /\ outcome[j] = "none"
        /\ GivenUp(j)
     \/ /\ cause[j] # {} /\ ~InFlight(j) /\ GivenUp(j)
        /\ outcome[j] = IF "close" \in cause[j] THEN "cancelled_waiting" ELSE "wait_timeout"
        /\ row[j] = "busy" => "close" \notin cause[j]

Record(j) ==
  /\ Cancelled(j)
  /\ pc[j] \in {"new", "working"} \cup WaitPc =>
       j \notin raised /\ row[j] = "processing" /\ mark[j] = "none"
  /\ pc[j] = "committed" =>
       j \notin raised /\ row[j] = "completed" /\ mark[j] = "none"
  /\ pc[j] = "rejected" => j \notin raised /\ Refused(j)
  /\ pc[j] = "unstarted" =>
       /\ j \notin raised /\ GivenUp(j)
       /\ "busy" \in {mark[j], row[j]} /\ "close" \in cause[j] => j \in hit
  /\ pc[j] = "failing" => j \in raised /\ Told(j, FriendlyMessage, Saved)
  /\ pc[j] = "cancelling" => j \notin raised /\ CutShort(j)
  /\ pc[j] = "leaving" => Left(j)
  /\ pc[j] = "done" => IF result[j] = "none" THEN NeverRan(j) ELSE Left(j) /\ Logged(j)
  /\ pc[j] \notin {"rejected", "done"} => outcome[j] = "none"
  /\ pc[j] \notin {"leaving", "done"} => result[j] = "none"

Records == \A j \in Job : Record(j)

-----------------------------------------------------------------------------
(* The invariant.                                                          *)

Forward == /\ Closed => Closed'
           /\ closer \notin {"open", "yield"} => closer' \notin {"open", "yield"}
           /\ closer \notin {"open", "yield", "grace"} => closer' # "grace"

\* A step of another job, which may hand this one a slot.
LEMMA RecordFrame ==
  ASSUME NEW k \in Job, Record(k), Forward,
         pc'[k] = pc[k] \/ (pc[k] = "queued" /\ pc'[k] = "granted"),
         (k \in hit') = (k \in hit), (k \in raised') = (k \in raised),
         cause'[k] = cause[k], result'[k] = result[k], mark'[k] = mark[k],
         row'[k] = row[k], outcome'[k] = outcome[k]
  PROVE  Record(k)'
<1> USE DEF Forward, WaitPc, RunPc
<1>1. Cancelled(k)'
  BY DEF Record, Cancelled
<1>2. /\ Refused(k) => Refused(k)'
      /\ GivenUp(k) => GivenUp(k)'
      /\ CutShort(k) => CutShort(k)'
      /\ InFlight(k) <=> InFlight(k)'
      /\ Told(k, FriendlyMessage, Saved) => Told(k, FriendlyMessage, Saved)'
  BY DEF Refused, GivenUp, CutShort, Told, InFlight
<1>3. Left(k) => Left(k)'
  BY <1>2 DEF Left
<1>4. Logged(k) => Logged(k)'
  BY DEF Logged, OutcomesOf
<1>5. NeverRan(k) => NeverRan(k)'
  BY <1>2 DEF NeverRan
<1> QED
  BY <1>1, <1>2, <1>3, <1>4, <1>5 DEF Record

LEMMA StayForward == ASSUME UNCHANGED closer PROVE Forward
BY DEF Forward, Closed
LEMMA InitRecords == Init => Records
BY DEF Init, Records, Record, Cancelled, WaitPc, RunPc

\* A step of job j keeps the records of all jobs if it keeps j's.
LEMMA OthersKept ==
  ASSUME Records, NEW j \in Job, Record(j)', UNCHANGED closer,
         \A k \in Job \ {j} :
            /\ pc'[k] = pc[k] \/ (pc[k] = "queued" /\ pc'[k] = "granted")
            /\ (k \in hit') = (k \in hit) /\ (k \in raised') = (k \in raised)
            /\ cause'[k] = cause[k] /\ result'[k] = result[k] /\ mark'[k] = mark[k]
            /\ row'[k] = row[k] /\ outcome'[k] = outcome[k]
  PROVE  Records'
<1> SUFFICES ASSUME NEW k \in Job PROVE Record(k)'
  BY DEF Records
<1>1. CASE k # j
  BY <1>1, RecordFrame, StayForward DEF Records
<1> QED
  BY <1>1

\* The job enters: its route submits it, and its task takes a slot or a place.
LEMMA EnteringSteps ==
  ASSUME IInv, Records, NEW j \in Job, Submit(j) \/ FirstStep(j) \/ RejectionReturns(j)
  PROVE  Records'
<1> USE DEF IInv, TypeOK, WaitPc, RunPc, dbVars, semVars, taskVars
<1>0. Record(j)
  BY DEF Records
<1>1. CASE Submit(j)
  <2>1. Record(j)'
    <3>1. CASE Accept(j)
      BY <1>0, <1>1, <3>1 DEF Submit, Accept, Record, Cancelled
    <3>2. CASE Reject(j, "busy") /\ outcome' = [outcome EXCEPT ![j] = "rejected_busy"]
      BY <1>0, <1>1, <3>2 DEF Submit, Reject, Record, Cancelled, Refused, Told, Untouched
    <3>3. CASE Reject(j, "enqueue_failed") /\ Closed /\ UNCHANGED outcome
      BY <1>0, <1>1, <3>3
      DEF Submit, Reject, Record, Cancelled, Refused, Told, Untouched, Closed
    <3> QED
      BY <1>1, <3>1, <3>2, <3>3 DEF Submit
  <2> QED
    BY <1>1, <2>1, OthersKept DEF Submit, Accept, Reject
<1>2. CASE FirstStep(j)
  <2>1. Record(j)'
    BY <1>0, <1>2 DEF FirstStep, TakeFreeSlot, JoinQueue, Record, Cancelled
  <2> QED
    BY <1>2, <2>1, OthersKept DEF FirstStep, TakeFreeSlot, JoinQueue
<1>3. CASE RejectionReturns(j)
  <2>1. /\ Cancelled(j)'
        /\ NeverRan(j)'
        /\ result'[j] = "none" /\ pc'[j] = "done"
    BY <1>0, <1>3 DEF RejectionReturns, Record, Cancelled, NeverRan, InFlight, Refused,
                      Told, Closed
  <2>2. Record(j)'
    BY <2>1 DEF Record
  <2> QED
    BY <1>3, <2>2, OthersKept DEF RejectionReturns
<1> QED
  BY <1>1, <1>2, <1>3

\* A failure write takes effect or raises.
LEMMA WriteSteps ==
  ASSUME IInv, Records, NEW j \in Job, Write(j)
  PROVE  Records'
<1> USE DEF IInv, TypeOK, WaitPc, RunPc, dbVars, semVars, taskVars
<1>0. Record(j) /\ InFlight(j)
  BY DEF Records, Write, MarkWritten, MarkRaises
<1>1. /\ UNCHANGED <<pc, hit, cause, result, outcome, raised, closer>>
      /\ \/ row'[j] = mark[j] /\ mark'[j] = "none"
         \/ row'[j] \in {row[j], mark[j]} /\ mark'[j] = "error"
      /\ \A k \in Job \ {j} : row'[k] = row[k] /\ mark'[k] = mark[k]
  BY DEF Write, MarkWritten, MarkRaises
<1>2. ASSUME NEW S, NEW B, Told(j, S, B)
      PROVE  Told(j, S, B)'
  BY <1>0, <1>1, <1>2 DEF Told, InFlight, Message
<1>3. Cancelled(j)' /\ ~InFlight(j)'
  BY <1>0, <1>1 DEF Record, Cancelled, InFlight, Message
<1>4. /\ Refused(j) => Refused(j)'
      /\ GivenUp(j) => GivenUp(j)'
      /\ CutShort(j) => CutShort(j)'
  BY <1>1, <1>2 DEF Refused, GivenUp, CutShort, Closed
<1>5. Left(j) => Left(j)'
  BY <1>0, <1>1, <1>3, <1>4 DEF Left, InFlight, Message
<1>6. Logged(j) => Logged(j)'
  BY <1>1 DEF Logged, OutcomesOf
<1>7. NeverRan(j) => NeverRan(j)'
  BY <1>0, <1>1, <1>3, <1>4 DEF NeverRan
<1>8. "busy" \in {mark'[j], row'[j]} => "busy" \in {mark[j], row[j]}
  BY <1>1
<1>9. Record(j)'
  <2>1. pc[j] \in {"rejected", "unstarted", "failing", "cancelling", "leaving", "done"}
    BY <1>0 DEF Record, InFlight, Message, Pc
  <2>2. /\ pc[j] = "failing" => Told(j, FriendlyMessage, Saved)'
        /\ pc[j] = "unstarted" => GivenUp(j)'
    BY <1>0, <1>2, <1>4 DEF Record
  <2> QED
    BY <1>0, <1>1, <1>3, <1>4, <1>5, <1>6, <1>7, <1>8, <2>1, <2>2 DEF Record
<1> QED
  BY <1>1, <1>9, OthersKept
\* What a step that hands on a slot does to the states of the tasks.
LEMMA HandOff ==
  ASSUME IInv, NEW j \in Job, NEW p \in Pc, NEW free,
         pc[j] # "queued", WakeNext([pc EXCEPT ![j] = p], free)
  PROVE  /\ pc'[j] = p
         /\ \A k \in Job \ {j} : pc'[k] = pc[k] \/ (pc[k] = "queued" /\ pc'[k] = "granted")
<1> DEFINE pcs == [pc EXCEPT ![j] = p]
<1>1. /\ pc \in [Job -> Pc] /\ pcs \in [Job -> Pc] /\ WakeNext(pcs, free)
      /\ \A w \in Job : pc[w] = "queued" => pcs[w] = "queued"
  BY DEF IInv, TypeOK
<1>2. \A k \in Job : pc'[k] = pcs[k] \/ (pc[k] = "queued" /\ pc'[k] = "granted")
  <2> HIDE DEF pcs
  <2> QED
    BY <1>1, WakeNextElsewhere
<1> QED
  BY <1>1, <1>2

\* The wait ends: with a slot, or with a cancellation and what follows it.
LEMMA WaitingSteps ==
  ASSUME IInv, Records, NEW j \in Job,
         Acquired(j) \/ WaitCancelled(j) \/ UnstartedMarked(j) \/ UnstartedInterrupted(j)
  PROVE  Records'
<1> USE DEF IInv, TypeOK, WaitPc, RunPc, dbVars, semVars, taskVars
<1>0. Record(j)
  BY DEF Records
<1>1. CASE Acquired(j)
  <2>1. /\ pc'[j] = "working"
        /\ \A k \in Job \ {j} : pc'[k] = pc[k] \/ (pc[k] = "queued" /\ pc'[k] = "granted")
    BY <1>1, HandOff DEF Acquired, Pc
  <2>2. Record(j)'
    BY <1>0, <1>1, <2>1 DEF Acquired, Record, Cancelled
  <2> QED
    BY <1>1, <2>1, <2>2, OthersKept DEF Acquired
<1>2. CASE WaitCancelled(j)
  <2>1. /\ pc'[j] = "unstarted"
        /\ \A k \in Job \ {j} : pc'[k] = pc[k] \/ (pc[k] = "queued" /\ pc'[k] = "granted")
    <3>1. CASE pc[j] = "granted" /\ ReturnSlot(j)
      BY <3>1, HandOff DEF ReturnSlot, Pc
    <3>2. CASE pc' = [pc EXCEPT ![j] = "unstarted"]
      BY <3>2
    <3> QED
      BY <1>2, <3>1, <3>2 DEF WaitCancelled
  <2>2. Cancelled(j)'
    BY <1>0, <1>2, <2>1 DEF WaitCancelled, Record, Cancelled
  <2>3. /\ j \notin raised' /\ GivenUp(j)'
        /\ "busy" \in {mark'[j], row'[j]} => "close" \notin cause'[j]
        /\ result'[j] = "none" /\ outcome'[j] = "none"
    BY <1>0, <1>2 DEF WaitCancelled, Record, GivenUp, Told, Untouched
  <2>4. Record(j)'
    BY <2>1, <2>2, <2>3 DEF Record
  <2> QED
    BY <1>2, <2>1, <2>4, OthersKept DEF WaitCancelled
<1>3. CASE UnstartedMarked(j)
  <2>1. Cancelled(j)' /\ NeverRan(j)' /\ result'[j] = "none" /\ pc'[j] = "done"
    BY <1>0, <1>3 DEF UnstartedMarked, Record, Cancelled, NeverRan, GivenUp, Told, InFlight
  <2>2. Record(j)'
    BY <2>1 DEF Record
  <2> QED
    BY <1>3, <2>2, OthersKept DEF UnstartedMarked
<1>4. CASE UnstartedInterrupted(j)
  <2>1. Cancelled(j)' /\ NeverRan(j)' /\ result'[j] = "none" /\ pc'[j] = "done"
    BY <1>0, <1>4 DEF UnstartedInterrupted, Record, Cancelled, NeverRan, GivenUp, Told
  <2>2. Record(j)'
    BY <2>1 DEF Record
  <2> QED
    BY <1>4, <2>2, OthersKept DEF UnstartedInterrupted
<1> QED
  BY <1>1, <1>2, <1>3, <1>4

\* fn runs, and ends.
LEMMA RunningSteps ==
  ASSUME IInv, Records, NEW j \in Job,
         Complete(j) \/ Raise(j) \/ Return(j) \/ Interrupt(j) \/ Finish(j)
  PROVE  Records'
<1> USE DEF IInv, TypeOK, WaitPc, RunPc, dbVars, semVars, taskVars
<1>0. Record(j)
  BY DEF Records
<1>1. CASE Complete(j)
  <2>1. Record(j)'
    BY <1>0, <1>1 DEF Complete, Record, Cancelled
  <2> QED
    BY <1>1, <2>1, OthersKept DEF Complete
<1>2. CASE Raise(j)
  <2>1. /\ Told(j, FriendlyMessage, Saved)'
        /\ Cancelled(j)'
        /\ pc'[j] = "failing" /\ j \in raised' /\ outcome'[j] = "none" /\ result'[j] = "none"
    BY <1>0, <1>2 DEF Raise, Record, Cancelled, Told, Saved
  <2>2. Record(j)'
    BY <2>1 DEF Record
  <2> QED
    BY <1>2, <2>2, OthersKept DEF Raise
<1>3. CASE Return(j)
  <2>1. Cancelled(j)' /\ pc'[j] = "leaving" /\ outcome'[j] = "none"
    BY <1>0, <1>3 DEF Return, Leave, Record, Cancelled
  <2>2. Left(j)'
    <3>1. CASE pc[j] = "committed"
      BY <1>0, <1>3, <3>1 DEF Return, Leave, Record, Left
    <3>2. CASE pc[j] = "failing"
      BY <1>0, <1>3, <3>2
      DEF Return, Leave, Record, Left, Told, InFlight, FriendlyMessage, Message
    <3>3. CASE pc[j] = "cancelling"
      <4>1. CutShort(j)'
        BY <1>0, <1>3, <3>3 DEF Return, Leave, Record, CutShort, Told, Closed
      <4> QED
        BY <1>0, <1>3, <3>3, <4>1 DEF Return, Leave, Record, Cancelled, Left, InFlight
    <3> QED
      BY <1>3, <3>1, <3>2, <3>3 DEF Return
  <2>3. Record(j)'
    BY <2>1, <2>2 DEF Record
  <2> QED
    BY <1>3, <2>3, OthersKept DEF Return, Leave
<1>4. CASE Interrupt(j)
  <2>1. cause[j] # {} /\ cause'[j] = cause[j]
    BY <1>0, <1>4 DEF Interrupt, Record, Cancelled
  <2>2. CASE pc[j] \in {"working", "committed"}
    <3>1. Cancelled(j)' /\ CutShort(j)'
      BY <1>0, <1>4, <2>1, <2>2
      DEF Interrupt, Record, Cancelled, CutShort, Told, Saved, CancellationMessage, Closed, Cause
    <3>2. Record(j)'
      BY <1>0, <1>4, <2>2, <3>1 DEF Interrupt, Record
    <3> QED
      BY <1>4, <2>2, <3>2, OthersKept DEF Interrupt
  <2>3. CASE pc[j] = "failing"
    <3>1. Cancelled(j)' /\ Left(j)'
      BY <1>0, <1>4, <2>1, <2>3
      DEF Interrupt, Leave, Record, Cancelled, Left, Told, InFlight, FriendlyMessage, Message,
          Saved
    <3>2. Record(j)'
      BY <1>0, <1>4, <2>3, <3>1 DEF Interrupt, Leave, Record
    <3> QED
      BY <1>4, <2>3, <3>2, OthersKept DEF Interrupt, Leave
  <2>4. CASE pc[j] = "cancelling"
    <3>1. Cancelled(j)' /\ Left(j)'
      BY <1>0, <1>4, <2>1, <2>4
      DEF Interrupt, Leave, Record, Cancelled, Left, CutShort, Told, InFlight, Closed
    <3>2. Record(j)'
      BY <1>0, <1>4, <2>4, <3>1 DEF Interrupt, Leave, Record
    <3> QED
      BY <1>4, <2>4, <3>2, OthersKept DEF Interrupt, Leave
  <2> QED
    BY <1>4, <2>2, <2>3, <2>4 DEF Interrupt
<1>5. CASE Finish(j)
  <2>1. /\ pc'[j] = "done"
        /\ \A k \in Job \ {j} : pc'[k] = pc[k] \/ (pc[k] = "queued" /\ pc'[k] = "granted")
    BY <1>5, HandOff DEF Finish, Pc
  <2>2. Cancelled(j)'
    BY <1>0, <1>5, <2>1 DEF Finish, Record, Cancelled
  <2>e. PICK r \in Ends(j) :
               /\ result' = [result EXCEPT ![j] = r]
               /\ \E o \in OutcomesOf(r, cause[j]) : outcome' = [outcome EXCEPT ![j] = o]
    BY <1>5, EndLogged
  <2>r. /\ r \in {result[j], "raised", "cancelled"}
        /\ r = "cancelled" => cause[j] # {}
    BY <1>0, <1>5 DEF Finish, Ends, Record, Cancelled, Left
  <2>3. Left(j)' /\ result'[j] # "none"
    <3>1. result'[j] = r /\ UNCHANGED <<mark, row, raised, cause, closer>>
      BY <1>5, <2>e DEF Finish
    <3>2. /\ CutShort(j) => CutShort(j)'
          /\ InFlight(j)' <=> InFlight(j)
          /\ Told(j, FriendlyMessage, Saved) => Told(j, FriendlyMessage, Saved)'
      BY <3>1 DEF CutShort, Told, InFlight, Closed
    <3>3. Left(j)
      BY <1>0, <1>5 DEF Finish, Record
    <3> QED
      BY <2>r, <3>1, <3>2, <3>3 DEF Left
  <2>4. Logged(j)'
    BY <1>5, <2>e DEF Finish, Logged
  <2>5. Record(j)'
    BY <2>1, <2>2, <2>3, <2>4 DEF Record
  <2> QED
    BY <1>5, <2>1, <2>5, OthersKept DEF Finish
<1> QED
  BY <1>1, <1>2, <1>3, <1>4, <1>5
\* A timer or close() cancels jobs it has not cancelled yet.
LEMMA CancelKeeps ==
  ASSUME IInv, Records, NEW T \in SUBSET Job, NEW c \in Cause, Cancel(T, c), Forward,
         \A k \in T : /\ c \notin cause[k]
                      /\ pc[k] \in {"queued", "granted", "dropped", "unstarted"} \cup RunPc
                      /\ pc[k] = "unstarted" => c = "close",
         c = "close" => /\ closer' \notin {"open", "yield"}
                        /\ \A k \in T : pc[k] \in RunPc => closer' # "grace"
  PROVE  Records'
<1> SUFFICES ASSUME NEW k \in Job PROVE Record(k)'
  BY DEF Records
<1> USE DEF IInv, TypeOK, WaitPc, RunPc, dbVars
<1>0. Record(k)
  BY DEF Records
<1>1. CASE k \notin T
  BY <1>0, <1>1, RecordFrame DEF Cancel
<1>2. CASE k \in T
  <2>1. /\ cause'[k] = cause[k] \cup {c} /\ k \in hit'
        /\ pc'[k] = IF pc[k] = "queued" THEN "dropped" ELSE pc[k]
        /\ UNCHANGED <<result, outcome, raised, mark, row>>
    BY <1>2 DEF Cancel, AfterCancel, In
  <2>2. cause[k] # {} => cause'[k] = Cause
    BY <1>2, <2>1 DEF Cause
  <2>3. Cancelled(k)'
    BY <1>0, <1>2, <2>1, <2>2 DEF Record, Cancelled, Forward, Cause
  <2>4. /\ GivenUp(k) => GivenUp(k)'
        /\ CutShort(k) => CutShort(k)'
        /\ InFlight(k)' <=> InFlight(k)
        /\ Told(k, FriendlyMessage, Saved) => Told(k, FriendlyMessage, Saved)'
    BY <2>1 DEF GivenUp, CutShort, Told, InFlight, Forward
  <2>5. Left(k) => Left(k)'
    <3>1. cause[k] = Cause => cause'[k] = Cause
      BY <2>1 DEF Cause
    <3> QED
      BY <2>1, <2>4, <3>1 DEF Left
  <2> QED
    BY <1>0, <1>2, <2>1, <2>3, <2>4, <2>5 DEF Record
<1> QED
  BY <1>1, <1>2

LEMMA NextRecords == IInv /\ Records /\ [Next]_vars => Records'
<1> SUFFICES ASSUME IInv, Records, [Next]_vars PROVE Records'
  OBVIOUS
<1>1. ASSUME NEW j \in Job, TaskStep(j) \/ Write(j) \/ Submit(j) \/ Complete(j) \/ Raise(j)
      PROVE  Records'
  BY <1>1, EnteringSteps, WriteSteps, WaitingSteps, RunningSteps DEF TaskStep
<1>2. ASSUME NEW j \in Job, Timer(j)
      PROVE  Records'
  <2>1. Cancel({j}, "timer") /\ UNCHANGED closer /\ "timer" \notin cause[j]
    BY <1>2 DEF Timer
  <2>2. pc[j] \in {"queued", "granted", "dropped"} \cup RunPc /\ pc[j] # "unstarted"
    BY <1>2 DEF Timer, RunPc
  <2> QED
    BY <2>1, <2>2, CancelKeeps, StayForward DEF Cause
<1>3. ASSUME NEW k \in Job, "close" \in cause[k]
      PROVE  closer \notin {"open", "yield"} /\ (pc[k] \in RunPc => closer # "grace")
  BY <1>3 DEF Records, Record, Cancelled
<1>4. CASE CloseCancelWaiting
  <2>1. \A k \in Live \ running :
          pc[k] \in {"queued", "granted", "dropped", "unstarted"} /\ k \in Job
    BY <1>4 DEF CloseCancelWaiting, YieldOver, Live, IInv, Counts, In, WaitPc
  <2>2. \A k \in Live \ running : "close" \notin cause[k] /\ pc[k] \notin RunPc
    BY <1>3, <1>4, <2>1 DEF CloseCancelWaiting, RunPc
  <2>3. Cancel(Live \ running, "close") /\ closer = "yield" /\ closer' \in {"drain", "grace"}
    BY <1>4 DEF CloseCancelWaiting
  <2> HIDE DEF Live
  <2>4. Live \ running \in SUBSET Job
    BY <2>1
  <2> QED
    BY <2>1, <2>2, <2>3, <2>4, CancelKeeps DEF Cause, Forward, Closed
<1>5. CASE GraceEnd
  <2>1. \A k \in running : pc[k] \in RunPc /\ k \in Job
    BY DEF IInv, Counts, In
  <2>2. \A k \in running : "close" \notin cause[k] /\ pc[k] # "unstarted"
    BY <1>3, <1>5, <2>1 DEF GraceEnd, RunPc
  <2>3. Cancel(running, "close") /\ closer = "grace" /\ closer' = "drain"
    BY <1>5 DEF GraceEnd
  <2>4. running \in SUBSET Job
    BY <2>1
  <2> QED
    BY <2>1, <2>2, <2>3, <2>4, CancelKeeps DEF Cause, Forward, Closed
<1>6. CASE CloseStart \/ DrainEnd \/ Exit \/ Stopped \/ UNCHANGED vars
  <2>1. Forward /\ UNCHANGED <<pc, hit, cause, result, outcome, raised, mark, row>>
    BY <1>6 DEF CloseStart, DrainEnd, Exit, Stopped, vars, taskVars, dbVars, Forward, Closed
  <2> QED
    BY <2>1, RecordFrame DEF Records
<1> QED
  BY <1>1, <1>2, <1>4, <1>5, <1>6 DEF Next, CloseStep

\* Every job's record is as Record says, for any number of submissions, with or
\* without database faults and an expiring drain.
THEOREM RecordsKept == Spec => []Records
<1>1. Init => Records
  BY InitRecords
<1>2. IInv /\ Records /\ [Next]_vars => Records'
  BY NextRecords
<1> QED
  BY <1>1, <1>2, Invariance, PTL DEF Spec

-----------------------------------------------------------------------------
(* What the invariant gives.                                               *)

\* The user is told the real reason, whichever of the timer, close() and an
\* exception of its own got to the job, in whatever order.
THEOREM MessagesAreTrue == Spec => []TruthfulMessages
<1>1. ASSUME IInv, Records, NEW j \in Job
      PROVE  /\ row[j] = "busy" => pc[j] \notin WaitPc \cup RunPc /\ j \notin raised
                                   /\ outcome[j] \in {"none", "rejected_busy", "wait_timeout"}
             /\ row[j] = "timeout" => /\ "timer" \in cause[j]
                                      /\ pc[j] \in {"cancelling", "leaving", "done"}
                                      /\ \/ outcome[j] \in {"none", "run_timeout", "cancelled_running"}
                                         \/ outcome[j] = "failed" /\ result[j] = "raised"
             /\ row[j] = "enqueue_failed" => Closed /\ outcome[j] = "none"
             /\ row[j] = "sweep" => Closed \/ j \in raised
  <2>0. Record(j) /\ pc[j] \in Pc
    BY <1>1 DEF Records, IInv, TypeOK
  <2> USE DEF Told, FriendlyMessage, Saved, Untouched
  <2>1. CASE pc[j] = "done" /\ result[j] = "none"
    BY <2>0, <2>1 DEF Record, NeverRan, Refused, GivenUp, Cancelled, Closed, WaitPc, RunPc
  <2>2. CASE pc[j] \in {"leaving", "done"} /\ Left(j)
    <3>1. row[j] \in Saved \cup FriendlyMessage \cup {"timeout"}
      BY <2>2 DEF Left, CutShort
    <3>2. row[j] = "timeout" => "timer" \in cause[j] /\ result[j] \in {"raised", "cancelled"}
      BY <2>2 DEF Left, CutShort
    <3>3. /\ result[j] = "cancelled" /\ outcome[j] # "none" =>
              outcome[j] \in {"run_timeout", "cancelled_running"}
          /\ result[j] = "raised" /\ outcome[j] # "none" =>
              outcome[j] \in {"run_timeout", "failed"}
      BY <2>0, <2>2 DEF Record, Logged, OutcomesOf
    <3>4. row[j] = "sweep" => Closed \/ j \in raised
      BY <2>2 DEF Left, CutShort
    <3> QED
      BY <2>2, <3>1, <3>2, <3>3, <3>4
  <2>3. CASE pc[j] \notin {"leaving", "done"}
    BY <2>0, <2>3
    DEF Record, Refused, GivenUp, CutShort, Cancelled, Closed, Pc, WaitPc, RunPc
  <2> QED
    BY <2>0, <2>1, <2>2, <2>3 DEF Record
<1>2. IInv /\ Records => TruthfulMessages
  BY <1>1 DEF TruthfulMessages
<1> QED
  BY <1>2, Invariance, RecordsKept, PTL

\* A row is left in 'processing' by a job that is over in three ways only.
THEOREM LossesAreKnown == Spec => []NoSilentLoss
<1>1. ASSUME IInv, Records, NEW j \in Job, pc[j] = "done", row[j] = "processing"
      PROVE  \/ j \in raised /\ cause[j] # {}
             \/ mark[j] = "error"
             \/ InFlight(j) /\ cause[j] = Cause
  <2>0. Record(j)
    BY <1>1 DEF Records
  <2>1. CASE NeverRan(j)
    BY <1>1, <2>1 DEF NeverRan, Refused, GivenUp, Told, InFlight, Message
  <2>2. CASE Left(j)
    BY <1>1, <2>2 DEF Left, CutShort, Told, InFlight, Message, FriendlyMessage
  <2> QED
    BY <1>1, <2>0, <2>1, <2>2 DEF Record
<1>2. IInv /\ Records => NoSilentLoss
  BY <1>1 DEF NoSilentLoss
<1> QED
  BY <1>2, Invariance, RecordsKept, PTL

\* The event of a job agrees with its row and with who cancelled it.
THEOREM EventsAgree == Spec => []OutcomeAgrees
<1>1. ASSUME IInv, Records, NEW j \in Job
      PROVE  /\ outcome[j] = "succeeded" => row[j] = "completed"
             /\ row[j] = "completed" =>
                  \/ outcome[j] \in {"none", "succeeded"}
                  \/ /\ outcome[j] \in {"failed", "run_timeout", "cancelled_running"}
                     /\ cause[j] # {} \/ result[j] = "raised"
             /\ outcome[j] = "run_timeout" => cause[j] = {"timer"} \/ result[j] = "raised"
             /\ outcome[j] = "cancelled_running" => "close" \in cause[j]
  <2>0. Record(j) /\ cause[j] \in SUBSET Cause
    BY <1>1 DEF Records, IInv, TypeOK
  <2>1. CASE NeverRan(j)
    BY <2>1 DEF NeverRan, Refused, GivenUp, Told, Untouched
  <2>2. CASE Left(j) /\ Logged(j)
    <3>1. /\ result[j] = "true" => row[j] = "completed"
          /\ result[j] = "false" => row[j] \in FriendlyMessage
          /\ result[j] = "cancelled" => cause[j] # {}
          /\ result[j] \in {"true", "false", "raised", "cancelled"}
      BY <2>2 DEF Left, Told, FriendlyMessage
    <3>2. result[j] \in {"true", "false", "raised"} =>
            outcome[j] \in (CASE result[j] = "true" -> {"succeeded"}
                              [] result[j] = "false" -> {"failed"}
                              [] OTHER -> {"failed", "run_timeout"})
      BY <2>2 DEF Logged, OutcomesOf
    <3>3. result[j] = "cancelled" =>
            outcome[j] = IF "close" \in cause[j] THEN "cancelled_running" ELSE "run_timeout"
      BY <2>2 DEF Logged, OutcomesOf
    <3> QED
      BY <2>0, <3>1, <3>2, <3>3 DEF FriendlyMessage, Cause
  <2>3. CASE outcome[j] = "none"
    BY <2>3
  <2>4. CASE Refused(j)
    BY <2>4 DEF Refused, Told, Untouched
  <2> QED
    BY <2>0, <2>1, <2>2, <2>3, <2>4 DEF Record
<1>2. IInv /\ Records => OutcomeAgrees
  BY <1>1 DEF OutcomeAgrees
<1> QED
  BY <1>2, Invariance, RecordsKept, PTL

\* An event goes missing only when close() refuses the job or both cancel it.
THEOREM EventsAreKept == Spec => []EventLostOnlyTwiceCancelled
<1>1. ASSUME IInv, Records, NEW j \in Job, pc[j] = "done", outcome[j] = "none"
      PROVE  \/ cause[j] = {} /\ Closed /\ row[j] \in {"processing", "enqueue_failed"}
             \/ cause[j] = Cause
  <2>0. Record(j)
    BY <1>1 DEF Records
  <2>1. CASE NeverRan(j)
    BY <1>1, <2>1 DEF NeverRan, Refused, Told, Untouched
  <2>2. CASE Logged(j)
    BY <1>1, <2>2, OutcomeType DEF Logged, Outcome
  <2> QED
    BY <1>1, <2>0, <2>1, <2>2 DEF Record
<1>2. IInv /\ Records => EventLostOnlyTwiceCancelled
  BY <1>1 DEF EventLostOnlyTwiceCancelled
<1> QED
  BY <1>2, Invariance, RecordsKept, PTL
===============================================================================
