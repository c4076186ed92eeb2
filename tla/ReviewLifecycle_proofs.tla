------------------------ MODULE ReviewLifecycle_proofs ------------------------
(***************************************************************************)
(* Proofs about the review row for any number of requests, jobs and        *)
(* processes and any time limits: no row is left in 'processing' without   *)
(* an owner, and the startup sweep spares the rows of live jobs.           *)
(***************************************************************************)
EXTENDS ReviewLifecycle, TLAPS

\* The attempt of a row is at most Lag older than a job that works on it, and
\* no older than a handler's commit.
Young ==
  /\ \A r \in Request : req[r].pc = "submitting" /\ RowIs(req[r].id)
                        => row.age <= req[r].age
  /\ \A j \in Job : job[j].phase # "none" /\ RowIs(job[j].id)
                    => row.age <= job[j].age + Lag

IInv == TypeOK /\ NoOrphanProcessing /\ Young

-----------------------------------------------------------------------------
(* What the records of the model may be.                                   *)

\* A handler starts, moves and ends within its type.
LEMMA ReqValues ==
  /\ Idle \in ReqType
  /\ \A pc \in ReqPc, v \in Review \cup {None}, p \in Process \cup {None} :
        [pc |-> pc, id |-> v, proc |-> p, age |-> 0] \in ReqType
  /\ \A q \in ReqType, pc \in ReqPc : [q EXCEPT !.pc = pc] \in ReqType
  /\ \A q \in ReqType : [q EXCEPT !.pc = "inserting", !.id = None] \in ReqType
  /\ \A q \in ReqType : q.age < Lag => [q EXCEPT !.age = @ + 1] \in ReqType
<1>1. Idle \in ReqType
  BY TimeAssumption DEF Idle, ReqType, ReqPc
<1>2. \A pc \in ReqPc, v \in Review \cup {None}, p \in Process \cup {None} :
     [pc |-> pc, id |-> v, proc |-> p, age |-> 0] \in ReqType
  BY TimeAssumption DEF Idle, ReqType, ReqPc
<1>3. \A q \in ReqType, pc \in ReqPc : [q EXCEPT !.pc = pc] \in ReqType
  BY TimeAssumption DEF Idle, ReqType, ReqPc
<1>4. \A q \in ReqType : [q EXCEPT !.pc = "inserting", !.id = None] \in ReqType
  BY TimeAssumption DEF Idle, ReqType, ReqPc
<1>5. \A q \in ReqType : q.age < Lag => [q EXCEPT !.age = @ + 1] \in ReqType
  BY TimeAssumption DEF Idle, ReqType, ReqPc
<1> QED
  BY <1>1, <1>2, <1>3, <1>4, <1>5

\* So does a job.
LEMMA JobValues ==
  /\ NoJob \in JobType
  /\ \A v \in Review \cup {None}, p \in Process \cup {None} :
        [phase |-> "pending", id |-> v, proc |-> p, age |-> 0,
         saw |-> "absent"] \in JobType
  /\ \A k \in JobType, saw \in Status :
        [k EXCEPT !.phase = "working", !.saw = saw] \in JobType
  /\ \A k \in JobType : [k EXCEPT !.phase = "committed"] \in JobType
  /\ \A k \in JobType :
        k.age < Timeout + Lag => [k EXCEPT !.age = @ + 1] \in JobType
<1>1. NoJob \in JobType
  BY TimeAssumption DEF NoJob, JobType, Phase, Status
<1>2. \A v \in Review \cup {None}, p \in Process \cup {None} :
     [phase |-> "pending", id |-> v, proc |-> p, age |-> 0,
     saw |-> "absent"] \in JobType
  BY TimeAssumption DEF NoJob, JobType, Phase, Status
<1>3. \A k \in JobType, saw \in Status :
     [k EXCEPT !.phase = "working", !.saw = saw] \in JobType
  BY TimeAssumption DEF NoJob, JobType, Phase, Status
<1>4. \A k \in JobType : [k EXCEPT !.phase = "committed"] \in JobType
  BY TimeAssumption DEF NoJob, JobType, Phase, Status
<1>5. \A k \in JobType :
     k.age < Timeout + Lag => [k EXCEPT !.age = @ + 1] \in JobType
  BY TimeAssumption DEF NoJob, JobType, Phase, Status
<1> QED
  BY <1>1, <1>2, <1>3, <1>4, <1>5

\* And the row.
LEMMA RowValues ==
  /\ \A v \in Review : [id |-> v, status |-> "processing", age |-> 0] \in RowType
  /\ \A w \in RowType, s \in Status \ {"absent"} :
        [w EXCEPT !.status = s] \in RowType
  /\ \A w \in RowType :
        [w EXCEPT !.status = "processing", !.age = 0] \in RowType
  /\ \A w \in RowType :
        w.age <= Threshold => [w EXCEPT !.age = @ + 1] \in RowType
<1>1. \A v \in Review : [id |-> v, status |-> "processing", age |-> 0] \in RowType
  BY TimeAssumption DEF RowType, Status
<1>2. \A w \in RowType, s \in Status \ {"absent"} :
     [w EXCEPT !.status = s] \in RowType
  BY TimeAssumption DEF RowType, Status
<1>3. \A w \in RowType :
     [w EXCEPT !.status = "processing", !.age = 0] \in RowType
  <2>1. "processing" \in Status \ {"absent"} /\ 0 \in 0..(Threshold + 1)
    BY TimeAssumption DEF Status
  <2> QED
    BY <2>1 DEF RowType
<1>4. \A w \in RowType :
     w.age <= Threshold => [w EXCEPT !.age = @ + 1] \in RowType
  BY TimeAssumption DEF RowType, Status
<1> QED
  BY <1>1, <1>2, <1>3, <1>4

\* A row that is there has a key, a status and an age.
LEMMA RowFacts ==
  ASSUME TypeOK
  PROVE  /\ row.status \in Status
         /\ row.id \in Review \cup {None}
         /\ row.status # "absent" => row \in RowType
         /\ row.age \in Nat
  BY TimeAssumption DEF TypeOK, RowType, NoRow, Status

-----------------------------------------------------------------------------
(* Type correctness.                                                       *)

\* The program starts with no row, so nothing is owed.
LEMMA InitIInv == Init => IInv
<1> SUFFICES ASSUME Init PROVE IInv
  OBVIOUS
<1>1. TypeOK
  BY ReqValues, JobValues DEF Init, TypeOK
<1>2. NoOrphanProcessing /\ Young
  BY DEF Init, NoOrphanProcessing, Young, RowIs, NoRow
<1> QED
  BY <1>1, <1>2 DEF IInv

\* The three ways a handler moves keep the type of req.
LEMMA ReqMoves ==
  ASSUME TypeOK, NEW r \in Request
  PROVE  /\ Return(r) => req' \in [Request -> ReqType]
         /\ \A pc \in ReqPc : Becomes(r, pc) => req' \in [Request -> ReqType]
         /\ \A pc \in ReqPc, v \in Review \cup {None}, p \in Process \cup {None} :
               Enter(r, p, pc, v) => req' \in [Request -> ReqType]
<1>1. req \in [Request -> ReqType] /\ req[r] \in ReqType
  BY DEF TypeOK
<1>2. \A q \in ReqType : [req EXCEPT ![r] = q] \in [Request -> ReqType]
  BY <1>1
<1>3. Return(r) => req' \in [Request -> ReqType]
  BY <1>2, ReqValues DEF Return
<1>4. ASSUME NEW pc \in ReqPc, Becomes(r, pc)
      PROVE  req' \in [Request -> ReqType]
  <2>1. [req[r] EXCEPT !.pc = pc] \in ReqType
    BY <1>1, ReqValues
  <2> QED
    BY <1>2, <1>4, <2>1 DEF Becomes
<1>5. ASSUME NEW pc \in ReqPc, NEW v \in Review \cup {None},
             NEW p \in Process \cup {None}, Enter(r, p, pc, v)
      PROVE  req' \in [Request -> ReqType]
  <2>1. [pc |-> pc, id |-> v, proc |-> p, age |-> 0] \in ReqType
    BY ReqValues
  <2> QED
    BY <1>2, <1>5, <2>1 DEF Enter
<1> QED
  BY <1>3, <1>4, <1>5

\* A handler's step keeps every type.
LEMMA HandleType ==
  ASSUME TypeOK, NEW r \in Request, Handle(r)
  PROVE  TypeOK'
<1>0. req[r] \in ReqType
  BY DEF TypeOK
<1>1. CASE CreateDelete(r)
  BY <1>0, <1>1, ReqValues DEF CreateDelete, TypeOK
<1>2. CASE CreateInsert(r)
  <2>1. req[r].proc \in Process \cup {None} /\ "submitting" \in ReqPc
    BY <1>0 DEF ReqType, ReqPc
  <2> QED
    BY <1>2, <2>1, ReqMoves, RowValues DEF CreateInsert, TypeOK
<1>3. CASE Reset(r)
  <2>1. "submitting" \in ReqPc
    BY DEF ReqPc
  <2>2. req' \in [Request -> ReqType]
    BY <1>3, <2>1, ReqMoves DEF Reset
  <2>3. row' \in RowType \cup {NoRow}
    BY <1>3, RowValues, RowFacts DEF Reset, RowIs, TypeOK
  <2> QED
    BY <1>3, <2>2, <2>3 DEF Reset, TypeOK
<1>4. CASE Submit(r)
  <2>1. /\ req[r].proc \in Process \cup {None}
        /\ req[r].id \in Review \cup {None}
        /\ "rejecting" \in ReqPc
    BY <1>0 DEF ReqType, ReqPc
  <2> QED
    BY <1>4, <2>1, ReqMoves, JobValues DEF Submit, Accepted, Rejected, TypeOK
<1>5. CASE RejectMark(r) \/ StaleMark(r)
  <2>1. "failed" \in Status \ {"absent"}
    BY DEF Status
  <2> QED
    BY <1>5, <2>1, ReqMoves, RowValues, RowFacts
    DEF RejectMark, StaleMark, Set, RowIs, TypeOK
<1> QED
  BY <1>1, <1>2, <1>3, <1>4, <1>5 DEF Handle

\* A job's step keeps every type.
LEMMA JobStepType ==
  ASSUME TypeOK, NEW j \in Job, JobStep(j) \/ JobVanish(j)
  PROVE  TypeOK'
<1>0. job[j] \in JobType /\ {"failed", "completed"} \subseteq Status \ {"absent"}
  BY DEF TypeOK, Status
<1>1. CASE JobLoad(j) \/ JobEnd(j)
  BY <1>0, <1>1, JobValues, RowFacts DEF JobLoad, JobEnd, End, TypeOK
<1>2. CASE JobComplete(j)
  BY <1>0, <1>2, JobValues, RowValues, RowFacts DEF JobComplete, RowIs, TypeOK
<1>3. CASE JobFail(j)
  BY <1>0, <1>3, JobValues, RowValues, RowFacts DEF JobFail, Set, RowIs, End, TypeOK
<1>4. CASE JobVanish(j)
  BY <1>4, JobValues DEF JobVanish, End, TypeOK, RowIs
<1> QED
  BY <1>1, <1>2, <1>3, <1>4 DEF JobStep

\* Every step keeps every type.
LEMMA NextType == TypeOK /\ [Next]_vars => TypeOK'
<1> SUFFICES ASSUME TypeOK, [Next]_vars PROVE TypeOK'
  OBVIOUS
<1>1. CASE UNCHANGED vars
  BY <1>1 DEF vars, TypeOK
<1>2. ASSUME NEW r \in Request, NEW p \in Process, Arrive(r, p) PROVE TypeOK'
  <2>1. \A pc \in ReqPc, v \in Review \cup {None} :
           Enter(r, p, pc, v) => req' \in [Request -> ReqType]
    BY ReqMoves
  <2>2. /\ "inserting" \in ReqPc /\ "deleting" \in ReqPc
        /\ "resetting" \in ReqPc /\ "staling" \in ReqPc
    BY DEF ReqPc
  <2> QED
    BY <1>2, <2>1, <2>2, RowFacts
    DEF Arrive, CreateRead, RetryRead, PollRead, TypeOK
<1>3. ASSUME NEW p \in Process, Boot(p) PROVE TypeOK'
  <2>1. "failed" \in Status \ {"absent"}
    BY DEF Status
  <2> QED
    BY <1>3, <2>1, RowValues, RowFacts DEF Boot, Sweep, Stale, TypeOK
<1>4. ASSUME NEW p \in Process, Crash(p) PROVE TypeOK'
  BY <1>4, ReqValues, JobValues DEF Crash, TypeOK
<1>5. CASE DeleteSession
  BY <1>5 DEF DeleteSession, TypeOK
<1>6. CASE Tick
  <2>1. row' \in RowType \cup {NoRow}
    <3>1. CASE row.status = "absent" \/ row.age > Threshold
      BY <1>6, <3>1 DEF Tick, TypeOK
    <3>2. CASE ~(row.status = "absent" \/ row.age > Threshold)
      <4>1. row \in RowType /\ row.age <= Threshold
        BY <3>2, RowFacts, TimeAssumption
      <4> QED
        BY <1>6, <3>2, <4>1, RowValues DEF Tick
    <3> QED
      BY <3>1, <3>2
  <2>2. req' \in [Request -> ReqType]
    BY <1>6, ReqValues DEF Tick, TypeOK
  <2>3. job' \in [Job -> JobType]
    BY <1>6, JobValues DEF Tick, TypeOK
  <2> QED
    BY <1>6, <2>1, <2>2, <2>3 DEF Tick, TypeOK
<1>7. ASSUME NEW r \in Request, HandlerBreaks(r) PROVE TypeOK'
  <2>1. lost' \in BOOLEAN
    BY <1>7 DEF HandlerBreaks
  <2> QED
    BY <1>7, <2>1, ReqMoves DEF HandlerBreaks, TypeOK
<1> QED
  BY <1>1, <1>2, <1>3, <1>4, <1>5, <1>6, <1>7, HandleType, JobStepType DEF Next

-----------------------------------------------------------------------------
(* The row in 'processing' and its owner.                                  *)

\* A step of a handler hands the row on: to its own later steps, to a job, or
\* to a terminal status.
LEMMA HandleOwner ==
  ASSUME IInv, TypeOK', NEW r \in Request, Handle(r)
  PROVE  NoOrphanProcessing'
<1> USE DEF Handling, Working, RowIs
<1>1. CASE CreateDelete(r)
  BY <1>1 DEF CreateDelete, IInv, TypeOK, NoOrphanProcessing, NoRow
<1>2. CASE CreateInsert(r)
  BY <1>2 DEF CreateInsert, IInv, TypeOK, NoOrphanProcessing, Enter, Return
<1>3. CASE Reset(r)
  <2>1. CASE RowIs(req[r].id)
    <3>1. req'[r].pc = "submitting" /\ req'[r].id = req[r].id
      BY <1>3, <2>1 DEF Reset, Becomes, IInv, TypeOK, ReqType
    <3>2. row'.id = req[r].id
      BY <1>3, <2>1, RowFacts DEF Reset, IInv, RowType
    <3> QED
      BY <3>1, <3>2 DEF NoOrphanProcessing
  <2>2. CASE ~RowIs(req[r].id)
    BY <1>3, <2>2 DEF Reset, IInv, TypeOK, NoOrphanProcessing, Return
  <2> QED
    BY <2>1, <2>2
<1>4. CASE Submit(r)
  BY <1>4 DEF Submit, Accepted, Rejected, IInv, TypeOK, NoOrphanProcessing,
              Becomes, Return, NoJob, JobType, ReqType
<1>5. CASE RejectMark(r) \/ StaleMark(r)
  BY <1>5 DEF RejectMark, StaleMark, Set, Return, IInv, TypeOK,
              NoOrphanProcessing, RowType, NoRow
<1> QED
  BY <1>1, <1>2, <1>3, <1>4, <1>5 DEF Handle

\* A job that ends has recorded how, or the row is lost.
LEMMA JobOwner ==
  ASSUME IInv, NEW j \in Job, JobStep(j) \/ JobVanish(j)
  PROVE  NoOrphanProcessing'
<1> USE DEF Handling, Working, RowIs, IInv, TypeOK, NoOrphanProcessing
<1>1. CASE JobLoad(j)
  BY <1>1 DEF JobLoad
<1>2. CASE JobComplete(j)
  BY <1>2 DEF JobComplete, RowType
<1>3. CASE JobEnd(j)
  BY <1>3 DEF JobEnd, End
<1>4. CASE JobFail(j)
  BY <1>4 DEF JobFail, Set, End, RowType, NoRow
<1>5. CASE JobVanish(j)
  BY <1>5 DEF JobVanish, End
<1> QED
  BY <1>1, <1>2, <1>3, <1>4, <1>5 DEF JobStep

\* Processes, reads and time do not part a row from its owner unseen.
LEMMA NextOwner == IInv /\ TypeOK' /\ [Next]_vars => NoOrphanProcessing'
<1> SUFFICES ASSUME IInv, TypeOK', [Next]_vars PROVE NoOrphanProcessing'
  OBVIOUS
<1> USE DEF Handling, Working, RowIs, IInv, TypeOK, NoOrphanProcessing
<1>1. CASE UNCHANGED vars
  BY <1>1 DEF vars
<1>2. ASSUME NEW r \in Request, NEW p \in Process, Arrive(r, p)
      PROVE  NoOrphanProcessing'
  <2>1. req[r] = Idle /\ UNCHANGED <<row, job, lost>>
    BY <1>2 DEF Arrive, CreateRead, RetryRead, PollRead
  <2>2. \A q \in Request : q # r => req'[q] = req[q]
    BY <1>2 DEF Arrive, CreateRead, RetryRead, PollRead, Enter
  <2> QED
    BY <2>1, <2>2 DEF Idle
<1>3. ASSUME NEW p \in Process, Boot(p) PROVE NoOrphanProcessing'
  BY <1>3 DEF Boot, Sweep, RowType
<1>4. ASSUME NEW p \in Process, Crash(p) PROVE NoOrphanProcessing'
  BY <1>4 DEF Crash
<1>5. CASE DeleteSession
  BY <1>5 DEF DeleteSession, NoRow
<1>6. CASE Tick
  BY <1>6 DEF Tick, RowType, JobType, ReqType
<1>7. ASSUME NEW r \in Request, HandlerBreaks(r) PROVE NoOrphanProcessing'
  BY <1>7 DEF HandlerBreaks, Return
<1> QED
  BY <1>1, <1>2, <1>3, <1>4, <1>5, <1>6, <1>7, HandleOwner, JobOwner DEF Next

-----------------------------------------------------------------------------
(* The age of an attempt and the age of its job.                           *)

\* A handler starts an attempt afresh and submits within Lag of it.
LEMMA HandleYoung ==
  ASSUME IInv, TypeOK', NEW r \in Request, Handle(r)
  PROVE  Young'
<1> USE TimeAssumption DEF RowIs, Young
<1>1. CASE CreateDelete(r)
  BY <1>1 DEF CreateDelete, IInv, TypeOK, NoRow
<1>2. CASE CreateInsert(r)
  BY <1>2 DEF CreateInsert, Unheld, IInv, TypeOK, Enter, Return, Idle, JobType
<1>3. CASE Reset(r)
  <2>1. req' \in [Request -> ReqType] /\ UNCHANGED job
    BY <1>3 DEF Reset, TypeOK
  <2>2. CASE RowIs(req[r].id)
    <3>1. row'.age = 0
      BY <1>3, <2>2, RowFacts DEF Reset, IInv, RowType
    <3> QED
      BY <2>1, <3>1 DEF ReqType, IInv, TypeOK, JobType
  <2>3. CASE ~RowIs(req[r].id)
    BY <1>3, <2>3 DEF Reset, Return, Idle, IInv, TypeOK
  <2> QED
    BY <2>2, <2>3
<1>4. CASE Submit(r)
  <2>1. UNCHANGED row
    BY <1>4 DEF Submit
  <2>2. \A q \in Request : req'[q].pc = "submitting" => req'[q] = req[q]
    BY <1>4 DEF Submit, Accepted, Rejected, Becomes, Return, Idle, IInv, TypeOK,
                ReqType
  <2>3. ASSUME NEW j \in Job, job'[j].phase # "none", RowIs(job'[j].id)
        PROVE  row.age <= job'[j].age + Lag
    <3>1. CASE job'[j] = job[j]
      BY <2>3, <3>1 DEF IInv
    <3>2. CASE job'[j] # job[j]
      <4>1. job'[j].id = req[r].id /\ job'[j].age = 0
        BY <1>4, <3>2 DEF Submit, Accepted, Rejected, IInv, TypeOK
      <4>2. row.age <= req[r].age /\ req[r].age \in 0..Lag
        BY <1>4, <2>3, <4>1 DEF Submit, IInv, TypeOK, ReqType
      <4> QED
        BY <4>1, <4>2, RowFacts DEF IInv
    <3> QED
      BY <3>1, <3>2
  <2> QED
    BY <2>1, <2>2, <2>3 DEF IInv
<1>5. CASE RejectMark(r) \/ StaleMark(r)
  BY <1>5 DEF RejectMark, StaleMark, Set, Return, Idle, IInv, TypeOK, RowType,
              NoRow
<1> QED
  BY <1>1, <1>2, <1>3, <1>4, <1>5 DEF Handle

\* A job's step changes neither age.
LEMMA JobYoung ==
  ASSUME IInv, NEW j \in Job, JobStep(j) \/ JobVanish(j)
  PROVE  Young'
<1> USE TimeAssumption DEF RowIs, IInv, TypeOK, Young
<1>1. CASE JobLoad(j) \/ JobComplete(j)
  <2>1. /\ job[j].phase # "none"
        /\ \A k \in Job : /\ job'[k].id = job[k].id /\ job'[k].age = job[k].age
                          /\ k # j => job'[k].phase = job[k].phase
    BY <1>1 DEF JobLoad, JobComplete, JobType
  <2>2. /\ row'.id = row.id /\ row'.age = row.age
        /\ RowIs(row.id)' => RowIs(row.id)
    BY <1>1, RowFacts DEF JobLoad, JobComplete, RowType
  <2>3. UNCHANGED req
    BY <1>1 DEF JobLoad, JobComplete
  <2> QED
    BY <2>1, <2>2, <2>3
<1>2. CASE JobEnd(j) \/ JobVanish(j)
  BY <1>2 DEF JobEnd, JobVanish, End, NoJob
<1>3. CASE JobFail(j)
  BY <1>3 DEF JobFail, Set, End, NoJob, RowType, NoRow
<1> QED
  BY <1>1, <1>2, <1>3 DEF JobStep

\* Time adds to both ages alike.
LEMMA NextYoung == IInv /\ TypeOK' /\ [Next]_vars => Young'
<1> SUFFICES ASSUME IInv, TypeOK', [Next]_vars PROVE Young'
  OBVIOUS
<1> USE TimeAssumption DEF RowIs, IInv, TypeOK, Young
<1>1. CASE UNCHANGED vars
  BY <1>1 DEF vars
<1>2. ASSUME NEW r \in Request, NEW p \in Process, Arrive(r, p) PROVE Young'
  <2>1. UNCHANGED <<row, job>>
    BY <1>2 DEF Arrive, CreateRead, RetryRead, PollRead
  <2>2. /\ req'[r].pc # "submitting"
        /\ \A q \in Request : q # r => req'[q] = req[q]
    BY <1>2 DEF Arrive, CreateRead, RetryRead, PollRead, Enter
  <2> QED
    BY <2>1, <2>2
<1>3. ASSUME NEW p \in Process, Boot(p) PROVE Young'
  BY <1>3 DEF Boot, Sweep, Stale, RowType
<1>4. ASSUME NEW p \in Process, Crash(p) PROVE Young'
  BY <1>4 DEF Crash, Idle, NoJob
<1>5. CASE DeleteSession
  BY <1>5 DEF DeleteSession, NoRow
<1>6. CASE Tick
  <2>1. /\ row'.status = row.status /\ row'.id = row.id
        /\ row'.age \in Nat /\ row'.age <= row.age + 1
    BY <1>6, RowFacts DEF Tick, RowType
  <2>2. ASSUME NEW r \in Request, req'[r].pc = "submitting", RowIs(req[r].id)'
        PROVE  row'.age <= req'[r].age
    <3>1. req[r].pc = "submitting" /\ req'[r].id = req[r].id
      BY <1>6, <2>2 DEF Tick, ReqType
    <3>2. req'[r].age = req[r].age + 1
      BY <1>6, <3>1 DEF Tick, ReqType
    <3> QED
      <4>1. row.age <= req[r].age
        BY <2>1, <2>2, <3>1
      <4> QED
        BY <2>1, <3>2, <4>1, RowFacts DEF ReqType
  <2>3. ASSUME NEW j \in Job, job'[j].phase # "none", RowIs(job[j].id)'
        PROVE  row'.age <= job'[j].age + Lag
    <3>1. job[j].phase # "none" /\ job'[j].id = job[j].id
      BY <1>6, <2>3 DEF Tick, JobType
    <3>2. job'[j].age = job[j].age + 1
      BY <1>6, <3>1 DEF Tick, JobType
    <3> QED
      <4>1. row.age <= job[j].age + Lag
        BY <2>1, <2>3, <3>1
      <4> QED
        BY <2>1, <3>2, <4>1, RowFacts DEF JobType
  <2> QED
    BY <2>2, <2>3
<1>7. ASSUME NEW r \in Request, HandlerBreaks(r) PROVE Young'
  BY <1>7 DEF HandlerBreaks, Return, Idle
<1> QED
  BY <1>1, <1>2, <1>3, <1>4, <1>5, <1>6, <1>7, HandleYoung, JobYoung DEF Next

-----------------------------------------------------------------------------
(* Theorems.                                                               *)

\* IInv is an inductive invariant of the specification.
THEOREM Invariance == Spec => []IInv
<1>1. IInv /\ [Next]_vars => IInv'
  BY NextType, NextOwner, NextYoung DEF IInv
<1> QED
  BY InitIInv, <1>1, PTL DEF Spec

\* Every variable keeps its type, ages within their bounds.
THEOREM TypeCorrect == Spec => []TypeOK
  BY Invariance, PTL DEF IInv

\* However handlers, jobs and processes interleave, a row in 'processing' has a
\* handler or a job that will end it, unless that owner was killed or met a
\* database error.
THEOREM ProcessingHasOwner == Spec => []NoOrphanProcessing
  BY Invariance, PTL DEF IInv

\* A stale row is nobody's: an owner that could still submit or end its job would
\* have made the attempt too young to be stale.
LEMMA StaleIsLost == IInv => StaleMeansLost
<1> SUFFICES ASSUME IInv, Stale PROVE StaleMeansLost
  BY DEF StaleMeansLost
<1>0. /\ row.status = "processing" /\ row.age \in Nat /\ row.age > Threshold
      /\ TypeOK /\ Young /\ NoOrphanProcessing
  BY RowFacts DEF Stale, IInv
<1>1. ASSUME NEW j \in Job, job[j].phase # "none", job[j].id = row.id
      PROVE  FALSE
  <2>1. row.age <= job[j].age + Lag
    BY <1>0, <1>1 DEF Young, RowIs
  <2>2. job[j].age \in 0..(Timeout + Lag)
    BY <1>0 DEF TypeOK, JobType
  <2> QED
    BY <1>0, <2>1, <2>2, TimeAssumption
<1>2. ASSUME NEW r \in Request, req[r].pc = "submitting", req[r].id = row.id
      PROVE  FALSE
  <2>1. row.age <= req[r].age
    BY <1>0, <1>2 DEF Young, RowIs
  <2>2. req[r].age \in 0..Lag
    BY <1>0 DEF TypeOK, ReqType
  <2> QED
    BY <1>0, <2>1, <2>2, TimeAssumption
<1>3. lost \/ \E r \in Request : req[r].pc = "rejecting" /\ req[r].id = row.id
  BY <1>0, <1>1, <1>2 DEF NoOrphanProcessing, Handling, Working
<1> QED
  BY <1>1, <1>2, <1>3 DEF StaleMeansLost

\* What the sweep and the reads find by the age of a row alone is what has been
\* given up, for any delays with Timeout + 2 * Lag <= Threshold.
THEOREM StaleRowsAreLost == Spec => []StaleMeansLost
  BY Invariance, StaleIsLost, PTL

\* The startup sweep never touches the row of a live job, in any process, if
\* the threshold exceeds the job's budget by twice the longest delay.
THEOREM SweepIsSafe == Spec => SweepSparesLiveJobs
<1>1. ASSUME StaleMeansLost, NEW p \in Process, Boot(p), row' # row,
             NEW j \in Job, job[j].phase # "none"
      PROVE  job[j].id # row.id
  <2>1. Stale
    BY <1>1 DEF Boot, Sweep
  <2> QED
    BY <1>1, <2>1 DEF StaleMeansLost
<1>2. StaleMeansLost /\ [Next]_vars
      => [\A p \in Process : Boot(p) /\ row' # row
            => \A j \in Job : job[j].phase # "none" => job[j].id # row.id]_vars
  BY <1>1
<1> QED
  BY StaleRowsAreLost, <1>2, PTL DEF Spec, SweepSparesLiveJobs

\* A handler that holds another row, or none, leaves a settled one alone.
LEMMA HandleSettled ==
  ASSUME IInv, Settled, NEW r \in Request, Handle(r) \/ HandlerBreaks(r)
  PROVE  UNCHANGED <<row, job>> /\ \A q \in Request : req'[q].id # row.id
<1>0. /\ row \in RowType /\ row.status = "completed" /\ row.id # None
      /\ ~RowIs(req[r].id) /\ req \in [Request -> ReqType]
      /\ \A q \in Request : req[q].id # row.id
  BY RowFacts, NoneAssumption DEF IInv, TypeOK, Settled, RowIs, RowType
<1>1. CASE CreateDelete(r)
  BY <1>0, <1>1 DEF CreateDelete, ReqType
<1>2. CASE CreateInsert(r) \/ Reset(r) \/ Submit(r)
  BY <1>0, <1>2 DEF CreateInsert, Reset, Submit, Return, Idle
<1>3. CASE RejectMark(r) \/ StaleMark(r) \/ HandlerBreaks(r)
  BY <1>0, <1>3 DEF RejectMark, StaleMark, HandlerBreaks, Set, Return, Idle
<1> QED
  BY <1>1, <1>2, <1>3 DEF Handle

\* So does a job of an earlier attempt at another row.
LEMMA JobSettled ==
  ASSUME IInv, Settled, NEW j \in Job, JobStep(j) \/ JobVanish(j)
  PROVE  UNCHANGED <<row, req>> /\ \A k \in Job : job'[k].id # row.id
<1>0. /\ row.id # None /\ ~RowIs(job[j].id) /\ job \in [Job -> JobType]
      /\ \A k \in Job : job[k].id # row.id
  BY RowFacts, NoneAssumption DEF IInv, TypeOK, Settled, RowIs, RowType
<1> QED
  BY <1>0 DEF JobStep, JobLoad, JobComplete, JobEnd, JobFail, JobVanish, Set, End, NoJob

\* Once the last actor of an earlier attempt is through, a completed review stays
\* completed until its session is deleted: create answers 409, retry and the two
\* staleness checks look elsewhere, and a job holds only the row it was made for.
THEOREM CompletedStaysCompleted == Spec => CompletedIsFinal
<1>1. ASSUME IInv, [Next]_vars, Settled
      PROVE  (Settled' /\ row'.id = row.id) \/ (row' = NoRow /\ ~session')
  <2>0. row.status = "completed" /\ row \in RowType /\ row.id # None
    BY <1>1, RowFacts, NoneAssumption DEF IInv, Settled, RowType
  <2>1. ASSUME NEW r \in Request, Handle(r) \/ HandlerBreaks(r)
        PROVE  Settled' /\ row'.id = row.id
    BY <1>1, <2>1, HandleSettled DEF Settled
  <2>2. ASSUME NEW j \in Job, JobStep(j) \/ JobVanish(j)
        PROVE  Settled' /\ row'.id = row.id
    BY <1>1, <2>2, JobSettled DEF Settled
  <2>3. ASSUME NEW r \in Request, NEW p \in Process, Arrive(r, p)
        PROVE  FALSE
    BY <2>0, <2>3 DEF Arrive, CreateRead, RetryRead, PollRead, StaleOnRead
  <2>4. ASSUME NEW p \in Process, Boot(p)
        PROVE  Settled' /\ row'.id = row.id
    BY <1>1, <2>0, <2>4 DEF Boot, Sweep, Stale, Settled
  <2>5. ASSUME NEW p \in Process, Crash(p)
        PROVE  Settled' /\ row'.id = row.id
    BY <1>1, <2>0, <2>5 DEF Crash, Settled, Idle, NoJob
  <2>6. CASE DeleteSession
    BY <2>6 DEF DeleteSession
  <2>7. CASE Tick
    <3>1. row'.status = row.status /\ row'.id = row.id
      BY <2>0, <2>7 DEF Tick, RowType
    <3>2. /\ \A r \in Request : req'[r].id = req[r].id
          /\ \A j \in Job : job'[j].id = job[j].id
      BY <1>1, <2>7 DEF Tick, IInv, TypeOK, ReqType, JobType
    <3> QED
      BY <1>1, <3>1, <3>2 DEF Settled
  <2>8. CASE UNCHANGED vars
    BY <1>1, <2>8 DEF vars, Settled
  <2> QED
    BY <1>1, <2>1, <2>2, <2>3, <2>4, <2>5, <2>6, <2>7, <2>8 DEF Next
<1>2. IInv /\ [Next]_vars
      => [Settled => \/ Settled' /\ row'.id = row.id
                     \/ row' = NoRow /\ ~session']_vars
  BY <1>1
<1> QED
  BY Invariance, <1>2, PTL DEF Spec, CompletedIsFinal
==============================================================================
