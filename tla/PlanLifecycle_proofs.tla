------------------------- MODULE PlanLifecycle_proofs -------------------------
(***************************************************************************)
(* Proofs about training plans for any number of handlers, jobs and keys   *)
(* and whatever Gemini answers: no attempt is left without an owner, and   *)
(* only a plan whose history was crossed mixes two attempts or is left     *)
(* with workouts it did not complete with.                                 *)
(***************************************************************************)
EXTENDS PlanLifecycle, TLAPS

Actor == Request \cup Job
Pc == RequestPc \cup JobPc

\* A call of mark_failed that loaded a failed row writes no status, and neither
\* does one of mark_completed that loaded a completed one.
Ends(a) == /\ ~(at[a].pc \in {"rejecting", "failing"} /\ at[a].saw = "failed")
           /\ ~(at[a].pc = "asking" /\ at[a].saw = "completed")

\* An attempt has an owner whose call of the repository, if any, will end it.
Owned ==
  row.status = "processing" =>
     \/ lost
     \/ \E r \in Request : Handling(r, row.id) /\ Ends(r)
     \/ \E j \in Job : Working(j, row.id) /\ Ends(j)

\* Until its history is crossed, nobody has seen the plan completed, and it has
\* workouts only once it is, held by none but jobs that have saved.
Whole ==
  ~crossed /\ row # NoRow =>
     IF row.status = "completed"
     THEN /\ row.workouts \in Answer
          /\ \A a \in Actor : at[a].id = row.id => at[a].pc = "committed"
     ELSE /\ row.workouts = {}
          /\ \A a \in Actor : at[a].id = row.id => at[a].saw # "completed"

IInv == TypeOK /\ Whole /\ Owned

-----------------------------------------------------------------------------
(* Type correctness.                                                       *)

\* An actor starts, moves, loads and ends within its type.
LEMMA ActorValues ==
  /\ Idle \in At(Pc)
  /\ \A pc \in Pc, v \in Plan \cup {None}, w \in Review \cup {None} :
        [pc |-> pc, id |-> v, of |-> w, saw |-> NotSeen] \in At(Pc)
  /\ \A q \in At(Pc), pc \in Pc : [q EXCEPT !.pc = pc, !.saw = NotSeen] \in At(Pc)
  /\ \A q \in At(Pc), s \in Status \cup {NotSeen} : [q EXCEPT !.saw = s] \in At(Pc)
  /\ \A v \in Plan \cup {None} : [Idle EXCEPT !.pc = "pending", !.id = v] \in At(Pc)
BY DEF Idle, At, Pc, RequestPc, JobPc, NotSeen, Status

\* A row that is there has a key, a status and workouts.
LEMMA RowFacts ==
  ASSUME TypeOK
  PROVE  /\ row.status \in Status \cup {"absent"}
         /\ row.id \in Plan \cup {None}
         /\ row.workouts \in Workouts
         /\ row # NoRow => row \in RowType /\ row.id \in Plan /\ row.status \in Status
         /\ row.status # "absent" => row # NoRow
BY DEF TypeOK, RowType, NoRow, Status, Workouts

\* The row is updated, stored and aged within its type.
LEMMA RowValues ==
  /\ \A v \in Plan :
        [NoRow EXCEPT !.id = v, !.status = "processing"] \in RowType
  /\ \A w \in RowType, s \in Status : [w EXCEPT !.status = s] \in RowType
  /\ \A w \in RowType, b \in BOOLEAN : [w EXCEPT !.old = b] \in RowType
  /\ \A w \in RowType, a \in Answer :
        [w EXCEPT !.workouts = @ \cup a] \in RowType
BY DEF NoRow, RowType, Status, Workouts

\* The moves of an actor keep the type of at.
LEMMA Moves ==
  ASSUME TypeOK, NEW a \in Actor
  PROVE  /\ Return(a) => at' \in [Actor -> At(Pc)]
         /\ Load(a) => at' \in [Actor -> At(Pc)]
         /\ \A pc \in Pc : Goto(a, pc) => at' \in [Actor -> At(Pc)]
         /\ \A pc \in Pc, v \in Plan \cup {None}, w \in Review \cup {None} :
               Enter(a, pc, v, w) => at' \in [Actor -> At(Pc)]
<1>1. at \in [Actor -> At(Pc)] /\ at[a] \in At(Pc)
  BY DEF TypeOK, Actor, Pc
<1>2. \A q \in At(Pc) : [at EXCEPT ![a] = q] \in [Actor -> At(Pc)]
  BY <1>1
<1>3. Return(a) => at' \in [Actor -> At(Pc)]
  BY <1>2, ActorValues DEF Return
<1>4. Load(a) => at' \in [Actor -> At(Pc)]
  <2>1. [at[a] EXCEPT !.saw = row.status] \in At(Pc)
    BY <1>1, ActorValues, RowFacts DEF NotSeen
  <2> QED
    BY <1>2, <2>1 DEF Load
<1>5. ASSUME NEW pc \in Pc, Goto(a, pc) PROVE at' \in [Actor -> At(Pc)]
  <2>1. [at[a] EXCEPT !.pc = pc, !.saw = NotSeen] \in At(Pc)
    BY <1>1, ActorValues
  <2> QED
    BY <1>2, <1>5, <2>1 DEF Goto
<1>6. ASSUME NEW pc \in Pc, NEW v \in Plan \cup {None},
             NEW w \in Review \cup {None}, Enter(a, pc, v, w)
      PROVE  at' \in [Actor -> At(Pc)]
  BY <1>2, <1>6, ActorValues DEF Enter
<1> QED
  BY <1>3, <1>4, <1>5, <1>6

\* What each move changes, actor by actor.
LEMMA Effects ==
  ASSUME TypeOK, NEW a \in Actor
  PROVE  /\ Return(a) => /\ at'[a] = Idle
                         /\ \A b \in Actor \ {a} : at'[b] = at[b]
         /\ Load(a) => /\ at'[a].pc = at[a].pc /\ at'[a].id = at[a].id
                       /\ at'[a].saw = row.status
                       /\ \A b \in Actor \ {a} : at'[b] = at[b]
         /\ \A pc \in Pc : Goto(a, pc) =>
               /\ at'[a].pc = pc /\ at'[a].id = at[a].id
               /\ at'[a].saw = NotSeen
               /\ \A b \in Actor \ {a} : at'[b] = at[b]
         /\ \A pc \in Pc, v \in Plan \cup {None}, w \in Review \cup {None} :
               Enter(a, pc, v, w) =>
               /\ at'[a].pc = pc /\ at'[a].id = v /\ at'[a].saw = NotSeen
               /\ \A b \in Actor \ {a} : at'[b] = at[b]
<1>1. at \in [Actor -> At(Pc)] /\ at[a] \in At(Pc)
  BY DEF TypeOK, Actor, Pc
<1> QED
  BY <1>1 DEF Return, Load, Goto, Enter, At

\* The types of the actors, from those of the one that moved.
LEMMA ActorsType ==
  ASSUME TypeOK, NEW a \in Actor, at' \in [Actor -> At(Pc)],
         \A b \in Actor \ {a} : at'[b] = at[b],
         a \in Request => at'[a].pc \in RequestPc,
         a \in Job => at'[a].pc \in JobPc
  PROVE  /\ at' \in [Request \cup Job -> At(RequestPc \cup JobPc)]
         /\ \A r \in Request : at'[r].pc \in RequestPc
         /\ \A j \in Job : at'[j].pc \in JobPc
BY DEF TypeOK, Actor, Pc

\* A row changes within its type under a review that stays.
LEMMA RowMoves ==
  ASSUME TypeOK, row # NoRow
  PROVE  /\ \A a \in Actor, s \in Status : Update(a, s) \in RowType
         /\ \A r \in Request : [Update(r, "processing") EXCEPT !.old = FALSE] \in RowType
         /\ \A j \in Job, a \in Answer :
               [Update(j, "completed") EXCEPT !.workouts = @ \cup a] \in RowType
         /\ [row EXCEPT !.status = "failed"] \in RowType
         /\ [row EXCEPT !.old = TRUE] \in RowType
<1>1. row \in RowType /\ row.status \in Status
  BY RowFacts
<1>2. /\ "failed" \in Status /\ "processing" \in Status /\ "completed" \in Status
      /\ TRUE \in BOOLEAN /\ FALSE \in BOOLEAN
  BY DEF Status
<1>3. \A a \in Actor, s \in Status : Update(a, s) \in RowType
  <2> TAKE a \in Actor, s \in Status
  <2>1. CASE at[a].saw = s
    <3>1. Update(a, s) = [row EXCEPT !.status = row.status]
      BY <1>1, <2>1 DEF Update, RowType
    <3> QED
      BY <1>1, <3>1, RowValues
  <2>2. CASE at[a].saw # s
    <3>1. Update(a, s) = [row EXCEPT !.status = s]
      BY <1>1, <2>2 DEF Update, RowType
    <3> QED
      BY <1>1, <3>1, RowValues
  <2> QED
    BY <2>1, <2>2
<1>4. \A r \in Request : [Update(r, "processing") EXCEPT !.old = FALSE] \in RowType
  BY <1>2, <1>3, RowValues DEF Actor
<1>5. \A j \in Job, a \in Answer :
         [Update(j, "completed") EXCEPT !.workouts = @ \cup a] \in RowType
  BY <1>2, <1>3, RowValues DEF Actor
<1> QED
  BY <1>1, <1>2, <1>3, <1>4, <1>5, RowValues

\* A handler's step keeps every type.
LEMMA HandleType ==
  ASSUME TypeOK, NEW r \in Request, Handle(r) \/ HandlerBreaks(r)
  PROVE  TypeOK'
<1>0. /\ r \in Actor /\ r \notin Job
      /\ at \in [Actor -> At(Pc)] /\ at[r] \in At(Pc)
      /\ at[r].id \in Plan \cup {None} /\ at[r].of \in Review \cup {None}
      /\ Idle \in At(Pc) /\ Idle.pc \in RequestPc /\ Idle.pc \in JobPc
  BY ActorsAssumption, ActorValues DEF TypeOK, Actor, Pc, At, RequestPc, JobPc, Idle
<1>1. /\ RequestPc \subseteq Pc /\ "idle" \in RequestPc /\ "deleting" \in RequestPc
      /\ "inserting" \in RequestPc /\ "resetting" \in RequestPc
      /\ "submitting" \in RequestPc /\ "rejecting" \in RequestPc
      /\ "staling" \in RequestPc
  BY DEF Pc, RequestPc
<1>2. ASSUME Return(r) \/ (Load(r) /\ at[r].pc \in RequestPc)
             \/ (\E pc \in RequestPc : Goto(r, pc))
             \/ (\E pc \in RequestPc, v \in Plan \cup {None},
                     w \in Review \cup {None} : Enter(r, pc, v, w))
      PROVE  /\ at' \in [Request \cup Job -> At(RequestPc \cup JobPc)]
             /\ \A q \in Request : at'[q].pc \in RequestPc
             /\ \A j \in Job : at'[j].pc \in JobPc
  <2>1. at' \in [Actor -> At(Pc)]
    BY <1>0, <1>1, <1>2, Moves
  <2>2. at'[r].pc \in RequestPc /\ \A b \in Actor \ {r} : at'[b] = at[b]
    <3>1. CASE Return(r) \/ (Load(r) /\ at[r].pc \in RequestPc)
      BY <1>0, <3>1, Effects
    <3>2. CASE \E pc \in RequestPc : Goto(r, pc)
      BY <1>0, <1>1, <3>2, Effects
    <3>3. CASE \E pc \in RequestPc, v \in Plan \cup {None},
                  w \in Review \cup {None} : Enter(r, pc, v, w)
      <4>1. PICK pc \in RequestPc, v \in Plan \cup {None},
                 w \in Review \cup {None} : Enter(r, pc, v, w)
        BY <3>3
      <4>2. pc \in Pc /\ r \in Actor
        BY <1>0, <1>1
      <4>3. at'[r].pc = pc /\ \A b \in Actor \ {r} : at'[b] = at[b]
        BY <4>1, <4>2, Effects
      <4> QED
        BY <4>3
    <3> QED
      BY <1>2, <3>1, <3>2, <3>3
  <2> QED
    BY <1>0, <2>1, <2>2, ActorsType
<1>3. CASE CreateRead(r)
  BY <1>1, <1>2, <1>3, RowFacts DEF CreateRead, TypeOK
<1>4. CASE CreateDelete(r)
  BY <1>0, <1>1, <1>2, <1>4 DEF CreateDelete, TypeOK
<1>5. CASE CreateInsert(r)
  <2>1. CASE row = NoRow /\ row' # row
    <3>1. PICK v \in Plan :
             /\ row' = [NoRow EXCEPT !.id = v, !.status = "processing"]
             /\ Enter(r, "submitting", v, None)
             /\ review # None
      BY <1>5, <2>1 DEF CreateInsert
    <3>2. row' \in RowType
      BY <3>1, RowValues
    <3> QED
      BY <1>1, <1>2, <1>5, <3>1, <3>2 DEF CreateInsert, TypeOK
  <2>2. CASE ~(row = NoRow /\ row' # row)
    <3>1. \A v \in Plan : [NoRow EXCEPT !.id = v, !.status = "processing"] # NoRow
      BY DEF NoRow
    <3>2. Return(r) /\ UNCHANGED <<review, row, lost, crossed>>
      BY <1>5, <2>2, <3>1 DEF CreateInsert
    <3> QED
      BY <1>2, <3>2 DEF TypeOK
  <2> QED
    BY <2>1, <2>2
<1>6. CASE RetryRead(r) \/ ReadStale(r)
  BY <1>1, <1>2, <1>6, RowFacts DEF RetryRead, ReadStale, TypeOK
<1>7. CASE ResetLoad(r)
  BY <1>1, <1>2, <1>7 DEF ResetLoad, TypeOK
<1>8. CASE ResetWrite(r)
  <2>1. CASE RowIs(at[r].id)
    <3>1. row' \in RowType /\ row # NoRow /\ Goto(r, "submitting") /\ lost' = FALSE
      BY <1>8, <2>1, RowMoves DEF ResetWrite, RowIs
    <3> QED
      BY <1>1, <1>2, <1>8, <3>1 DEF ResetWrite, TypeOK
  <2>2. CASE ~RowIs(at[r].id)
    BY <1>2, <1>8, <2>2 DEF ResetWrite, TypeOK
  <2> QED
    BY <2>1, <2>2
<1>9. CASE Submit(r)
  <2>1. CASE Accepted(r)
    <3>1. PICK j \in Job :
             /\ at[j] = Idle
             /\ at' = [at EXCEPT ![r] = Idle,
                           ![j] = [Idle EXCEPT !.pc = "pending", !.id = at[r].id]]
      BY <2>1 DEF Accepted
    <3>2. /\ [Idle EXCEPT !.pc = "pending", !.id = at[r].id] \in At(Pc)
          /\ [Idle EXCEPT !.pc = "pending", !.id = at[r].id].pc = "pending"
          /\ "pending" \in JobPc
      BY <1>0, ActorValues DEF Idle, JobPc
    <3>3. /\ at' \in [Actor -> At(Pc)] /\ at'[r] = Idle /\ at'[j].pc = "pending"
          /\ \A b \in Actor \ {r, j} : at'[b] = at[b]
      BY <1>0, <3>1, <3>2 DEF Actor
    <3>4. /\ at' \in [Request \cup Job -> At(RequestPc \cup JobPc)]
          /\ \A q \in Request : at'[q].pc \in RequestPc
          /\ \A i \in Job : at'[i].pc \in JobPc
      BY <1>0, <3>2, <3>3, ActorsAssumption DEF Actor, Pc, TypeOK
    <3> QED
      BY <1>9, <3>4 DEF Submit, TypeOK
  <2>2. CASE Refused(r) \/ Return(r)
    BY <1>1, <1>2, <1>9, <2>2 DEF Submit, Refused, TypeOK
  <2> QED
    BY <1>9, <2>1, <2>2 DEF Submit
<1>10. CASE HandlerBreaks(r)
  <2>1. lost' \in BOOLEAN
    BY <1>10 DEF HandlerBreaks, TypeOK
  <2> QED
    BY <1>2, <1>10, <2>1 DEF HandlerBreaks, TypeOK
<1> QED
  BY <1>3, <1>4, <1>5, <1>6, <1>7, <1>8, <1>9, <1>10 DEF Handle

\* A job's step keeps every type.
LEMMA JobStepType ==
  ASSUME TypeOK, NEW j \in Job, JobStep(j)
  PROVE  TypeOK'
<1>0. /\ j \in Actor /\ j \notin Request
      /\ at[j].id \in Plan \cup {None}
      /\ Idle.pc \in JobPc
  BY ActorsAssumption, ActorValues DEF TypeOK, Actor, At, JobPc, Idle
<1>1. /\ JobPc \subseteq Pc /\ "asking" \in JobPc /\ "failing" \in JobPc
      /\ "committed" \in JobPc
  BY DEF Pc, JobPc
<1>2. ASSUME Return(j) \/ (Load(j) /\ at[j].pc \in JobPc)
             \/ (\E pc \in JobPc : Goto(j, pc))
      PROVE  /\ at' \in [Request \cup Job -> At(RequestPc \cup JobPc)]
             /\ \A q \in Request : at'[q].pc \in RequestPc
             /\ \A i \in Job : at'[i].pc \in JobPc
  <2>1. at' \in [Actor -> At(Pc)]
    BY <1>0, <1>1, <1>2, Moves
  <2>2. at'[j].pc \in JobPc /\ \A b \in Actor \ {j} : at'[b] = at[b]
    BY <1>0, <1>1, <1>2, Effects DEF Idle
  <2> QED
    BY <1>0, <2>1, <2>2, ActorsType
<1>3. CASE JobLoad(j) \/ JobSaveLoad(j) \/ JobBreak(j) \/ JobEnd(j)
  BY <1>1, <1>2, <1>3 DEF JobLoad, JobSaveLoad, JobBreak, JobEnd, TypeOK
<1>4. CASE JobVanish(j)
  BY <1>2, <1>4 DEF JobVanish, TypeOK, RowIs
<1>5. CASE JobSave(j)
  <2>1. PICK a \in Answer :
           IF RowIs(at[j].id) /\ ~Conflict(a)
           THEN /\ row' = [Update(j, "completed") EXCEPT !.workouts = @ \cup a]
                /\ Goto(j, "committed")
           ELSE UNCHANGED row /\ Goto(j, "failing")
    BY <1>5 DEF JobSave
  <2>2. row' \in RowType \cup {NoRow} /\ (row' # NoRow => row # NoRow)
    BY <2>1, RowMoves DEF RowIs, TypeOK
  <2> QED
    BY <1>1, <1>2, <1>5, <2>1, <2>2 DEF JobSave, TypeOK
<1> QED
  BY <1>3, <1>4, <1>5 DEF JobStep

\* So does marking a plan as failed.
LEMMA MarkType ==
  ASSUME TypeOK, NEW a \in Actor, MarkLoad(a) \/ MarkWrite(a)
  PROVE  TypeOK'
<1>0. Idle.pc \in RequestPc /\ Idle.pc \in JobPc
  BY DEF Idle, RequestPc, JobPc
<1>1. /\ at' \in [Request \cup Job -> At(RequestPc \cup JobPc)]
      /\ \A q \in Request : at'[q].pc \in RequestPc
      /\ \A i \in Job : at'[i].pc \in JobPc
  <2>1. Load(a) \/ Return(a)
    BY DEF MarkLoad, MarkWrite
  <2>2. at' \in [Actor -> At(Pc)]
    BY <2>1, Moves
  <2>3. \A b \in Actor \ {a} : at'[b] = at[b]
    BY <2>1, Effects
  <2>4. /\ a \in Request => at'[a].pc \in RequestPc
        /\ a \in Job => at'[a].pc \in JobPc
    BY <1>0, <2>1, Effects DEF TypeOK
  <2> QED
    BY <2>2, <2>3, <2>4, ActorsType
<1>2. row' \in RowType \cup {NoRow} /\ (row' # NoRow => row # NoRow)
  <2>1. "failed" \in Status
    BY DEF Status
  <2> QED
    BY <2>1, RowMoves DEF MarkLoad, MarkWrite, MarkFailed, RowIs, TypeOK
<1> QED
  BY <1>1, <1>2 DEF MarkLoad, MarkWrite, TypeOK

\* Every step keeps every type.
LEMMA NextType == TypeOK /\ [Next]_vars => TypeOK'
<1> SUFFICES ASSUME TypeOK, [Next]_vars PROVE TypeOK'
  OBVIOUS
<1>1. CASE UNCHANGED vars
  BY <1>1 DEF vars, TypeOK
<1>2. CASE NewReview \/ DropReview
  BY <1>2 DEF NewReview, DropReview, TypeOK
<1>3. CASE Sweep \/ Age
  <2>1. row # NoRow
    BY <1>3, RowFacts DEF Sweep, Age
  <2> QED
    BY <1>3, <2>1, RowMoves DEF Sweep, Age, TypeOK
<1>4. CASE Crash
  <2>1. Idle \in At(RequestPc \cup JobPc) /\ Idle.pc \in RequestPc /\ Idle.pc \in JobPc
    BY ActorValues DEF Pc, Idle, RequestPc, JobPc
  <2>2. lost' \in BOOLEAN
    BY <1>4 DEF Crash, TypeOK
  <2> QED
    BY <1>4, <2>1, <2>2 DEF Crash, TypeOK
<1> QED
  BY <1>1, <1>2, <1>3, <1>4, HandleType, JobStepType, MarkType DEF Next, Actor

-----------------------------------------------------------------------------
(* Workouts.                                                               *)

\* A plan that appears is processing and its key was held by nobody.
LEMMA PlanAppears ==
  ASSUME TypeOK, [Next]_vars, row = NoRow, row' # NoRow
  PROVE  /\ row'.status = "processing" /\ row'.workouts = {}
         /\ \E r \in Request :
               /\ at'[r].pc = "submitting" /\ at'[r].id = row'.id
               /\ at'[r].saw = NotSeen
               /\ \A a \in Actor \ {r} : at'[a] = at[a] /\ at[a].id # row'.id
<1>1. PICK r \in Request : CreateInsert(r) /\ row' # row
  <2>1. /\ ~(\E j \in Job : JobStep(j) /\ row' # row)
        /\ ~(\E a \in Actor : (MarkLoad(a) \/ MarkWrite(a)) /\ row' # row)
    BY DEF JobStep, JobLoad, JobSaveLoad, JobSave, JobBreak, JobEnd, JobVanish,
           MarkLoad, MarkWrite, MarkFailed, RowIs
  <2>2. ~(Sweep \/ Age \/ Crash \/ NewReview \/ DropReview)
    BY DEF Sweep, Age, Crash, NewReview, DropReview, NoRow
  <2> QED
    BY <2>1, <2>2 DEF Next, vars, Actor, Handle, CreateRead, CreateDelete,
       RetryRead, ResetLoad, ResetWrite, Submit, ReadStale, HandlerBreaks, RowIs
<1>2. PICK v \in Plan :
         /\ Unheld(v)
         /\ row' = [NoRow EXCEPT !.id = v, !.status = "processing"]
         /\ Enter(r, "submitting", v, None)
  BY <1>1 DEF CreateInsert
<1>3. /\ row'.id = v /\ row'.status = "processing" /\ row'.workouts = {}
  BY <1>2 DEF NoRow
<1>4. "submitting" \in Pc /\ v \in Plan \cup {None} /\ r \in Actor
  BY DEF Pc, RequestPc, Actor
<1>5. /\ at'[r].pc = "submitting" /\ at'[r].id = v /\ at'[r].saw = NotSeen
      /\ \A a \in Actor \ {r} : at'[a] = at[a]
  BY <1>2, <1>4, Effects
<1> QED
  BY <1>2, <1>3, <1>5 DEF Unheld, Actor

\* A step that leaves the row and its history alone keeps it whole, if whoever it
\* moves on the plan was on it before and has not seen it completed.
LEMMA WholeKept ==
  ASSUME TypeOK, Whole, row' = row, crossed' = crossed,
         \A a \in Actor : at'[a].id = row.id /\ at'[a] # at[a] /\ row # NoRow =>
            /\ row.status # "completed"
            /\ at'[a].saw \in {NotSeen, row.status}
  PROVE  Whole'
BY DEF Whole, NotSeen

\* So does a step that writes another status than 'completed' for an actor that
\* was on the plan, had not saved and lets go of what it has loaded.
LEMMA WholeWritten ==
  ASSUME TypeOK, Whole, crossed' = crossed, NEW a \in Actor, RowIs(at[a].id),
         at[a].pc # "committed", NEW s \in {"failed", "processing"},
         row' = Update(a, s) \/ row' = [Update(a, s) EXCEPT !.old = FALSE],
         at'[a].id = row.id => at'[a].saw = NotSeen,
         \A b \in Actor \ {a} : at'[b] = at[b]
  PROVE  Whole'
<1>1. row \in RowType /\ row # NoRow
  BY RowFacts DEF RowIs
<1>2. /\ row'.id = row.id /\ row'.workouts = row.workouts
      /\ row'.status \in {row.status, s}
  BY <1>1 DEF Update, RowType
<1>3. ~crossed => row.status # "completed"
  BY <1>1 DEF Whole, RowIs
<1> QED
  BY <1>1, <1>2, <1>3 DEF Whole, NotSeen

\* A handler's step keeps the plan whole.
LEMMA HandleWhole ==
  ASSUME TypeOK, Whole, NEW r \in Request, [Next]_vars, Handle(r) \/ HandlerBreaks(r)
  PROVE  Whole'
<1>0. /\ r \in Actor /\ at \in [Actor -> At(Pc)]
      /\ at[r].id \in Plan \cup {None} /\ at[r].of \in Review \cup {None}
      /\ row.id \in Plan \cup {None} /\ review \in Review \cup {None}
      /\ None \in Plan \cup {None} /\ None \in Review \cup {None}
      /\ row # NoRow => row.id # None
  BY RowFacts, NoneAssumption DEF TypeOK, Actor, Pc, At
<1>1. /\ "deleting" \in Pc /\ "inserting" \in Pc /\ "resetting" \in Pc
      /\ "submitting" \in Pc /\ "rejecting" \in Pc /\ "staling" \in Pc
  BY DEF Pc, RequestPc
<1>2. ASSUME Return(r)
      PROVE  /\ row # NoRow => at'[r].id # row.id
             /\ \A b \in Actor \ {r} : at'[b] = at[b]
  BY <1>0, <1>2, Effects DEF Idle
<1>3. CASE CreateRead(r) \/ RetryRead(r) \/ ReadStale(r)
  <2>1. at'[r].saw = NotSeen /\ \A b \in Actor \ {r} : at'[b] = at[b]
    BY <1>0, <1>1, <1>3, Effects DEF CreateRead, RetryRead, ReadStale
  <2>2. row' = row /\ crossed' = crossed /\ row.status # "completed"
    BY <1>3 DEF CreateRead, RetryRead, ReadStale, NoRow
  <2> QED
    BY <2>1, <2>2, WholeKept
<1>4. CASE CreateDelete(r)
  <2>1. at'[r].id = None /\ \A b \in Actor \ {r} : at'[b] = at[b]
    <3>1. Enter(r, "inserting", None, at[r].of)
      BY <1>4 DEF CreateDelete
    <3> QED
      BY <1>0, <3>1 DEF Enter
  <2>2. crossed' = crossed /\ row' \in {row, NoRow}
    BY <1>4 DEF CreateDelete
  <2> QED
    BY <1>0, <2>1, <2>2, WholeKept DEF Whole
<1>5. CASE CreateInsert(r)
  <2>1. CASE row' = row
    <3>1. Return(r) /\ crossed' = crossed
      <4>1. \A v \in Plan :
               [NoRow EXCEPT !.id = v, !.status = "processing"].status # NoRow.status
        BY DEF NoRow
      <4>2. \A v \in Plan :
               row = NoRow => [NoRow EXCEPT !.id = v, !.status = "processing"] # row
        BY <4>1
      <4> QED
        BY <1>5, <2>1, <4>2 DEF CreateInsert
    <3> QED
      BY <1>2, <2>1, <3>1, WholeKept
  <2>2. CASE row' # row
    <3>1. row = NoRow /\ row' # NoRow
      BY <1>5, <2>2 DEF CreateInsert
    <3> QED
      <4>1. PICK q \in Request :
               /\ at'[q].saw = NotSeen
               /\ \A a \in Actor \ {q} : at'[a] = at[a] /\ at[a].id # row'.id
        BY <3>1, PlanAppears
      <4> QED
        BY <3>1, <4>1, PlanAppears DEF Whole, NotSeen
  <2> QED
    BY <2>1, <2>2
<1>6. CASE ResetLoad(r)
  <2>1. row' = row /\ crossed' = crossed /\ \A b \in Actor \ {r} : at'[b] = at[b]
    BY <1>0, <1>6, Effects DEF ResetLoad
  <2>2. CASE Return(r)
    BY <1>2, <2>1, <2>2, WholeKept
  <2>3. CASE Load(r) /\ RowIs(at[r].id)
    <3>1. at'[r].saw = row.status
      BY <1>0, <2>3, Effects
    <3>2. CASE ~crossed
      <4>1. row.status # "completed"
        BY <1>0, <1>6, <2>3, <3>2 DEF Whole, RowIs, ResetLoad
      <4> QED
        BY <2>1, <3>1, <4>1, WholeKept
    <3>3. CASE crossed
      BY <2>1, <3>3 DEF Whole
    <3> QED
      BY <3>2, <3>3
  <2> QED
    BY <1>6, <2>2, <2>3 DEF ResetLoad
<1>7. CASE ResetWrite(r)
  <2>1. CASE RowIs(at[r].id)
    <3>1. /\ row' = [Update(r, "processing") EXCEPT !.old = FALSE]
          /\ Goto(r, "submitting") /\ crossed' = crossed /\ at[r].pc # "committed"
      BY <1>7, <2>1 DEF ResetWrite
    <3>2. at'[r].saw = NotSeen /\ \A b \in Actor \ {r} : at'[b] = at[b]
      BY <1>0, <1>1, <3>1, Effects
    <3> QED
      BY <1>0, <2>1, <3>1, <3>2, WholeWritten
  <2>2. CASE ~RowIs(at[r].id)
    BY <1>2, <1>7, <2>2, WholeKept DEF ResetWrite
  <2> QED
    BY <2>1, <2>2
<1>8. CASE Submit(r)
  <2>0. row' = row /\ crossed' = crossed /\ at[r].pc = "submitting"
    BY <1>8 DEF Submit
  <2>1. CASE Accepted(r)
    <3>1. PICK j \in Job :
             at' = [at EXCEPT ![r] = Idle,
                        ![j] = [Idle EXCEPT !.pc = "pending", !.id = at[r].id]]
      BY <2>1 DEF Accepted
    <3>2. /\ at'[j].id = at[r].id /\ at'[j].saw = NotSeen
          /\ r # j => at'[r].id = None
          /\ \A b \in Actor \ {r, j} : at'[b] = at[b]
      BY <1>0, <3>1 DEF Actor, Idle
    <3>3. CASE crossed
      BY <2>0, <3>3 DEF Whole
    <3>4. CASE ~crossed
      <4>1. row # NoRow /\ at[r].id = row.id => row.status # "completed"
        BY <1>0, <2>0, <3>4 DEF Whole
      <4> QED
        BY <1>0, <2>0, <3>2, <4>1, WholeKept
    <3> QED
      BY <3>3, <3>4
  <2>2. CASE Refused(r)
    <3>1. /\ at'[r].id = at[r].id /\ at'[r].saw = NotSeen
          /\ \A b \in Actor \ {r} : at'[b] = at[b]
      BY <1>0, <1>1, <2>2, Effects DEF Refused
    <3>2. CASE crossed
      BY <2>0, <3>2 DEF Whole
    <3>3. CASE ~crossed
      <4>1. row # NoRow /\ at[r].id = row.id => row.status # "completed"
        BY <1>0, <2>0, <3>3 DEF Whole
      <4> QED
        BY <2>0, <3>1, <4>1, WholeKept
    <3> QED
      BY <3>2, <3>3
  <2>3. CASE Return(r)
    BY <1>2, <2>0, <2>3, WholeKept
  <2> QED
    BY <1>8, <2>1, <2>2, <2>3 DEF Submit
<1>9. CASE HandlerBreaks(r)
  BY <1>2, <1>9, WholeKept DEF HandlerBreaks
<1> QED
  BY <1>3, <1>4, <1>5, <1>6, <1>7, <1>8, <1>9 DEF Handle

\* So does a job's: it saves where nothing was saved, or crosses the history.
LEMMA JobStepWhole ==
  ASSUME TypeOK, Whole, NEW j \in Job, JobStep(j)
  PROVE  Whole'
<1>0. /\ j \in Actor /\ at \in [Actor -> At(Pc)]
      /\ "asking" \in Pc /\ "failing" \in Pc /\ "committed" \in Pc
      /\ row # NoRow => row.id # None /\ row \in RowType
  BY RowFacts, NoneAssumption DEF TypeOK, Actor, Pc, JobPc
<1>1. ASSUME crossed, crossed' = crossed PROVE Whole'
  BY <1>1 DEF Whole
<1>2. ASSUME NEW pc \in {"asking", "failing"}, Goto(j, pc), row' = row,
             crossed' = crossed, at[j].pc # "committed" \/ ~RowIs(at[j].id)
      PROVE  Whole'
  <2>1. /\ at'[j].id = at[j].id /\ at'[j].saw = NotSeen
        /\ \A b \in Actor \ {j} : at'[b] = at[b]
    BY <1>0, <1>2, Effects
  <2>2. ~crossed /\ row # NoRow /\ at[j].id = row.id => row.status # "completed"
    BY <1>0, <1>2 DEF Whole, RowIs
  <2> QED
    BY <1>1, <1>2, <2>1, <2>2, WholeKept
<1>3. CASE JobLoad(j)
  BY <1>2, <1>3 DEF JobLoad
<1>4. CASE JobSaveLoad(j)
  <2>1. CASE RowIs(at[j].id)
    <3>1. /\ at'[j].saw = row.status /\ row' = row /\ crossed' = crossed
          /\ \A b \in Actor \ {j} : at'[b] = at[b]
      BY <1>0, <1>4, <2>1, Effects DEF JobSaveLoad
    <3>2. ~crossed => row.status # "completed"
      BY <1>0, <1>4, <2>1 DEF Whole, RowIs, JobSaveLoad
    <3> QED
      BY <1>1, <3>1, <3>2, WholeKept
  <2>2. CASE ~RowIs(at[j].id)
    BY <1>2, <1>4, <2>2 DEF JobSaveLoad
  <2> QED
    BY <2>1, <2>2
<1>5. CASE JobSave(j)
  <2>1. PICK a \in Answer :
           IF RowIs(at[j].id) /\ ~Conflict(a)
           THEN /\ row' = [Update(j, "completed") EXCEPT !.workouts = @ \cup a]
                /\ crossed' = (crossed \/ ~HeldAlone(j))
                /\ Goto(j, "committed")
           ELSE UNCHANGED <<row, crossed>> /\ Goto(j, "failing")
    BY <1>5 DEF JobSave
  <2>2. CASE RowIs(at[j].id) /\ ~Conflict(a) /\ ~crossed'
    <3>1. /\ ~crossed /\ HeldAlone(j) /\ Goto(j, "committed")
          /\ row' = [Update(j, "completed") EXCEPT !.workouts = @ \cup a]
          /\ row # NoRow /\ row \in RowType /\ at[j].id = row.id
      BY <1>0, <2>1, <2>2 DEF RowIs
    <3>2. row.status # "completed" /\ row.workouts = {} /\ at[j].saw # "completed"
      BY <1>0, <1>5, <3>1 DEF Whole, JobSave
    <3>3. row'.status = "completed" /\ row'.workouts = a /\ row'.id = row.id
      BY <3>1, <3>2 DEF Update, RowType
    <3>4. /\ at'[j].pc = "committed"
          /\ \A b \in Actor \ {j} : at'[b] = at[b] /\ at[b].id # row.id
      BY <1>0, <3>1, Effects DEF HeldAlone, Actor
    <3> QED
      BY <3>3, <3>4 DEF Whole
  <2>3. CASE ~(RowIs(at[j].id) /\ ~Conflict(a))
    BY <1>2, <1>5, <2>1, <2>3 DEF JobSave
  <2>4. CASE crossed'
    BY <2>4 DEF Whole
  <2> QED
    BY <2>2, <2>3, <2>4
<1>6. CASE JobBreak(j)
  <2>1. CASE at[j].pc = "committed" /\ RowIs(at[j].id)
    BY <1>6, <2>1 DEF JobBreak, Whole
  <2>2. CASE ~(at[j].pc = "committed" /\ RowIs(at[j].id))
    <3>1. crossed' = crossed
      BY <1>6, <2>2 DEF JobBreak, TypeOK
    <3> QED
      BY <1>2, <1>6, <2>2, <3>1 DEF JobBreak
  <2> QED
    BY <2>1, <2>2
<1>7. CASE JobEnd(j) \/ JobVanish(j)
  <2>1. /\ at'[j].id = None /\ row' = row /\ crossed' = crossed
        /\ \A b \in Actor \ {j} : at'[b] = at[b]
    BY <1>0, <1>7, Effects DEF JobEnd, JobVanish, Idle
  <2> QED
    BY <1>0, <2>1, WholeKept
<1> QED
  BY <1>3, <1>4, <1>5, <1>6, <1>7 DEF JobStep

\* So does marking a plan as failed: while its history is not crossed it is not
\* complete when somebody is about to.
LEMMA MarkWhole ==
  ASSUME TypeOK, Whole, NEW a \in Actor, MarkLoad(a) \/ MarkWrite(a)
  PROVE  Whole'
<1>0. /\ at[a].pc \in {"rejecting", "staling", "failing"} /\ crossed' = crossed
      /\ row # NoRow => row.id # None
  BY RowFacts, NoneAssumption DEF MarkLoad, MarkWrite
<1>1. \A b \in Actor \ {a} : at'[b] = at[b]
  BY Effects DEF MarkLoad, MarkWrite
<1>2. ASSUME Return(a) PROVE row # NoRow => at'[a].id # row.id
  BY <1>0, <1>2, Effects DEF Idle
<1>3. CASE MarkLoad(a)
  <2>1. row' = row
    BY <1>3 DEF MarkLoad
  <2>2. CASE RowIs(at[a].id)
    <3>1. at'[a].saw = row.status
      BY <1>3, <2>2, Effects DEF MarkLoad
    <3>2. ~crossed => row.status # "completed"
      BY <1>0, <2>2 DEF Whole, RowIs
    <3>3. CASE crossed
      BY <1>0, <3>3 DEF Whole
    <3> QED
      BY <1>0, <1>1, <2>1, <3>1, <3>2, <3>3, WholeKept
  <2>3. CASE ~RowIs(at[a].id)
    BY <1>0, <1>1, <1>2, <1>3, <2>1, <2>3, WholeKept DEF MarkLoad
  <2> QED
    BY <2>2, <2>3
<1>4. CASE MarkWrite(a)
  <2>1. Return(a)
    BY <1>4 DEF MarkWrite
  <2>2. CASE RowIs(at[a].id)
    <3>1. row' = Update(a, "failed") /\ (at'[a].id = row.id => at'[a].saw = NotSeen)
      BY <1>2, <1>4, <2>1, <2>2 DEF MarkWrite, MarkFailed, RowIs
    <3> QED
      BY <1>0, <1>1, <2>2, <3>1, WholeWritten
  <2>3. CASE ~RowIs(at[a].id)
    BY <1>0, <1>1, <1>2, <1>4, <2>1, <2>3, WholeKept DEF MarkWrite, MarkFailed
  <2> QED
    BY <2>2, <2>3
<1> QED
  BY <1>3, <1>4

\* Every step keeps the plan whole.
LEMMA NextWhole == TypeOK /\ Whole /\ [Next]_vars => Whole'
<1> SUFFICES ASSUME TypeOK, Whole, [Next]_vars PROVE Whole'
  OBVIOUS
<1>1. CASE NewReview \/ UNCHANGED vars
  BY <1>1 DEF NewReview, vars, Whole
<1>2. CASE DropReview
  BY <1>2 DEF DropReview, Whole
<1>3. CASE Sweep \/ Age
  <2>1. row \in RowType /\ row # NoRow
    BY <1>3, RowFacts DEF Sweep, Age
  <2>2. /\ row'.id = row.id /\ row'.workouts = row.workouts
        /\ row.status # "completed" /\ row'.status # "completed"
        /\ at' = at /\ crossed' = crossed
    BY <1>3, <2>1 DEF Sweep, Age, RowType
  <2> QED
    BY <2>1, <2>2 DEF Whole
<1>4. CASE Crash
  <2>1. row # NoRow => row.id # None
    BY RowFacts, NoneAssumption
  <2> QED
    BY <1>4, <2>1 DEF Crash, Whole, Idle, Actor
<1> QED
  BY <1>1, <1>2, <1>3, <1>4, HandleWhole, JobStepWhole, MarkWhole DEF Next, Actor

-----------------------------------------------------------------------------
(* Owners.                                                                 *)

\* Some actor owns an attempt of plan v.
Owns(a, v) == /\ \/ a \in Request /\ Handling(a, v)
                 \/ a \in Job /\ Working(a, v)
              /\ Ends(a)

LEMMA OwnedByActor ==
  /\ Owned <=> (row.status = "processing" => lost \/ \E a \in Actor : Owns(a, row.id))
  /\ Owned' <=> (row'.status = "processing" => lost' \/ \E a \in Actor : Owns(a, row.id)')
BY DEF Owned, Owns, Actor

\* An owner that a step does not touch remains one.
LEMMA OwnerStays ==
  ASSUME NEW a \in Actor, Owns(a, row.id), at'[a] = at[a], row'.id = row.id
  PROVE  Owns(a, row.id)'
BY DEF Owns, Handling, Working, Ends

\* A handler's step keeps every attempt owned.
LEMMA HandleOwned ==
  ASSUME TypeOK, Owned, NEW r \in Request, Handle(r) \/ HandlerBreaks(r)
  PROVE  Owned'
<1>0. /\ r \in Actor /\ r \notin Job /\ at \in [Actor -> At(Pc)]
      /\ NotSeen # "failed" /\ NoRow.status # "processing"
  BY ActorsAssumption DEF TypeOK, Actor, Pc, NotSeen, NoRow
<1>1. /\ "deleting" \in Pc /\ "inserting" \in Pc /\ "resetting" \in Pc
      /\ "submitting" \in Pc /\ "rejecting" \in Pc /\ "staling" \in Pc
  BY DEF Pc, RequestPc
<1>2. /\ at[r].id \in Plan \cup {None} /\ at[r].of \in Review \cup {None}
      /\ row.id \in Plan \cup {None} /\ review \in Review \cup {None}
      /\ None \in Plan \cup {None} /\ None \in Review \cup {None}
  BY <1>0, RowFacts DEF At, TypeOK
<1>3. ASSUME row'.status = "processing" => row' = row,
             lost' = lost, ~Owns(r, row.id) \/ row'.status # "processing",
             \A b \in Actor \ {r} : at'[b] = at[b]
      PROVE  Owned'
  BY <1>3, OwnedByActor, OwnerStays
<1>4. CASE CreateRead(r) \/ RetryRead(r) \/ ReadStale(r)
  <2>1. ~Owns(r, row.id) /\ row' = row /\ lost' = lost
    BY <1>0, <1>4 DEF Owns, Handling, Working, Idle, CreateRead, RetryRead, ReadStale
  <2>2. \A b \in Actor \ {r} : at'[b] = at[b]
    BY <1>0, <1>1, <1>2, <1>4, Effects DEF CreateRead, RetryRead, ReadStale
  <2> QED
    BY <1>3, <2>1, <2>2
<1>5. CASE CreateDelete(r)
  <2>1. ~Owns(r, row.id) /\ (row'.status = "processing" => row' = row) /\ lost' = lost
    BY <1>0, <1>5 DEF Owns, Handling, Working, CreateDelete
  <2>2. \A b \in Actor \ {r} : at'[b] = at[b]
    BY <1>0, <1>1, <1>2, <1>5, Effects DEF CreateDelete
  <2> QED
    BY <1>3, <2>1, <2>2
<1>6. CASE CreateInsert(r)
  <2>1. CASE row' = row
    <3>1. Return(r) /\ lost' = lost /\ ~Owns(r, row.id)
      <4>1. \A v \in Plan :
               [NoRow EXCEPT !.id = v, !.status = "processing"].status # NoRow.status
        BY DEF NoRow
      <4> QED
        <5>1. \A v \in Plan :
                 row = NoRow => [NoRow EXCEPT !.id = v, !.status = "processing"] # row
          BY <4>1
        <5> QED
          BY <1>0, <1>6, <2>1, <5>1 DEF CreateInsert, Owns, Handling, Working
    <3> QED
      BY <1>0, <1>3, <2>1, <3>1, Effects
  <2>2. CASE row' # row
    <3>1. PICK v \in Plan :
             /\ row' = [NoRow EXCEPT !.id = v, !.status = "processing"]
             /\ Enter(r, "submitting", v, None)
      BY <1>6, <2>2 DEF CreateInsert
    <3>2. /\ row'.id = v /\ at'[r].pc = "submitting" /\ at'[r].id = v
      BY <1>0, <1>1, <1>2, <3>1, Effects DEF NoRow
    <3> QED
      BY <3>2 DEF Owned, Handling, Ends
  <2> QED
    BY <2>1, <2>2
<1>7. CASE ResetLoad(r)
  <2>1. ~Owns(r, row.id) /\ row' = row /\ lost' = lost
    BY <1>0, <1>7 DEF Owns, Handling, Working, ResetLoad
  <2> QED
    BY <1>0, <1>3, <1>7, <2>1, Effects DEF ResetLoad
<1>8. CASE ResetWrite(r)
  <2>1. CASE RowIs(at[r].id)
    <3>1. /\ row' = [Update(r, "processing") EXCEPT !.old = FALSE]
          /\ Goto(r, "submitting")
      BY <1>8, <2>1 DEF ResetWrite
    <3>2. row'.id = at[r].id
      BY <2>1, <3>1, RowFacts DEF Update, RowType, RowIs
    <3>3. at'[r].pc = "submitting" /\ at'[r].id = row'.id
      BY <1>0, <1>1, <3>1, <3>2, Effects
    <3> QED
      BY <3>3 DEF Owned, Handling, Ends
  <2>2. CASE ~RowIs(at[r].id)
    <3>1. ~Owns(r, row.id) /\ row' = row /\ lost' = lost /\ Return(r)
      BY <1>0, <1>8, <2>2 DEF Owns, Handling, Working, ResetWrite
    <3> QED
      BY <1>0, <1>3, <3>1, Effects
  <2> QED
    BY <2>1, <2>2
<1>9. CASE Submit(r)
  <2>0. row' = row /\ lost' = lost /\ at[r].pc = "submitting"
    BY <1>9 DEF Submit
  <2>1. CASE Accepted(r)
    <3>1. PICK j \in Job :
             /\ at[j] = Idle
             /\ at' = [at EXCEPT ![r] = Idle,
                           ![j] = [Idle EXCEPT !.pc = "pending", !.id = at[r].id]]
      BY <2>1 DEF Accepted
    <3>2. /\ at'[j].pc = "pending" /\ at'[j].id = at[r].id
          /\ \A b \in Actor \ {r, j} : at'[b] = at[b]
      BY <1>0, <3>1 DEF Actor, Idle
    <3>3. ~Owns(j, row.id) /\ j \in Actor
      BY <3>1, ActorsAssumption DEF Owns, Handling, Working, Idle, Actor
    <3>4. Owns(r, row.id) => Owns(j, row.id)'
      BY <1>0, <2>0, <3>2 DEF Owns, Handling, Working, Ends
    <3> QED
      BY <2>0, <3>2, <3>3, <3>4, OwnedByActor, OwnerStays
  <2>2. CASE Refused(r)
    <3>1. /\ at'[r].pc = "rejecting" /\ at'[r].id = at[r].id /\ at'[r].saw = NotSeen
          /\ \A b \in Actor \ {r} : at'[b] = at[b]
      BY <1>0, <1>1, <2>2, Effects DEF Refused
    <3>2. Owns(r, row.id) => Owns(r, row.id)'
      BY <1>0, <2>0, <3>1 DEF Owns, Handling, Working, Ends
    <3> QED
      BY <1>0, <2>0, <3>1, <3>2, OwnedByActor, OwnerStays
  <2>3. CASE ~RowIs(at[r].id) /\ Return(r)
    <3>1. ~Owns(r, row.id) \/ row'.status # "processing"
      BY <1>0, <2>0, <2>3, RowFacts DEF Owns, Handling, RowIs
    <3> QED
      BY <1>0, <1>3, <2>0, <2>3, <3>1, Effects
  <2> QED
    BY <1>9, <2>1, <2>2, <2>3 DEF Submit
<1>10. CASE HandlerBreaks(r)
  <2>1. CASE Handling(r, row.id)
    BY <1>10, <2>1 DEF HandlerBreaks, Owned
  <2>2. CASE ~Handling(r, row.id)
    <3>1. ~Owns(r, row.id) /\ row' = row /\ lost' = lost /\ Return(r)
      BY <1>0, <1>10, <2>2 DEF HandlerBreaks, Owns, TypeOK
    <3> QED
      BY <1>0, <1>3, <3>1, Effects
  <2> QED
    BY <2>1, <2>2
<1> QED
  BY <1>4, <1>5, <1>6, <1>7, <1>8, <1>9, <1>10 DEF Handle

\* So does a job's.
LEMMA JobStepOwned ==
  ASSUME TypeOK, Owned, NEW j \in Job, JobStep(j)
  PROVE  Owned'
<1>0. /\ j \in Actor /\ j \notin Request /\ at \in [Actor -> At(Pc)]
      /\ NotSeen \notin Status /\ "asking" \in Pc /\ "failing" \in Pc /\ "committed" \in Pc
  BY ActorsAssumption DEF TypeOK, Actor, Pc, JobPc, NotSeen, Status
<1>1. ASSUME row' = row, lost' = lost, \A b \in Actor \ {j} : at'[b] = at[b],
             Owns(j, row.id) => Owns(j, row.id)'
      PROVE  Owned'
  BY <1>0, <1>1, OwnedByActor, OwnerStays
<1>2. ASSUME NEW pc \in {"asking", "failing"}, Goto(j, pc)
      PROVE  /\ \A b \in Actor \ {j} : at'[b] = at[b]
             /\ row' = row => (Owns(j, row.id) => Owns(j, row.id)')
  BY <1>0, <1>2, Effects DEF Owns, Working, Ends, Status
<1>3. CASE JobLoad(j) \/ JobBreak(j)
  BY <1>1, <1>2, <1>3 DEF JobLoad, JobBreak
<1>4. CASE JobSaveLoad(j)
  <2>1. CASE RowIs(at[j].id)
    <3>1. /\ at'[j].pc = at[j].pc /\ at'[j].id = at[j].id /\ at'[j].saw = row.status
          /\ row' = row /\ lost' = lost /\ \A b \in Actor \ {j} : at'[b] = at[b]
      BY <1>0, <1>4, <2>1, Effects DEF JobSaveLoad
    <3>2. CASE row.status = "processing"
      BY <1>1, <3>1, <3>2 DEF Owns, Handling, Working, Ends
    <3>3. CASE row.status # "processing"
      BY <3>1, <3>3 DEF Owned
    <3> QED
      BY <3>2, <3>3
  <2>2. CASE ~RowIs(at[j].id)
    BY <1>1, <1>2, <1>4, <2>2 DEF JobSaveLoad
  <2> QED
    BY <2>1, <2>2
<1>5. CASE JobSave(j)
  <2>1. PICK a \in Answer :
           IF RowIs(at[j].id) /\ ~Conflict(a)
           THEN /\ row' = [Update(j, "completed") EXCEPT !.workouts = @ \cup a]
                /\ Goto(j, "committed")
           ELSE UNCHANGED row /\ Goto(j, "failing")
    BY <1>5 DEF JobSave
  <2>2. CASE RowIs(at[j].id) /\ ~Conflict(a)
    <3>1. /\ row \in RowType /\ lost' = lost /\ \A b \in Actor \ {j} : at'[b] = at[b]
      BY <1>0, <1>5, <2>1, <2>2, RowFacts, Effects DEF JobSave, RowIs
    <3>2. CASE at[j].saw # "completed"
      BY <2>1, <2>2, <3>1, <3>2 DEF Update, RowType, Owned
    <3>3. CASE at[j].saw = "completed"
      <4>1. row'.status = row.status /\ row'.id = row.id
        BY <2>1, <2>2, <3>1, <3>3 DEF Update, RowType
      <4>2. ~Owns(j, row.id)
        BY <1>0, <1>5, <3>3 DEF JobSave, Owns, Ends, Handling
      <4> QED
        BY <3>1, <4>1, <4>2, OwnedByActor, OwnerStays
    <3> QED
      BY <3>2, <3>3
  <2>3. CASE ~(RowIs(at[j].id) /\ ~Conflict(a))
    BY <1>1, <1>2, <1>5, <2>1, <2>3 DEF JobSave
  <2> QED
    BY <2>2, <2>3
<1>6. CASE JobEnd(j)
  BY <1>0, <1>1, <1>6, Effects DEF JobEnd, Owns, Working
<1>7. CASE JobVanish(j)
  <2>1. CASE RowIs(at[j].id)
    BY <1>7, <2>1 DEF JobVanish, Owned
  <2>2. CASE ~RowIs(at[j].id)
    <3>1. row.status = "processing" => ~Owns(j, row.id)
      BY <1>0, <2>2, RowFacts DEF Owns, Working, RowIs
    <3>2. row' = row /\ lost' = lost /\ \A b \in Actor \ {j} : at'[b] = at[b]
      BY <1>0, <1>7, <2>2, Effects DEF JobVanish, TypeOK
    <3> QED
      BY <3>1, <3>2, OwnedByActor, OwnerStays
  <2> QED
    BY <2>1, <2>2
<1> QED
  BY <1>3, <1>4, <1>5, <1>6, <1>7 DEF JobStep

\* So does marking: a call that leaves an attempt going was not its owner.
LEMMA MarkOwned ==
  ASSUME TypeOK, Owned, NEW a \in Actor, MarkLoad(a) \/ MarkWrite(a)
  PROVE  Owned'
<1>0. at \in [Actor -> At(Pc)] /\ lost' = lost
  BY DEF TypeOK, Actor, Pc, MarkLoad, MarkWrite
<1>1. \A b \in Actor \ {a} : at'[b] = at[b]
  BY Effects DEF MarkLoad, MarkWrite
<1>2. ASSUME row'.status = "processing" => row'.id = row.id /\ row.status = "processing",
             row'.status = "processing" /\ Owns(a, row.id) => Owns(a, row.id)'
      PROVE  Owned'
  BY <1>0, <1>1, <1>2, OwnedByActor, OwnerStays
<1>3. CASE MarkLoad(a)
  <2>1. CASE RowIs(at[a].id)
    BY <1>2, <1>3, <2>1, Effects DEF MarkLoad, Owns, Handling, Working, Ends
  <2>2. CASE ~RowIs(at[a].id)
    <3>1. row.status = "processing" => ~Owns(a, row.id)
      BY <2>2, RowFacts DEF Owns, Handling, Working, RowIs
    <3> QED
      BY <1>2, <1>3, <3>1 DEF MarkLoad
  <2> QED
    BY <2>1, <2>2
<1>4. CASE MarkWrite(a)
  <2>1. CASE RowIs(at[a].id)
    <3>1. /\ row \in RowType
          /\ row' = [row EXCEPT !.status = IF at[a].saw = "failed" THEN @ ELSE "failed"]
      BY <1>4, <2>1, RowFacts DEF MarkWrite, MarkFailed, Update, RowIs
    <3>2. row'.status = "processing" => row' = row /\ at[a].saw = "failed"
      BY <3>1 DEF RowType
    <3>3. row'.status = "processing" => ~Owns(a, row.id)
      <4>1. at[a].pc \in {"rejecting", "staling", "failing"}
        BY <1>4 DEF MarkWrite
      <4> QED
        BY <3>2, <4>1 DEF Owns, Handling, Working, Ends
    <3> QED
      BY <1>2, <3>2, <3>3
  <2>2. CASE ~RowIs(at[a].id)
    <3>1. row.status = "processing" => ~Owns(a, row.id)
      BY <2>2, RowFacts DEF Owns, Handling, Working, RowIs
    <3>2. row' = row
      BY <1>4, <2>2 DEF MarkWrite, MarkFailed
    <3> QED
      BY <1>2, <3>1, <3>2
  <2> QED
    BY <2>1, <2>2
<1> QED
  BY <1>3, <1>4

\* Every step keeps every attempt owned.
LEMMA NextOwned == TypeOK /\ Owned /\ [Next]_vars => Owned'
<1> SUFFICES ASSUME TypeOK, Owned, [Next]_vars PROVE Owned'
  OBVIOUS
<1>1. CASE UNCHANGED vars
  BY <1>1 DEF vars, Owned, Handling, Working, Ends
<1>2. CASE NewReview
  BY <1>2 DEF NewReview, Owned, Handling, Working, Ends
<1>3. CASE DropReview \/ Sweep
  BY <1>3, RowFacts DEF DropReview, Sweep, Owned, NoRow, RowType
<1>4. CASE Crash
  BY <1>4 DEF Crash, Owned
<1>5. CASE Age
  <2>1. row' = [row EXCEPT !.old = TRUE] /\ row \in RowType
    BY <1>5, RowFacts DEF Age
  <2>2. row'.id = row.id /\ row'.status = row.status
    BY <2>1 DEF RowType
  <2> QED
    BY <1>5, <2>2 DEF Age, Owned, Handling, Working, Ends
<1> QED
  BY <1>1, <1>2, <1>3, <1>4, <1>5, HandleOwned, JobStepOwned, MarkOwned
  DEF Next, Actor

-----------------------------------------------------------------------------
(* The invariant and what follows from it.                                 *)

\* The program starts without a plan, a handler or a job.
LEMMA InitIInv == Init => IInv
<1> SUFFICES ASSUME Init PROVE IInv
  OBVIOUS
<1>1. TypeOK
  <2>1. Idle \in At(RequestPc \cup JobPc) /\ Idle.pc \in RequestPc /\ Idle.pc \in JobPc
    BY ActorValues DEF Pc, Idle, RequestPc, JobPc
  <2> QED
    BY <2>1 DEF Init, TypeOK
<1>2. Whole /\ Owned
  BY DEF Init, NoRow, Whole, Owned
<1> QED
  BY <1>1, <1>2 DEF IInv

\* The invariant holds throughout.
LEMMA Invariance == Spec => []IInv
<1>1. IInv /\ [Next]_vars => IInv'
  BY NextType, NextWhole, NextOwned DEF IInv
<1> QED
  BY InitIInv, <1>1, PTL DEF Spec

\* The row, the handlers and the jobs keep their types; a plan never outlives its
\* review and has none but workouts that Gemini sent.
THEOREM TypeCorrect == Spec => []TypeOK
<1>1. IInv => TypeOK
  BY DEF IInv
<1> QED
  BY <1>1, Invariance, PTL

\* No plan is left in 'processing' by a refused submission, a retry that races
\* another, a deletion under a running job, or a failure recorded late.
THEOREM PlansAreOwned == Spec => []NoOrphanPlan
<1>1. IInv => NoOrphanPlan
  BY DEF IInv, Owned, NoOrphanPlan
<1> QED
  BY <1>1, Invariance, PTL

\* However many jobs were started for a plan and whatever their answers, when it is
\* completed it has the workouts of one of them and no others, unless an attempt
\* saved while another actor held the plan or was failed after its commit.
THEOREM PlansAreWhole == Spec => []PlanIsWhole
<1>1. IInv => PlanIsWhole
  BY DEF IInv, Whole, PlanIsWhole, NoRow
<1> QED
  BY <1>1, Invariance, PTL

\* Those are also the only histories that leave workouts on a plan in 'failed' or
\* 'processing'.
THEOREM LeftoversAreExplained == Spec => []LeftoversAreCrossed
<1>1. IInv => LeftoversAreCrossed
  BY DEF IInv, Whole, LeftoversAreCrossed, NoRow
<1> QED
  BY <1>1, Invariance, PTL

\* A step after which everybody holds what they held, nothing, or what another
\* held, and the row is the same, keeps a completed plan settled.
LEMMA StillSettled ==
  ASSUME Settled, row' = row,
         \A a \in Actor : at'[a].id # row.id
  PROVE  Settled'
BY DEF Settled, Actor

\* A settled plan is out of everybody's reach: the reads that would take hold of it
\* look for another status, and who holds another key changes nothing of it.
LEMMA NextSettled ==
  ASSUME TypeOK, [Next]_vars, Settled
  PROVE  (Settled' /\ row' = row) \/ (row' = NoRow /\ review' = None)
<1>0. /\ row # NoRow /\ row.status = "completed" /\ row.id # None
      /\ at \in [Actor -> At(Pc)]
      /\ \A a \in Actor : at[a].id # row.id /\ ~RowIs(at[a].id)
  BY RowFacts, NoneAssumption DEF Settled, TypeOK, Actor, Pc, NoRow, RowIs
<1>1. ASSUME NEW a \in Actor, row' = row,
             Return(a) \/ Load(a) \/ (\E pc \in Pc : Goto(a, pc))
      PROVE  Settled'
  <2>1. at'[a].id \in {at[a].id, None} /\ \A b \in Actor \ {a} : at'[b] = at[b]
    BY <1>1, Effects DEF Idle
  <2> QED
    BY <1>0, <1>1, <2>1, StillSettled
<1>2. /\ "inserting" \in Pc /\ "submitting" \in Pc /\ "rejecting" \in Pc
      /\ "asking" \in Pc /\ "failing" \in Pc /\ "committed" \in Pc
  BY DEF Pc, RequestPc, JobPc
<1>3. ASSUME NEW r \in Request, Handle(r) \/ HandlerBreaks(r)
      PROVE  Settled' /\ row' = row
  <2>0. r \in Actor
    BY DEF Actor
  <2>1. CASE CreateRead(r) \/ RetryRead(r) \/ ReadStale(r)
    BY <1>0, <2>1 DEF CreateRead, RetryRead, ReadStale
  <2>2. CASE CreateDelete(r)
    <3>1. row' = row /\ Enter(r, "inserting", None, at[r].of)
      BY <1>0, <2>0, <2>2 DEF CreateDelete
    <3>2. \A a \in Actor : at'[a].id \in {at[a].id, None}
      BY <1>0, <2>0, <3>1 DEF Enter
    <3> QED
      BY <1>0, <3>1, <3>2, StillSettled
  <2>3. CASE CreateInsert(r) \/ ResetLoad(r) \/ ResetWrite(r) \/ HandlerBreaks(r)
    <3>1. row' = row /\ Return(r)
      BY <1>0, <2>0, <2>3 DEF CreateInsert, ResetLoad, ResetWrite, HandlerBreaks
    <3> QED
      BY <1>1, <2>0, <3>1
  <2>4. CASE Submit(r)
    <3>1. row' = row
      BY <2>4 DEF Submit
    <3>2. CASE Accepted(r)
      <4>1. PICK j \in Job :
               at' = [at EXCEPT ![r] = Idle,
                          ![j] = [Idle EXCEPT !.pc = "pending", !.id = at[r].id]]
        BY <3>2 DEF Accepted
      <4>2. \A a \in Actor : at'[a].id \in {at[a].id, at[r].id, None}
        BY <1>0, <2>0, <4>1 DEF Idle
      <4> QED
        BY <1>0, <2>0, <3>1, <4>2, StillSettled
    <3> QED
      BY <1>1, <1>2, <2>0, <2>4, <3>1, <3>2 DEF Submit, Refused
  <2> QED
    BY <1>3, <2>1, <2>2, <2>3, <2>4 DEF Handle
<1>4. ASSUME NEW j \in Job, JobStep(j)
      PROVE  Settled' /\ row' = row
  <2>1. j \in Actor
    BY DEF Actor
  <2>2. row' = row /\ (Return(j) \/ \E pc \in Pc : Goto(j, pc))
    BY <1>0, <1>2, <1>4, <2>1
    DEF JobStep, JobLoad, JobSaveLoad, JobSave, JobBreak, JobEnd, JobVanish
  <2> QED
    BY <1>1, <2>1, <2>2
<1>5. ASSUME NEW a \in Actor, MarkLoad(a) \/ MarkWrite(a)
      PROVE  Settled' /\ row' = row
  <2>1. row' = row /\ Return(a)
    BY <1>0, <1>5 DEF MarkLoad, MarkWrite, MarkFailed
  <2> QED
    BY <1>1, <2>1
<1>6. CASE Crash
  BY <1>0, <1>6, StillSettled DEF Crash, Idle, Actor
<1>7. CASE NewReview \/ UNCHANGED vars
  BY <1>0, <1>7, StillSettled DEF NewReview, vars
<1>8. CASE DropReview \/ Sweep \/ Age
  BY <1>0, <1>8 DEF DropReview, Sweep, Age
<1> QED
  BY <1>3, <1>4, <1>5, <1>6, <1>7, <1>8 DEF Next, Actor

\* Once the actors of earlier attempts are through, a completed plan keeps its
\* status and its workouts until its review goes.
THEOREM CompletedStaysCompleted == Spec => CompletedIsFinal
<1>1. TypeOK /\ [Next]_vars
      => [Settled => \/ Settled' /\ row' = row
                     \/ row' = NoRow /\ review' = None]_vars
  BY NextSettled
<1> QED
  BY <1>1, TypeCorrect, PTL DEF Spec, CompletedIsFinal
==============================================================================
