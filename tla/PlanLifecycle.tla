---------------------------- MODULE PlanLifecycle ----------------------------
(***************************************************************************)
(* The training plan of a review and its workouts, and everyone who writes *)
(* them: the create, retry and read handlers (app/api/ai.py, TrainingService*)
(* in app/services/ai.py), the plan jobs (app/jobs.py), the startup sweep, *)
(* and the review itself, which takes its plan along when it is deleted.   *)
(*                                                                         *)
(* A handler reads the row, decides, and then calls the repository.  A     *)
(* call that changes the row is two steps: it loads the row afresh         *)
(* (populate_existing, no lock) and commits the columns that differ from   *)
(* what it loaded.  The clock of ReviewLifecycle is reduced to one bit: a  *)
(* row is `old' once its attempt has lasted longer than                    *)
(* STUCK_JOB_THRESHOLD_SEC, by when no job of it is alive and no handler   *)
(* has yet to submit one (proved there as StaleRowsAreLost).               *)
(*                                                                         *)
(* A definition named X_Suffix stands before X and is a faulty form of it, *)
(* used to check that a property can tell the difference.                  *)
(***************************************************************************)
CONSTANTS Review,   \* keys of reviews
          Plan,     \* keys of plans; one that nothing holds is free again
          Request,  \* handlers at work at once
          Job,      \* jobs alive at once
          None,
          Answer    \* what Gemini may answer with as many workouts as asked
                    \* for: the set of their numbers, which are any integers

ASSUME ActorsAssumption == Request \cap Job = {}
ASSUME NoneAssumption == None \notin Review \cup Plan

VARIABLES review,  \* the session's review, or None
          row,     \* its plan: key, status, workouts, old
          at,      \* each handler and job: where it is, the keys it holds, and
                   \* what its call of the repository has loaded
          lost,    \* history: the attempt's owner was killed, or ended
                   \* without recording how
          crossed  \* history: an attempt at this plan saved its workouts while
                   \* another actor held the plan, or was failed after saving

vars == <<review, row, at, lost, crossed>>

-----------------------------------------------------------------------------
Status == {"processing", "completed", "failed"}
RequestPc == {"idle", "deleting", "inserting", "resetting", "submitting",
              "rejecting", "staling"}
JobPc == {"idle", "pending", "asking", "committed", "failing"}

NoRow == [id |-> None, status |-> "absent", workouts |-> {}, old |-> FALSE]
NotSeen == "absent"
Idle == [pc |-> "idle", id |-> None, of |-> None, saw |-> NotSeen]

Workouts == SUBSET UNION Answer
RowType == [id : Plan, status : Status, workouts : Workouts, old : BOOLEAN]
At(pcs) == [pc : pcs, id : Plan \cup {None}, of : Review \cup {None},
            saw : Status \cup {NotSeen}]

\* A plan exists only with a review, and has none but workouts that Gemini sent.
TypeOK == /\ review \in Review \cup {None}
          /\ row \in RowType \cup {NoRow}
          /\ row # NoRow => review # None
          /\ at \in [Request \cup Job -> At(RequestPc \cup JobPc)]
          /\ \A r \in Request : at[r].pc \in RequestPc
          /\ \A j \in Job : at[j].pc \in JobPc
          /\ lost \in BOOLEAN
          /\ crossed \in BOOLEAN

RowIs(v) == row # NoRow /\ row.id = v
Unheld(v) == ~RowIs(v) /\ \A a \in Request \cup Job : at[a].id # v

\* Actors without which an attempt of plan v would never end.
Handling(r, v) == at[r].pc \in {"submitting", "rejecting"} /\ at[r].id = v
Working(j, v) == at[j].pc \in {"pending", "asking", "failing"} /\ at[j].id = v

Goto(a, pc) == at' = [at EXCEPT ![a].pc = pc, ![a].saw = NotSeen]
Return(a) == at' = [at EXCEPT ![a] = Idle]
Enter(a, pc, v, w) ==
  at' = [at EXCEPT ![a] = [pc |-> pc, id |-> v, of |-> w, saw |-> NotSeen]]

\* What a call that found the row has loaded of it.
Seen(a) == at[a].saw # NotSeen
Load(a) == at' = [at EXCEPT ![a].saw = row.status]

\* The unit of work writes the column only if it differs from what was loaded.
Update(a, status) ==
  [row EXCEPT !.status = IF at[a].saw = status THEN @ ELSE status]

Init == /\ review = None
        /\ row = NoRow
        /\ at = [a \in Request \cup Job |-> Idle]
        /\ lost = FALSE
        /\ crossed = FALSE

-----------------------------------------------------------------------------
(* POST /training-plans/: enqueue_training_plan.                           *)

\* A completed or processing plan answers 409, a missing review 404.  The
\* review's status is not looked at.
CreateRead(r) ==
  /\ at[r] = Idle
  /\ review # None
  /\ \/ row = NoRow /\ Enter(r, "inserting", None, review)
     \/ row.status = "failed" /\ Enter(r, "deleting", row.id, review)
  /\ UNCHANGED <<review, row, lost, crossed>>

\* By key, whatever the status is by now; the workouts go by cascade.
CreateDelete(r) ==
  /\ at[r].pc = "deleting"
  /\ row' = IF RowIs(at[r].id) THEN NoRow ELSE row
  /\ Enter(r, "inserting", None, at[r].of)
  /\ UNCHANGED <<review, lost, crossed>>

\* The insert, or a 500: the review is gone, or it has a plan by now.
CreateInsert(r) ==
  /\ at[r].pc = "inserting"
  /\ \/ /\ review # None /\ review = at[r].of /\ row = NoRow
        /\ \E v \in Plan :
              /\ Unheld(v)
              /\ row' = [NoRow EXCEPT !.id = v, !.status = "processing"]
              /\ Enter(r, "submitting", v, None)
        /\ lost' = FALSE /\ crossed' = FALSE
     \/ /\ review # at[r].of \/ row # NoRow
        /\ Return(r)
        /\ UNCHANGED <<row, lost, crossed>>
  /\ UNCHANGED review

(* POST /training-plans/{id}/retry.                                        *)

RetryRead_Any(r) ==
  /\ at[r] = Idle
  /\ row.status \in {"failed", "completed"}
  /\ Enter(r, "resetting", row.id, None)
  /\ UNCHANGED <<review, row, lost, crossed>>
RetryRead(r) ==
  /\ at[r] = Idle
  /\ row.status = "failed"
  /\ Enter(r, "resetting", row.id, None)
  /\ UNCHANGED <<review, row, lost, crossed>>

\* reset_for_retry leaves the workouts alone.
ResetLoad(r) ==
  /\ at[r].pc = "resetting" /\ ~Seen(r)
  /\ IF RowIs(at[r].id) THEN Load(r) ELSE Return(r)
  /\ UNCHANGED <<review, row, lost, crossed>>

ResetWrite(r) ==
  /\ at[r].pc = "resetting" /\ Seen(r)
  /\ \/ /\ RowIs(at[r].id)
        /\ row' = [Update(r, "processing") EXCEPT !.old = FALSE]
        /\ Goto(r, "submitting")
        /\ lost' = FALSE
     \/ /\ ~RowIs(at[r].id)
        /\ Return(r)
        /\ UNCHANGED <<row, lost>>
  /\ UNCHANGED <<review, crossed>>

(* _submit_plan_job.                                                       *)

Accepted(r) ==
  \E j \in Job :
     /\ at[j] = Idle
     /\ at' = [at EXCEPT ![r] = Idle,
                         ![j] = [Idle EXCEPT !.pc = "pending", !.id = at[r].id]]

Refused_Unmarked(r) == Return(r)
Refused(r) == Goto(r, "rejecting")

\* The plan was there when the repository returned it; if it was not, 500.
Submit(r) ==
  /\ at[r].pc = "submitting"
  /\ \/ Accepted(r)
     \/ Refused(r)
     \/ ~RowIs(at[r].id) /\ Return(r)
  /\ UNCHANGED <<review, row, lost, crossed>>

(* GET of the plan, by its id or its review's: _fail_if_stale.             *)

ReadStale(r) ==
  /\ at[r] = Idle
  /\ row.status = "processing" /\ row.old
  /\ Enter(r, "staling", row.id, None)
  /\ UNCHANGED <<review, row, lost, crossed>>

-----------------------------------------------------------------------------
(* mark_failed, called by a handler that rejects or that finds the plan    *)
(* stale, and by mark_plan_failed from a session of its own.               *)

\* Its assert raises when there is no plan any more.
MarkLoad(a) ==
  /\ at[a].pc \in {"rejecting", "staling", "failing"} /\ ~Seen(a)
  /\ IF RowIs(at[a].id) THEN Load(a) ELSE Return(a)
  /\ UNCHANGED <<review, row, lost, crossed>>

MarkFailed_Blind(a) == Update(a, "failed")
MarkFailed(a) == IF RowIs(at[a].id) THEN Update(a, "failed") ELSE row

MarkWrite(a) ==
  /\ at[a].pc \in {"rejecting", "staling", "failing"} /\ Seen(a)
  /\ row' = MarkFailed(a)
  /\ Return(a)
  /\ UNCHANGED <<review, lost, crossed>>

\* A database error answers 500 wherever the handler is: after the commit of the
\* create or the retry, or in mark_failed, it leaves the attempt to nobody.
HandlerBreaks(r) ==
  /\ at[r].pc # "idle"
  /\ lost' = (lost \/ Handling(r, row.id))
  /\ Return(r)
  /\ UNCHANGED <<review, row, crossed>>

-----------------------------------------------------------------------------
(* A job: process_training_plan_task around process_training_plan.         *)

\* The plan and its review are read; without either the job raises.
JobLoad(j) ==
  /\ at[j].pc = "pending"
  /\ Goto(j, IF RowIs(at[j].id) THEN "asking" ELSE "failing")
  /\ UNCHANGED <<review, row, lost, crossed>>

HeldAlone(j) == \A a \in (Request \cup Job) \ {j} : at[a].id # at[j].id

\* uq_workouts_plan_seq rejects a number the plan has already; workouts under
\* other numbers join those of an earlier attempt.
Conflict(a) == a \cap row.workouts # {}

\* Gemini has answered with as many workouts as asked for: mark_completed.
JobSaveLoad(j) ==
  /\ at[j].pc = "asking" /\ ~Seen(j)
  /\ IF RowIs(at[j].id) THEN Load(j) ELSE Goto(j, "failing")
  /\ UNCHANGED <<review, row, lost, crossed>>

JobSave(j) ==
  /\ at[j].pc = "asking" /\ Seen(j)
  /\ \E a \in Answer :
        IF RowIs(at[j].id) /\ ~Conflict(a)
        THEN /\ row' = [Update(j, "completed") EXCEPT !.workouts = @ \cup a]
             /\ crossed' = (crossed \/ ~HeldAlone(j))
             /\ Goto(j, "committed")
        ELSE UNCHANGED <<row, crossed>> /\ Goto(j, "failing")
  /\ UNCHANGED <<review, lost>>

\* The deadline or a shutdown, also after the commit; or an exception: Gemini
\* fails, its answer does not parse, has another number of workouts or one
\* number twice.
JobBreak(j) ==
  /\ at[j].pc \in {"pending", "asking", "committed"}
  /\ Goto(j, "failing")
  /\ crossed' = (crossed \/ (at[j].pc = "committed" /\ RowIs(at[j].id)))
  /\ UNCHANGED <<review, row, lost>>

JobEnd(j) ==
  /\ at[j].pc = "committed"
  /\ Return(j)
  /\ UNCHANGED <<review, row, lost, crossed>>

\* The write of the failure raises, or a second cancellation cuts it short.
JobVanish(j) ==
  /\ at[j].pc = "failing"
  /\ lost' = (lost \/ RowIs(at[j].id))
  /\ Return(j)
  /\ UNCHANGED <<review, row, crossed>>

-----------------------------------------------------------------------------
(* The review, the process and time.                                       *)

NewReview ==
  /\ review = None
  /\ review' \in Review
  /\ UNCHANGED <<row, at, lost, crossed>>

\* The session is deleted, or a review is created over this failed one.
DropReview ==
  /\ review # None
  /\ review' = None
  /\ row' = NoRow
  /\ UNCHANGED <<at, lost, crossed>>

\* The second statement of sweep_stuck_jobs, at the boot of some process.
Sweep ==
  /\ row.status = "processing" /\ row.old
  /\ row' = [row EXCEPT !.status = "failed"]
  /\ UNCHANGED <<review, at, lost, crossed>>

\* The process is killed with everything it was doing.
Crash ==
  /\ at' = [a \in Request \cup Job |-> Idle]
  /\ lost' = \/ lost
             \/ \E r \in Request : Handling(r, row.id)
             \/ \E j \in Job : Working(j, row.id)
  /\ UNCHANGED <<review, row, crossed>>

Age ==
  /\ row.status = "processing"
  /\ \A r \in Request : at[r].pc = "submitting" => at[r].id # row.id
  /\ \A j \in Job : at[j].pc # "idle" => at[j].id # row.id
  /\ row' = [row EXCEPT !.old = TRUE]
  /\ UNCHANGED <<review, at, lost, crossed>>

Handle(r) == \/ CreateRead(r) \/ CreateDelete(r) \/ CreateInsert(r)
             \/ RetryRead(r) \/ ResetLoad(r) \/ ResetWrite(r) \/ Submit(r)
             \/ ReadStale(r)

JobStep(j) == \/ JobLoad(j) \/ JobSaveLoad(j) \/ JobSave(j) \/ JobBreak(j)
              \/ JobEnd(j) \/ JobVanish(j)

Next == \/ \E r \in Request : Handle(r) \/ HandlerBreaks(r)
        \/ \E j \in Job : JobStep(j)
        \/ \E a \in Request \cup Job : MarkLoad(a) \/ MarkWrite(a)
        \/ NewReview \/ DropReview \/ Sweep \/ Crash \/ Age

Spec == Init /\ [][Next]_vars

-----------------------------------------------------------------------------
(* Properties.                                                             *)

\* A plan in 'processing' has a handler that will submit or reject it, or a job
\* that will end it, unless that owner was lost: also when two retries race,
\* when a create deletes the plan a retry has restarted, and when the review is
\* deleted, with its plan, under a running job.
NoOrphanPlan ==
  row.status = "processing" =>
     \/ lost
     \/ \E r \in Request : Handling(r, row.id)
     \/ \E j \in Job : Working(j, row.id)

\* A completed plan has the workouts of exactly one attempt, all of them, unless
\* its history was crossed: a create or a retry after an attempt that failed before
\* its commit, a kill or a late read never makes a plan of two attempts' workouts.
PlanIsWhole == row.status = "completed" /\ ~crossed => row.workouts \in Answer

\* A plan is left in 'failed' or 'processing' with workouts, for a retry to collide
\* with or to add to, only when an attempt saved while another actor held the plan
\* or was itself failed after its commit.
LeftoversAreCrossed ==
  row.status # "completed" /\ row.workouts # {} => crossed

\* A completed plan that no handler or job of before still holds.
Settled == row.status = "completed" /\ \A a \in Request \cup Job : at[a].id # row.id

\* Whoever undoes a completed plan, or adds workouts to it, began before it was
\* complete: after that it stays as it is until its review goes.
CompletedIsFinal ==
  [][Settled => \/ Settled' /\ row' = row
                \/ row' = NoRow /\ review' = None]_vars

\* "A user can retry a failed review multiple times until it succeeds", and plans
\* follow the same pattern (docs/SPEC_BACKEND_Async_Review_Processing.md:304): a
\* failed plan keeps no workouts for the retry to collide with.
RetryCanComplete == row.status = "failed" => row.workouts = {}
==============================================================================
