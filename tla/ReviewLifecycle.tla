--------------------------- MODULE ReviewLifecycle ---------------------------
(***************************************************************************)
(* The review row of one surf session, and everyone who writes it: the     *)
(* create, retry and read handlers (app/services/ai.py, app/api/reviews.py)*)
(* each with its own database session, the jobs (app/jobs.py), and the     *)
(* startup sweep of a process that boots while another may be draining.    *)
(*                                                                         *)
(* A handler reads the row in one transaction and writes it in a later     *)
(* one, so it is several steps.  A repository call that selects and        *)
(* updates in a session of its own is one.  The job runner is seen from    *)
(* outside: it accepts or rejects, and a job ends completed, failed, or    *)
(* without recording how (module JobRunner shows when).                    *)
(*                                                                         *)
(* Time is counted in ticks, as the age of the row's current attempt and   *)
(* of each job.  A row older than Threshold is stale whatever its age, so  *)
(* ages stop at Threshold + 1.                                             *)
(*                                                                         *)
(* A definition named X_Suffix stands before X and is a faulty form of it, *)
(* used to check that a property can tell the difference.                  *)
(***************************************************************************)
EXTENDS Naturals

CONSTANTS Review,     \* primary keys; a key nothing holds is free again
          Request,    \* handlers at work at once
          Job,        \* jobs alive at once
          Process,    \* API processes: two during a deploy overlap
          None,
          Timeout,    \* JOB_TIMEOUT_SEC
          Threshold,  \* STUCK_JOB_THRESHOLD_SEC
          Lag         \* bound on two delays: from a row's commit to the submit
                      \* of its job, and from a deadline to the job's end

ASSUME NoneAssumption == None \notin Review \cup Process
ASSUME TimeAssumption == /\ Timeout \in Nat
                         /\ Lag \in Nat
                         /\ Threshold \in Nat
                         /\ Timeout + 2 * Lag <= Threshold

VARIABLES session,  \* does the surf session still exist?
          row,      \* the session's review: key, status, age of the attempt
          req,      \* each handler: where it is, the row it holds, its process
          job,      \* each job: phase, row, age, process, and the status the
                    \* row had when the job loaded it
          serving,  \* the processes that are up
          lost      \* history: an owner of the row's current attempt was
                    \* killed, or ended without recording how

vars == <<session, row, req, job, serving, lost>>

-----------------------------------------------------------------------------
Status == {"absent", "processing", "completed", "failed"}
ReqPc == {"idle", "deleting", "inserting", "submitting", "rejecting",
          "resetting", "staling"}
Phase == {"none", "pending", "working", "committed"}

NoRow == [id |-> None, status |-> "absent", age |-> 0]
Idle == [pc |-> "idle", id |-> None, proc |-> None, age |-> 0]
NoJob == [phase |-> "none", id |-> None, proc |-> None, age |-> 0,
          saw |-> "absent"]

RowType == [id : Review, status : Status \ {"absent"}, age : 0..(Threshold + 1)]
ReqType == [pc : ReqPc, id : Review \cup {None}, proc : Process \cup {None},
            age : 0..Lag]
JobType == [phase : Phase, id : Review \cup {None}, proc : Process \cup {None},
            age : 0..(Timeout + Lag), saw : Status]

\* Either there is no row, or it has a key and a status; every age is bounded.
TypeOK == /\ session \in BOOLEAN
          /\ row \in RowType \cup {NoRow}
          /\ req \in [Request -> ReqType]
          /\ job \in [Job -> JobType]
          /\ serving \in SUBSET Process
          /\ lost \in BOOLEAN

RowIs(v) == row.status # "absent" /\ row.id = v

Unheld(v) == /\ ~RowIs(v)
             /\ \A r \in Request : req[r].id # v
             /\ \A j \in Job : job[j].id # v

\* A request or a job without which the row's attempt will never end.
Handling(r, v) == req[r].pc \in {"submitting", "rejecting"} /\ req[r].id = v
Working(j, v) == /\ job[j].id = v
                 /\ \/ job[j].phase = "pending"
                    \/ job[j].phase = "working" /\ job[j].saw # "completed"

\* A write by primary key.  If the row is gone the repository's assert or the
\* flush raises and nothing is written.
Set_Blind(v, status) == row' = [row EXCEPT !.status = status]
Set(v, status) ==
  row' = IF RowIs(v) THEN [row EXCEPT !.status = status] ELSE row

Enter(r, p, pc, v) ==
  req' = [req EXCEPT ![r] = [pc |-> pc, id |-> v, proc |-> p, age |-> 0]]
Becomes(r, pc) == req' = [req EXCEPT ![r].pc = pc]
Return(r) == req' = [req EXCEPT ![r] = Idle]
End(j) == job' = [job EXCEPT ![j] = NoJob]

Init == /\ session = TRUE
        /\ row = NoRow
        /\ req = [r \in Request |-> Idle]
        /\ job = [j \in Job |-> NoJob]
        /\ serving = {}
        /\ lost = FALSE

-----------------------------------------------------------------------------
(* POST /reviews/: enqueue_review reads the session's review, deletes a    *)
(* failed one, and inserts.                                                *)

\* The read.  A completed or processing review answers 409: no state changes.
CreateRead(r, p) ==
  /\ req[r] = Idle
  /\ p \in serving
  /\ session
  /\ \/ row.status = "absent" /\ Enter(r, p, "inserting", None)
     \/ row.status = "failed" /\ Enter(r, p, "deleting", row.id)
  /\ UNCHANGED <<session, row, job, serving, lost>>

\* The delete is by key: the row's status may have changed since the read.
CreateDelete(r) ==
  /\ req[r].pc = "deleting"
  /\ row' = IF RowIs(req[r].id) THEN NoRow ELSE row
  /\ req' = [req EXCEPT ![r].pc = "inserting", ![r].id = None]
  /\ UNCHANGED <<session, job, serving, lost>>

\* The insert, or the foreign key or unique constraint on session_id: a 500.
CreateInsert(r) ==
  /\ req[r].pc = "inserting"
  /\ \/ /\ session /\ row.status = "absent"
        /\ \E v \in Review :
              /\ Unheld(v)
              /\ row' = [id |-> v, status |-> "processing", age |-> 0]
              /\ Enter(r, req[r].proc, "submitting", v)
        /\ lost' = FALSE
     \/ /\ ~session \/ row.status # "absent"
        /\ Return(r)
        /\ UNCHANGED <<row, lost>>
  /\ UNCHANGED <<session, job, serving>>

-----------------------------------------------------------------------------
(* POST /reviews/{id}/retry: only a failed review, then an update by key.  *)

RetryRead_Any(r, p) ==
  /\ req[r] = Idle
  /\ p \in serving
  /\ row.status \in {"failed", "completed"}
  /\ Enter(r, p, "resetting", row.id)
  /\ UNCHANGED <<session, row, job, serving, lost>>
RetryRead(r, p) ==
  /\ req[r] = Idle
  /\ p \in serving
  /\ row.status = "failed"
  /\ Enter(r, p, "resetting", row.id)
  /\ UNCHANGED <<session, row, job, serving, lost>>

Reset_KeepsStart(r) ==
  /\ req[r].pc = "resetting"
  /\ \/ /\ RowIs(req[r].id)
        /\ row' = [row EXCEPT !.status = "processing"]
        /\ Becomes(r, "submitting")
        /\ lost' = FALSE
     \/ /\ ~RowIs(req[r].id)
        /\ Return(r)
        /\ UNCHANGED <<row, lost>>
  /\ UNCHANGED <<session, job, serving>>

\* The update restarts the clock.  A row deleted since the read is a 500.
Reset(r) ==
  /\ req[r].pc = "resetting"
  /\ \/ /\ RowIs(req[r].id)
        /\ row' = [row EXCEPT !.status = "processing", !.age = 0]
        /\ Becomes(r, "submitting")
        /\ lost' = FALSE
     \/ /\ ~RowIs(req[r].id)
        /\ Return(r)
        /\ UNCHANGED <<row, lost>>
  /\ UNCHANGED <<session, job, serving>>

-----------------------------------------------------------------------------
(* _submit_review_job, after the commit of either handler.                 *)

Accepted(r) ==
  /\ \E j \in Job :
        /\ job[j] = NoJob
        /\ job' = [job EXCEPT ![j] = [phase |-> "pending", id |-> req[r].id,
                                      proc |-> req[r].proc, age |-> 0,
                                      saw |-> "absent"]]
  /\ Return(r)

Rejected_Unmarked(r) == Return(r) /\ UNCHANGED job

\* mark_failed then writes a status other than the one the refresh loaded.
Rejected(r) ==
  /\ IF row.status = "failed" THEN Return(r) ELSE Becomes(r, "rejecting")
  /\ UNCHANGED job

\* The commit is followed by a refresh, which raises if the row is gone.  The
\* runner rejects when its queue is full or its process is closing.
Submit(r) ==
  /\ req[r].pc = "submitting"
  /\ \/ RowIs(req[r].id) /\ (Accepted(r) \/ Rejected(r))
     \/ ~RowIs(req[r].id) /\ Return(r) /\ UNCHANGED job
  /\ UNCHANGED <<session, row, serving, lost>>

RejectMark(r) ==
  /\ req[r].pc = "rejecting"
  /\ Set(req[r].id, "failed")
  /\ Return(r)
  /\ UNCHANGED <<session, job, serving, lost>>

-----------------------------------------------------------------------------
(* GET of the review: _fail_if_stale.                                      *)

StaleOnRead_Never == FALSE
StaleOnRead == row.status = "processing" /\ row.age > Threshold

\* A read that finds the row stale.  Any other read changes nothing.
PollRead(r, p) ==
  /\ req[r] = Idle
  /\ p \in serving
  /\ StaleOnRead
  /\ Enter(r, p, "staling", row.id)
  /\ UNCHANGED <<session, row, job, serving, lost>>

StaleMark(r) ==
  /\ req[r].pc = "staling"
  /\ Set(req[r].id, "failed")
  /\ Return(r)
  /\ UNCHANGED <<session, job, serving, lost>>

\* A database error answers 500 wherever the handler is.  After the commit of the
\* create or the retry, in the refresh that follows it or in mark_failed, it leaves
\* a row in 'processing' with nobody to end it.
HandlerBreaks(r) ==
  /\ req[r].pc # "idle"
  /\ Return(r)
  /\ lost' = (lost \/ Handling(r, row.id))
  /\ UNCHANGED <<session, row, job, serving>>

\* DELETE of the session, whose review goes by cascade.
DeleteSession ==
  /\ serving # {}
  /\ session
  /\ session' = FALSE
  /\ row' = NoRow
  /\ UNCHANGED <<req, job, serving, lost>>

-----------------------------------------------------------------------------
(* A job: process_review_task in its own database session.                 *)

\* process_review loads the row, which stays in the session's identity map.
JobLoad(j) ==
  /\ job[j].phase = "pending"
  /\ RowIs(job[j].id)
  /\ job' = [job EXCEPT ![j].phase = "working", ![j].saw = row.status]
  /\ UNCHANGED <<session, row, req, serving, lost>>

\* mark_completed assigns the status on the loaded object: the update carries
\* it only where it differs from what was loaded.
JobComplete(j) ==
  /\ job[j].phase = "working"
  /\ RowIs(job[j].id)
  /\ row' = IF job[j].saw = "completed" THEN row
            ELSE [row EXCEPT !.status = "completed"]
  /\ job' = [job EXCEPT ![j].phase = "committed"]
  /\ UNCHANGED <<session, req, serving, lost>>

JobEnd(j) ==
  /\ job[j].phase = "committed"
  /\ End(j)
  /\ UNCHANGED <<session, row, req, serving, lost>>

\* mark_review_failed from a session of its own: the wait or run deadline, a
\* shutdown, an exception.  A deadline may still fire after mark_completed.
JobFail(j) ==
  /\ job[j].phase # "none"
  /\ Set(job[j].id, "failed")
  /\ End(j)
  /\ UNCHANGED <<session, req, serving, lost>>

\* The write of the failure raises, or a second cancellation cuts it short.
JobVanish(j) ==
  /\ job[j].phase # "none"
  /\ lost' = (lost \/ RowIs(job[j].id))
  /\ End(j)
  /\ UNCHANGED <<session, row, req, serving>>

-----------------------------------------------------------------------------
(* Processes and time.                                                     *)

Stale == row.status = "processing" /\ row.age > Threshold

Sweep == row' = IF Stale THEN [row EXCEPT !.status = "failed"] ELSE row

\* A process sweeps, then serves.  A sweep that raises or times out is logged.
Boot(p) ==
  /\ p \notin serving
  /\ serving' = serving \cup {p}
  /\ Sweep \/ UNCHANGED row
  /\ UNCHANGED <<session, req, job, lost>>

\* A hard kill, or a shutdown whose drain ran out: nothing more is recorded.
Crash(p) ==
  /\ p \in serving
  /\ serving' = serving \ {p}
  /\ req' = [r \in Request |-> IF req[r].proc = p THEN Idle ELSE req[r]]
  /\ job' = [j \in Job |-> IF job[j].proc = p THEN NoJob ELSE job[j]]
  /\ lost' = \/ lost
             \/ \E r \in Request : req[r].proc = p /\ Handling(r, row.id)
             \/ \E j \in Job : job[j].proc = p /\ Working(j, row.id)
  /\ UNCHANGED <<session, row>>

\* A job ends within Lag of its deadline; a handler submits within Lag.
Tick ==
  /\ \A j \in Job : job[j].phase # "none" => job[j].age < Timeout + Lag
  /\ \A r \in Request : req[r].pc = "submitting" => req[r].age < Lag
  /\ row' = IF row.status = "absent" \/ row.age > Threshold THEN row
            ELSE [row EXCEPT !.age = @ + 1]
  /\ req' = [r \in Request |->
               IF req[r].pc = "submitting" THEN [req[r] EXCEPT !.age = @ + 1]
               ELSE req[r]]
  /\ job' = [j \in Job |->
               IF job[j].phase = "none" THEN job[j]
               ELSE [job[j] EXCEPT !.age = @ + 1]]
  /\ UNCHANGED <<session, serving, lost>>

Arrive(r, p) == CreateRead(r, p) \/ RetryRead(r, p) \/ PollRead(r, p)

Handle(r) == \/ CreateDelete(r) \/ CreateInsert(r) \/ Reset(r) \/ Submit(r)
             \/ RejectMark(r) \/ StaleMark(r)

JobStep(j) == JobLoad(j) \/ JobComplete(j) \/ JobEnd(j) \/ JobFail(j)

Next ==
  \/ \E r \in Request : Handle(r) \/ HandlerBreaks(r) \/ \E p \in Process : Arrive(r, p)
  \/ \E j \in Job : JobStep(j) \/ JobVanish(j)
  \/ \E p \in Process : Boot(p) \/ Crash(p)
  \/ DeleteSession \/ Tick

Spec == Init /\ [][Next]_vars

\* Time passes, handlers and jobs end (JobRunner's JobsEnd), a dead process is
\* restarted, and a client that keeps polling a stale review gets through in
\* the end, however often the process dies between its read and its write.
FairSpec ==
  /\ Spec
  /\ WF_vars(Tick)
  /\ \A r \in Request : WF_vars(Handle(r))
  /\ \A j \in Job : WF_vars(JobStep(j))
  /\ WF_vars(\E p \in Process : Boot(p))
  /\ SF_vars(\E r \in Request, p \in Process : PollRead(r, p))
  /\ SF_vars(\E r \in Request : StaleMark(r))

-----------------------------------------------------------------------------
(* Properties.                                                             *)

\* A row in 'processing' always has a request that will submit or reject it, or
\* a job that will record how it ended, unless that owner was killed or met a
\* database error.  Requests may race: two retries, a retry and a delete, a late
\* completion and a reset.
NoOrphanProcessing ==
  row.status = "processing" =>
     \/ lost
     \/ \E r \in Request : Handling(r, row.id)
     \/ \E j \in Job : Working(j, row.id)

\* A stale row has been given up: no job of it is alive and no handler has yet to
\* submit one, in any process; its owner was lost, or is writing its failure.  So
\* what the sweep and the reads look for by age is what they are meant to find.
StaleMeansLost ==
  Stale => /\ \A j \in Job : job[j].phase # "none" => job[j].id # row.id
           /\ \A r \in Request : req[r].pc = "submitting" => req[r].id # row.id
           /\ \/ lost
              \/ \E r \in Request : req[r].pc = "rejecting" /\ req[r].id = row.id

\* The startup sweep never fails the row of a live job, even one that belongs
\* to another process which is still draining: what StaleMeansLost is there for.
SweepSparesLiveJobs ==
  [][\A p \in Process : Boot(p) /\ row' # row
        => \A j \in Job : job[j].phase # "none" => job[j].id # row.id]_vars

\* A completed review that no handler or job of before still holds.
Settled == /\ row.status = "completed"
           /\ \A r \in Request : req[r].id # row.id
           /\ \A j \in Job : job[j].id # row.id

\* Whoever undoes a completed review began before it was complete: once they are
\* through, no create, retry, read or sweep gets at it, and it goes only with its
\* session.
CompletedIsFinal ==
  [][Settled => \/ Settled' /\ row'.id = row.id
                \/ row' = NoRow /\ ~session']_vars

\* A row never stays in 'processing' for ever while its owner polls it, however
\* its job was lost.
StuckRowsSettle == row.status = "processing" ~> row.status # "processing"

\* After a hard kill, the sweep of the next boot fails every row that the dead
\* process left in 'processing' (docs/SPEC_BACKEND_Merge_Worker_Into_API.md).
SweepCatchesAll ==
  [][\A p \in Process : Boot(p) /\ serving = {} /\ Sweep
        => row'.status # "processing"]_vars

\* The check on reads fails only rows that a hard kill left behind: the row it
\* marks has no live job (the comment of _stale_processing_age_sec).
ReadSparesLiveJobs ==
  [][\A r \in Request : StaleMark(r) /\ row.status = "processing" /\ row' # row
        => \A j \in Job : ~Working(j, row.id)]_vars
==============================================================================
