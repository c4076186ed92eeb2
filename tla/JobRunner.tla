------------------------------ MODULE JobRunner ------------------------------
(***************************************************************************)
(* The in-process job runner (app/core/jobs.py) together with the task     *)
(* functions it runs (app/jobs.py) and the route helper that submits to it *)
(* (app/api/reviews.py, app/api/ai.py).                                    *)
(*                                                                         *)
(* A Job is one submission.  Its database row is already 'processing' when *)
(* the route calls submit.  An action is what one asyncio task does        *)
(* between two awaits, a timer that fires, or a database write taking      *)
(* effect.  A CancelledError is first requested (a timer or close() calls  *)
(* task.cancel()) and delivered when the task next runs: until then the    *)
(* task is in `hit'.                                                       *)
(*                                                                         *)
(* A definition named X_Suffix stands before X and is a faulty form of it, *)
(* used to check that a property can tell the difference.                  *)
(***************************************************************************)
EXTENDS Naturals, Sequences, FiniteSets

CONSTANTS Job,            \* the submissions of one process lifetime
          MaxConcurrent,  \* JOBS_MAX_CONCURRENT
          MaxQueued,      \* JOBS_MAX_QUEUED
          DBMayFail,      \* may a mark_failed write, or closing a session, raise?
          DrainMayExpire  \* may CANCEL_DRAIN_SEC run out on a pending job?

ASSUME LimitsAssumption == /\ MaxConcurrent \in Nat \ {0}
                           /\ MaxQueued \in Nat \ {0}
ASSUME FaultsAssumption == DBMayFail \in BOOLEAN /\ DrainMayExpire \in BOOLEAN

VARIABLES pc,       \* where each job's task is suspended
          hit,      \* jobs with a CancelledError requested and not delivered
          cause,    \* who has cancelled each job so far: its timer, close()
          result,   \* how fn ended; "raised" is any error that escaped it
          mark,     \* the mark_failed write in flight for each row
          row,      \* each row's status; a failed row is its error message
          outcome,  \* what the job.finished event of each job said
          raised,   \* history: jobs whose fn met an exception of its own
          slots,    \* value of the semaphore _slots
          waiters,  \* its queue of waiting futures
          waiting,  \* the counter _waiting
          running,  \* _running_tasks
          closer    \* progress of close(); _closed is closer # "open"

taskVars == <<pc, hit, cause, result, outcome, raised>>
dbVars == <<mark, row>>
semVars == <<slots, waiters>>
vars == <<pc, hit, cause, result, mark, row, outcome, raised, slots, waiters,
          waiting, running, closer>>

-----------------------------------------------------------------------------
(* Messages, states of a task, and the sets of jobs they make.             *)

Message == {"busy", "timeout", "sweep", "friendly", "enqueue_failed"}
Terminal == Message \cup {"completed"}
Cause == {"timer", "close"}
Outcome == {"rejected_busy", "wait_timeout", "cancelled_waiting", "succeeded",
            "failed", "run_timeout", "cancelled_running"}

\* _run before it owns a slot: not started yet, its future pending, its future
\* resolved by a release, its future cancelled.
WaitPc == {"created", "queued", "granted", "dropped"}

\* fn and what follows it: before mark_completed's commit, after it, writing
\* the failure of an exception, writing that of a cancellation, closing its
\* database session.
RunPc == {"working", "committed", "failing", "cancelling", "leaving"}

Pc == {"new", "rejected", "unstarted", "done"} \cup WaitPc \cup RunPc

In(S) == {j \in Job : pc[j] \in S}
Live == In(WaitPc \cup RunPc \cup {"unstarted"})    \* the set _tasks
Closed == closer # "open"
Up == closer # "exited"
InFlight(j) == mark[j] \in Message

Init == /\ pc = [j \in Job |-> "new"]
        /\ hit = {}
        /\ cause = [j \in Job |-> {}]
        /\ result = [j \in Job |-> "none"]
        /\ mark = [j \in Job |-> "none"]
        /\ row = [j \in Job |-> "processing"]
        /\ outcome = [j \in Job |-> "none"]
        /\ raised = {}
        /\ slots = MaxConcurrent
        /\ waiters = <<>>
        /\ waiting = 0
        /\ running = {}
        /\ closer = "open"

-----------------------------------------------------------------------------
(* asyncio.Semaphore (CPython 3.12): FIFO, with hand-off of a released     *)
(* slot to the first waiter whose future is still pending.                 *)

Locked == slots = 0 \/ \E i \in 1..Len(waiters) : pc[waiters[i]] # "dropped"

FirstPending_Any(w) == \E i \in 1..Len(waiters) : waiters[i] = w /\ pc[w] = "queued"

FirstPending(w) ==
  \E i \in 1..Len(waiters) :
     /\ waiters[i] = w
     /\ pc[w] = "queued"
     /\ \A k \in 1..(i-1) : pc[waiters[k]] # "queued"

WakeNext_Lost(pcs, free) == pc' = pcs /\ slots' = free

\* Wake the first pending waiter if a slot is free; pcs and free are the
\* tasks' states and the semaphore's value after the caller's own step.
WakeNext(pcs, free) ==
  \/ /\ free > 0
     /\ \E w \in Job : /\ FirstPending(w)
                       /\ pc' = [pcs EXCEPT ![w] = "granted"]
                       /\ slots' = free - 1
  \/ /\ free = 0 \/ \A w \in Job : ~FirstPending(w)
     /\ pc' = pcs
     /\ slots' = free

\* Remove the job's future from the queue.
Forget(j) ==
  \E i \in 1..Len(waiters) :
     /\ waiters[i] = j
     /\ waiters' = SubSeq(waiters, 1, i-1) \o SubSeq(waiters, i+1, Len(waiters))

\* A granted slot that its job will not use goes to the next waiter.
ReturnSlot_Lost(j) == WakeNext([pc EXCEPT ![j] = "unstarted"], slots)
ReturnSlot(j) == WakeNext([pc EXCEPT ![j] = "unstarted"], slots + 1)

-----------------------------------------------------------------------------
(* The route: submit, or mark the row when the runner does not accept.     *)

Accept_Uncounted(j) ==
  /\ ~Closed
  /\ waiting < MaxQueued
  /\ pc' = [pc EXCEPT ![j] = "created"]
  /\ UNCHANGED <<waiting, mark, outcome>>

Accept_AfterClose(j) ==
  /\ waiting < MaxQueued
  /\ waiting' = waiting + 1
  /\ pc' = [pc EXCEPT ![j] = "created"]
  /\ UNCHANGED <<mark, outcome>>

Accept_OffByOne(j) ==
  /\ ~Closed
  /\ waiting <= MaxQueued
  /\ waiting' = waiting + 1
  /\ pc' = [pc EXCEPT ![j] = "created"]
  /\ UNCHANGED <<mark, outcome>>

Accept(j) ==
  /\ ~Closed
  /\ waiting < MaxQueued
  /\ waiting' = waiting + 1
  /\ pc' = [pc EXCEPT ![j] = "created"]
  /\ UNCHANGED <<mark, outcome>>

Reject(j, message) ==
  /\ pc' = [pc EXCEPT ![j] = "rejected"]
  /\ mark' = [mark EXCEPT ![j] = message]
  /\ UNCHANGED waiting

Submit(j) ==
  /\ Up
  /\ pc[j] = "new"
  /\ \/ Accept(j)
     \/ /\ ~Closed
        /\ waiting >= MaxQueued
        /\ Reject(j, "busy")
        /\ outcome' = [outcome EXCEPT ![j] = "rejected_busy"]
     \/ /\ Closed
        /\ Reject(j, "enqueue_failed")
        /\ UNCHANGED outcome
  /\ UNCHANGED <<hit, cause, result, row, raised, semVars, running, closer>>

\* The route's own mark_failed returned (202) or raised (500).
RejectionReturns(j) ==
  /\ Up
  /\ pc[j] = "rejected"
  /\ ~InFlight(j)
  /\ pc' = [pc EXCEPT ![j] = "done"]
  /\ UNCHANGED <<hit, cause, result, outcome, raised, dbVars, semVars,
                 waiting, running, closer>>

-----------------------------------------------------------------------------
(* mark_failed writes.  The row's previous status is not looked at.        *)

MarkWritten(j) ==
  /\ Up
  /\ InFlight(j)
  /\ row' = [row EXCEPT ![j] = mark[j]]
  /\ mark' = [mark EXCEPT ![j] = "none"]
  /\ UNCHANGED <<taskVars, semVars, waiting, running, closer>>

\* The call raises: at its commit or before it, or after a commit that took
\* effect, in the refresh of the row or the closing of its session.
MarkRaises(j) ==
  /\ Up
  /\ DBMayFail
  /\ InFlight(j)
  /\ mark' = [mark EXCEPT ![j] = "error"]
  /\ \/ UNCHANGED row
     \/ row' = [row EXCEPT ![j] = mark[j]]
  /\ UNCHANGED <<taskVars, semVars, waiting, running, closer>>

-----------------------------------------------------------------------------
(* Cancellation requests.  Cancelling a pending future cancels it, so a     *)
(* later release skips it; one already resolved keeps its slot until the    *)
(* task runs.  A task cancelled before its first step never enters _run.    *)

AfterCancel(state) == CASE state = "queued" -> "dropped"
                        [] state = "created" -> "done"
                        [] OTHER -> state

Cancel(targets, c) ==
  /\ cause' = [j \in Job |-> IF j \in targets THEN cause[j] \cup {c} ELSE cause[j]]
  /\ hit' = hit \cup (targets \ In({"created"}))
  /\ pc' = [j \in Job |-> IF j \in targets THEN AfterCancel(pc[j]) ELSE pc[j]]
  /\ UNCHANGED <<result, outcome, raised, dbVars, semVars, waiting, running>>

Timer_WaitOnly(j) ==
  /\ Up
  /\ pc[j] \in {"queued", "granted", "dropped"}
  /\ "timer" \notin cause[j]
  /\ Cancel({j}, "timer")
  /\ UNCHANGED closer

\* asyncio.timeout around the wait (max_wait_sec), then around the run (what
\* is left until the deadline).
Timer(j) ==
  /\ Up
  /\ pc[j] \in {"queued", "granted", "dropped"} \cup RunPc
  /\ "timer" \notin cause[j]
  /\ Cancel({j}, "timer")
  /\ UNCHANGED closer

-----------------------------------------------------------------------------
(* _run, phase 1: wait for a slot.                                         *)

\* The counter and the set change in the same step as the slot is taken.
EnterRun(j) == /\ waiting' = waiting - 1
               /\ running' = running \cup {j}

TakeFreeSlot(j) ==
  /\ ~Locked
  /\ slots' = slots - 1
  /\ pc' = [pc EXCEPT ![j] = "working"]
  /\ EnterRun(j)
  /\ UNCHANGED waiters

JoinQueue(j) ==
  /\ Locked
  /\ waiters' = Append(waiters, j)
  /\ pc' = [pc EXCEPT ![j] = "queued"]
  /\ UNCHANGED <<slots, waiting, running>>

FirstStep(j) ==
  /\ Up
  /\ pc[j] = "created"
  /\ TakeFreeSlot(j) \/ JoinQueue(j)
  /\ UNCHANGED <<hit, cause, result, outcome, raised, dbVars, closer>>

Acquired(j) ==
  /\ Up
  /\ pc[j] = "granted"
  /\ j \notin hit
  /\ Forget(j)
  /\ WakeNext([pc EXCEPT ![j] = "working"], slots)
  /\ EnterRun(j)
  /\ UNCHANGED <<hit, cause, result, outcome, raised, dbVars, closer>>

\* acquire raised: give a granted slot back, stop counting as waiting and
\* start the shielded on_failure.
WaitCancelled(j) ==
  /\ Up
  /\ j \in hit
  /\ Forget(j)
  /\ waiting' = waiting - 1
  /\ \/ /\ pc[j] = "granted"
        /\ ReturnSlot(j)
     \/ /\ pc[j] = "dropped"
        /\ pc' = [pc EXCEPT ![j] = "unstarted"]
        /\ UNCHANGED slots
  /\ mark' = [mark EXCEPT ![j] = IF "close" \in cause[j] THEN "sweep" ELSE "busy"]
  /\ hit' = hit \ {j}
  /\ UNCHANGED <<cause, result, outcome, raised, row, running, closer>>

\* on_failure ended (an exception of it is swallowed): log and leave.
UnstartedMarked(j) ==
  /\ Up
  /\ pc[j] = "unstarted"
  /\ j \notin hit
  /\ ~InFlight(j)
  /\ pc' = [pc EXCEPT ![j] = "done"]
  /\ outcome' = [outcome EXCEPT ![j] = IF "close" \in cause[j]
                                       THEN "cancelled_waiting"
                                       ELSE "wait_timeout"]
  /\ UNCHANGED <<hit, cause, result, raised, dbVars, semVars, waiting,
                 running, closer>>

\* Cancelled while it awaits the shield: the write goes on with nobody waiting
\* for it, and _log_finished is not reached.
UnstartedInterrupted(j) ==
  /\ Up
  /\ pc[j] = "unstarted"
  /\ j \in hit
  /\ hit' = hit \ {j}
  /\ pc' = [pc EXCEPT ![j] = "done"]
  /\ UNCHANGED <<cause, result, outcome, raised, dbVars, semVars, waiting,
                 running, closer>>

-----------------------------------------------------------------------------
(* fn: the task function around process_review / process_training_plan.    *)

Complete_Late(j) ==
  /\ Up
  /\ pc[j] \in {"working", "cancelling"}
  /\ j \notin hit
  /\ row' = [row EXCEPT ![j] = "completed"]
  /\ pc' = [pc EXCEPT ![j] = "committed"]
  /\ UNCHANGED <<hit, cause, result, outcome, raised, mark, semVars, waiting,
                 running, closer>>

\* mark_completed's commit takes effect.
Complete(j) ==
  /\ Up
  /\ pc[j] = "working"
  /\ j \notin hit
  /\ row' = [row EXCEPT ![j] = "completed"]
  /\ pc' = [pc EXCEPT ![j] = "committed"]
  /\ UNCHANGED <<hit, cause, result, outcome, raised, mark, semVars, waiting,
                 running, closer>>

\* _friendly_message: one of ERROR_MESSAGES, or SWEEP_MESSAGE for any other class.
FriendlyMessage == {"friendly", "sweep"}

\* An exception of process_review itself, the refresh after the commit
\* included: the except block starts an unshielded mark_failed.
Raise(j) ==
  /\ Up
  /\ pc[j] \in {"working", "committed"}
  /\ j \notin hit
  /\ \E m \in FriendlyMessage : mark' = [mark EXCEPT ![j] = m]
  /\ pc' = [pc EXCEPT ![j] = "failing"]
  /\ raised' = raised \cup {j}
  /\ UNCHANGED <<hit, cause, result, outcome, row, semVars, waiting, running,
                 closer>>

Leave_Retry(j, r) ==
  /\ pc' = [pc EXCEPT ![j] = IF r = "false" THEN "working" ELSE "leaving"]
  /\ result' = [result EXCEPT ![j] = IF r = "false" THEN "none" ELSE r]

\* fn ends as r and its finally block closes the session.
Leave(j, r) ==
  /\ pc' = [pc EXCEPT ![j] = "leaving"]
  /\ result' = [result EXCEPT ![j] = r]

Return(j) ==
  /\ Up
  /\ j \notin hit
  /\ \/ pc[j] = "committed" /\ Leave(j, "true")
     \/ /\ pc[j] = "failing"
        /\ ~InFlight(j)
        /\ Leave(j, IF mark[j] = "error" THEN "raised" ELSE "false")
     \/ /\ pc[j] = "cancelling"
        /\ ~InFlight(j)
        /\ Leave(j, IF mark[j] = "error" THEN "raised" ELSE "cancelled")
  /\ UNCHANGED <<hit, cause, outcome, raised, dbVars, semVars, waiting,
                 running, closer>>

CancellationMessage_Blind == "timeout"
CancellationMessage == IF Closed THEN "sweep" ELSE "timeout"

Interrupt_Swallowed(j) ==
  /\ Up
  /\ j \in hit
  /\ pc[j] \in RunPc \ {"leaving"}
  /\ hit' = hit \ {j}
  /\ UNCHANGED <<pc, cause, result, outcome, raised, dbVars, semVars, waiting,
                 running, closer>>

\* A CancelledError reaches fn: inside process_review it starts the shielded
\* mark_failed, inside the except block it kills that block's own write, and
\* while the shielded write is awaited it leaves that write alone.
Interrupt(j) ==
  /\ Up
  /\ j \in hit
  /\ hit' = hit \ {j}
  /\ \/ /\ pc[j] \in {"working", "committed"}
        /\ pc' = [pc EXCEPT ![j] = "cancelling"]
        /\ mark' = [mark EXCEPT ![j] = CancellationMessage]
        /\ UNCHANGED result
     \/ /\ pc[j] = "failing"
        /\ Leave(j, "cancelled")
        /\ mark' = [mark EXCEPT ![j] = IF InFlight(j) THEN "none" ELSE mark[j]]
     \/ /\ pc[j] = "cancelling"
        /\ Leave(j, "cancelled")
        /\ UNCHANGED mark
  /\ UNCHANGED <<cause, outcome, raised, row, semVars, waiting, running, closer>>

-----------------------------------------------------------------------------
(* _run, phase 2: what it makes of fn's end.                               *)

OutcomesOf_TimerFirst(r, causes) ==
  CASE r = "true" -> {"succeeded"}
    [] r = "false" -> {"failed"}
    [] r = "raised" -> {"failed", "run_timeout"}
    [] "timer" \in causes -> {"run_timeout"}
    [] OTHER -> {"cancelled_running"}

\* asyncio.timeout turns a CancelledError into TimeoutError only when nobody
\* else has cancelled the task.  An error that escapes fn may be a TimeoutError of
\* its own, say of connecting to the database, and is logged like the deadline.
OutcomesOf(r, causes) ==
  CASE r = "true" -> {"succeeded"}
    [] r = "false" -> {"failed"}
    [] r = "raised" -> {"failed", "run_timeout"}
    [] r = "cancelled" /\ "close" \in causes -> {"cancelled_running"}
    [] OTHER -> {"run_timeout"}

\* A cancellation that arrives while fn closes its session replaces its result,
\* and so does an error of closing it.
Ends(j) == {IF j \in hit THEN "cancelled" ELSE result[j]}
           \cup (IF DBMayFail THEN {"raised"} ELSE {})

Finish(j) ==
  /\ Up
  /\ pc[j] = "leaving"
  /\ \E r \in Ends(j) : \E o \in OutcomesOf(r, cause[j]) :
        /\ result' = [result EXCEPT ![j] = r]
        /\ outcome' = [outcome EXCEPT ![j] = o]
  /\ hit' = hit \ {j}
  /\ running' = running \ {j}
  /\ WakeNext([pc EXCEPT ![j] = "done"], slots + 1)
  /\ UNCHANGED <<cause, raised, dbVars, waiters, waiting, closer>>

-----------------------------------------------------------------------------
(* close(), and the end of the process after it.                           *)

CloseStart ==
  /\ closer = "open"
  /\ closer' = IF Live = {} THEN "closed" ELSE "yield"
  /\ UNCHANGED <<taskVars, dbVars, semVars, waiting, running>>

\* sleep(0) returns only after every task created before it has run once.
YieldOver_Skipped == TRUE
YieldOver == In({"created"}) = {}

\* Nothing is submitted any more, so the snapshot `tasks' is Live here, and
\* the running list is `running' until its tasks are done.
CloseCancelWaiting ==
  /\ closer = "yield"
  /\ YieldOver
  /\ Cancel(Live \ running, "close")
  /\ closer' = IF running = {} THEN "drain" ELSE "grace"

\* asyncio.wait(running, shutdown_grace_sec) returned: all done, or timed out.
GraceEnd ==
  /\ closer = "grace"
  /\ Cancel(running, "close")
  /\ closer' = "drain"

DrainEnd ==
  /\ closer = "drain"
  /\ Live = {} \/ DrainMayExpire
  /\ closer' = "closed"
  /\ UNCHANGED <<taskVars, dbVars, semVars, waiting, running>>

\* lifespan disposes the engine and the process ends.
Exit ==
  /\ closer = "closed"
  /\ closer' = "exited"
  /\ UNCHANGED <<taskVars, dbVars, semVars, waiting, running>>

Stopped == ~Up /\ UNCHANGED vars

-----------------------------------------------------------------------------

\* Steps a task takes by itself once what it awaits is there.
TaskStep(j) == \/ RejectionReturns(j) \/ FirstStep(j) \/ Acquired(j)
               \/ WaitCancelled(j) \/ UnstartedMarked(j)
               \/ UnstartedInterrupted(j) \/ Return(j) \/ Interrupt(j)
               \/ Finish(j)

Write(j) == MarkWritten(j) \/ MarkRaises(j)

CloseStep == CloseCancelWaiting \/ GraceEnd \/ DrainEnd \/ Exit

Next == \/ \E j \in Job : \/ Submit(j) \/ TaskStep(j) \/ Write(j)
                          \/ Complete(j) \/ Raise(j) \/ Timer(j)
        \/ CloseStart \/ CloseStep \/ Stopped

Spec == Init /\ [][Next]_vars

\* The event loop runs ready tasks and fires due timers; the database answers
\* or fails; close() resumes.  Gemini may never answer, nobody has to submit
\* and nobody has to stop the process.
Fairness == /\ \A j \in Job : /\ WF_vars(TaskStep(j))
                              /\ WF_vars(Timer(j))
                              /\ WF_vars(Write(j))
            /\ WF_vars(CloseStep)

FairSpec == Spec /\ Fairness

-----------------------------------------------------------------------------
(* Properties.                                                             *)

\* Every variable has its type; _waiting and the semaphore never go below 0.
TypeOK == /\ pc \in [Job -> Pc]
          /\ hit \subseteq Job
          /\ cause \in [Job -> SUBSET Cause]
          /\ result \in [Job -> {"none", "true", "false", "raised", "cancelled"}]
          /\ mark \in [Job -> Message \cup {"none", "error"}]
          /\ row \in [Job -> Terminal \cup {"processing"}]
          /\ outcome \in [Job -> Outcome \cup {"none"}]
          /\ raised \subseteq Job
          /\ slots \in Nat
          /\ waiters \in Seq(Job)
          /\ waiting \in Nat
          /\ running \subseteq Job
          /\ closer \in {"open", "yield", "grace", "drain", "closed", "exited"}

Holders == In(RunPc \cup {"granted"})

\* A slot is never lost and never created: the semaphore's value and the jobs
\* that run, or have been handed a slot and not yet run, make MaxConcurrent.
SlotsConserved == slots + Cardinality(Holders) = MaxConcurrent

\* The counter that submit compares with max_queued counts exactly the jobs
\* without a slot, on every way out of the wait, and both limits hold.
AdmissionBounds == /\ waiting = Cardinality(In(WaitPc))
                   /\ waiting <= MaxQueued
                   /\ running = In(RunPc)
                   /\ Cardinality(running) <= MaxConcurrent

\* A job waits while a slot is free only if another job, already granted one,
\* is about to run and pass the wake-up on.
NoLostWakeup == slots > 0 /\ In({"queued"}) # {} => In({"granted"}) # {}

Before(i, j) == \E k, l \in 1..Len(waiters) : k < l /\ waiters[k] = i /\ waiters[l] = j

\* A job never starts while one that joined the queue before it, or any job of
\* the queue when it did not join, is still waiting to be woken.
NoOvertaking ==
  [][\A j \in running' \ running, i \in In({"queued"}) : Before(j, i)]_vars

\* The user is told the real reason: "busy" only for a job that never entered
\* fn, "took too long" only after its own deadline fired while it ran, "could
\* not be started" only while closing, and "interrupted" only while closing or
\* after an unexpected exception of its own.  The event then says the same, or
\* names close(), unless an error escaped fn once the message was decided.
TruthfulMessages ==
  \A j \in Job :
     /\ row[j] = "busy" => pc[j] \notin WaitPc \cup RunPc /\ j \notin raised
                           /\ outcome[j] \in {"none", "rejected_busy", "wait_timeout"}
     /\ row[j] = "timeout" => /\ "timer" \in cause[j]
                              /\ pc[j] \in {"cancelling", "leaving", "done"}
                              /\ \/ outcome[j] \in {"none", "run_timeout", "cancelled_running"}
                                 \/ outcome[j] = "failed" /\ result[j] = "raised"
     /\ row[j] = "enqueue_failed" => Closed /\ outcome[j] = "none"
     /\ row[j] = "sweep" => Closed \/ j \in raised

\* A job that has ended left its row terminal, unless the failure write raised, or
\* a cancellation reached the except block of an exception of fn's own, or both
\* its timer and close() cancelled it and the shielded write is still under way.
NoSilentLoss ==
  \A j \in Job :
     pc[j] = "done" /\ row[j] = "processing" =>
        \/ j \in raised /\ cause[j] # {}
        \/ mark[j] = "error"
        \/ InFlight(j) /\ cause[j] = Cause

\* The job.finished event agrees with the row and with what ended the job: success
\* means completed, and a completed row is reported otherwise only if the job was
\* cancelled or an error escaped fn, and never as a wait that ended; a timeout is
\* the job's deadline alone or an error that escaped fn, and close() is blamed only
\* for what it cancelled.
OutcomeAgrees ==
  \A j \in Job :
     /\ outcome[j] = "succeeded" => row[j] = "completed"
     /\ row[j] = "completed" =>
           \/ outcome[j] \in {"none", "succeeded"}
           \/ /\ outcome[j] \in {"failed", "run_timeout", "cancelled_running"}
              /\ cause[j] # {} \/ result[j] = "raised"
     /\ outcome[j] = "run_timeout" => cause[j] = {"timer"} \/ result[j] = "raised"
     /\ outcome[j] = "cancelled_running" => "close" \in cause[j]

\* A submission ends without its job.finished event (app/core/jobs.py:257) only
\* if close() had refused it, or if both its timer and close() cancelled it, the
\* second one while the failure of its wait was being written.
EventLostOnlyTwiceCancelled ==
  \A j \in Job :
     pc[j] = "done" /\ outcome[j] = "none" =>
        \/ cause[j] = {} /\ Closed /\ row[j] \in {"processing", "enqueue_failed"}
        \/ cause[j] = Cause

\* Every accepted job's task ends, whatever Gemini does, or the process exits.
JobsEnd == \A j \in Job : pc[j] = "created" ~> (pc[j] = "done" \/ ~Up)

\* close() returns and the process can exit, without CANCEL_DRAIN_SEC having to
\* expire, even when every job hangs in Gemini.
CloseReturns == Closed ~> ~Up

\* The contract's state, read off the runner's: submissions that are over for the
\* runner, and how far close() has come.
Past == In({"rejected", "unstarted", "done"})
Phase == IF closer = "open" THEN "open"
         ELSE IF closer = "yield" THEN "closing" ELSE "draining"

\* The runner implements its contract.
Admission == INSTANCE JobAdmission
               WITH queue <- In(WaitPc), active <- running, past <- Past,
                    phase <- Phase
ImplementsAdmission == Admission!ASpec

\* A job that is not over and that nobody has cancelled has a timer; a job that
\* was cancelled has met its cancellation or is about to; and a job that awaits a
\* write, a slot it was handed or nothing at all goes on by itself.
CanMove(j) ==
  \/ InFlight(j)
  \/ pc[j] \in {"rejected", "created", "granted", "unstarted", "failing",
               "cancelling", "leaving"}
  \/ pc[j] = "committed" /\ j \notin hit
  \/ j \in hit /\ pc[j] \in {"dropped", "working", "committed"}
  \/ cause[j] = {} /\ pc[j] \in {"queued", "working"}

\* A job never hangs: whatever order its timer, close() and its writes come in,
\* until it is over it has a next step that needs no other job, not even for a
\* slot, and no answer of Gemini.  In particular no cancellation is swallowed.
NobodyIsStuck == Up => \A j \in Job : pc[j] \in {"new", "done"} \/ CanMove(j)

\* How far a job has come.  Between two states of its task it may be cancelled
\* twice and see one write end.
Stage == [new |-> 0, created |-> 1, queued |-> 2, granted |-> 3, dropped |-> 3,
          rejected |-> 4, unstarted |-> 4, working |-> 4, committed |-> 5,
          failing |-> 6, cancelling |-> 6, leaving |-> 7, done |-> 8]
One(condition) == IF condition THEN 1 ELSE 0
Rank(j) == 4 * Stage[pc[j]] + One("timer" \in cause[j]) + One("close" \in cause[j])
           + One(~InFlight(j))

Of(j) == <<pc[j], j \in hit, cause[j], result[j], mark[j], row[j], outcome[j],
           j \in raised>>

\* Every step of a job, or of anybody that changes something of it, brings it
\* nearer its end: however often timer, close() and failures interleave there is
\* no loop, and a job changes a bounded number of times.
JobsAdvance == [][\A j \in Job : Of(j)' # Of(j) => Rank(j)' > Rank(j)]_vars

\* What a row and those who read it see of its job.  A failure write outlives the
\* task that began it, so a job may be at work after its task is done.
LifePhase(j) ==
  CASE pc[j] = "new" -> "idle"
    [] pc[j] \in WaitPc -> "pending"
    [] pc[j] \in {"working", "committed"} -> pc[j]
    [] OTHER -> IF ~InFlight(j) THEN "over"
                ELSE IF pc[j] = "rejected" THEN "rejecting"
                ELSE IF row[j] = "completed" THEN "committed"
                ELSE IF pc[j] \in RunPc \/ result[j] # "none" THEN "working"
                ELSE "pending"
LifeStatus(j) == IF row[j] \in Message THEN "failed" ELSE row[j]

\* The runner and its tasks treat each row as the models of reviews and plans
\* take a job to: it completes at most once, fails at most once and last, and
\* writes nothing after that.
Life == INSTANCE JobLife WITH phase <- [j \in Job |-> LifePhase(j)],
                              status <- [j \in Job |-> LifeStatus(j)]
ImplementsLife == Life!LSpec

\* The class docstring (app/core/jobs.py:71-74): a submitted job always reaches a
\* terminal state through its own path.
OwnPath == \A j \in Job : pc[j] = "done" /\ ~InFlight(j) => row[j] \in Terminal
=============================================================================
