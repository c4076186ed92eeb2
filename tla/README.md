# Formal models of surf-coach-api

The API takes surf photos and videos, has Gemini score them, and generates a
training plan. Reviews and plans take minutes, so an HTTP handler commits a row
in `processing`, hands a job to an in-process runner and answers 202; the client
polls. There is no queue broker: if a job is lost, its row is all that is left.
The models here are about that: who ends a row, what happens to it when timers,
shutdowns, retries, deploys and kills interleave, and how long the work behind a
row may go on after the row is settled. The media the reviews are made from live
in two stores without a common transaction, a table and a bucket; the second
subject is what the two hold when an upload, deletions and failures interleave,
and what its client is told.

## 1. The system

| Component | State it keeps | Operations | Talks to |
|---|---|---|---|
| Job runner, `app/core/jobs.py` | semaphore `_slots`, counter `_waiting`, sets `_tasks` and `_running_tasks`, flag `_closed` | `submit`, `_run` (wait, then run), `close` | routes submit to it; it calls the task functions; `lifespan` closes it |
| Task functions and sweep, `app/jobs.py` | none of their own; one database session per job | `process_review_task`, `process_training_plan_task`, `mark_*_failed`, `sweep_stuck_jobs` | services, repositories; read the runner's state through a context variable |
| Review service, repository, routes | row of `reviews` (one per session) | create, retry, read (fails a stale row), `process_review`, `mark_completed`, `mark_failed`, `reset_for_retry`, delete | database, runner, storage, Gemini |
| Training plan service, repository, routes | row of `training_plans` (one per review), its workouts and exercises | the same, and `process_training_plan` | database, runner, Gemini |
| Gemini client, `app/services/ai.py` | one cached HTTP client | `_generate_content_with_retry` in a pool thread | Gemini |
| Media, `app/services/media.py`, `core/upload.py`, `core/storage.py` | rows of `media`, objects in the bucket, spool files | batch upload in three phases, list, stream, delete | database, storage |
| Request body limit, `core/middleware.py` | `received`, `exceeded`, `forwarded` per request | wrap `receive` and `send`, reject | the application below it |
| Lifespan, `app/main.py` | the runner | sweep, serve, close, dispose | runner, sweep |
| Database session, `core/db.py`, `core/deps.py` | identity map per session, connection pool | session per request or job, `expire_on_commit=False` | everyone |
| Configuration, `core/config.py` | limits and budgets | validators | everyone |
| Profiles, sessions, surfboards | their rows | CRUD; a profile is created on first use | database |
| JWT and media tokens, frame extraction, errors, logging, rate limiting, health | none | library calls and formatting | - |

### What is hard in it

* Runner: a slot is released, a timer fires and `close()` cancels in any order,
  between any two awaits; `CancelledError` is delivered later than it is
  requested, and a second one may arrive while the first is being handled.
  Correct when slots are conserved, the limits hold, nobody is overtaken, a job
  that ends leaves its row terminal with a message that is true, and everything
  ends, `close()` included.
* Review row: read in one transaction, written by key in a later one, by two
  handlers, two jobs and two processes at once; a process may die between any
  two of its steps. Correct when no row stays in `processing` without an owner
  or a way out, and no backstop fails a row whose job is alive.
* Gemini calls: a thread cannot be cancelled. Correct when it stops in time by
  itself, and when an optional second call never costs what the first produced.
* Plan rows: everything a review row has, plus the cascade from the review, the
  re-reads with `populate_existing`, and workouts that a retry inserts again
  under a unique constraint.
* Media: several objects are stored concurrently before any row exists, and
  deleted before their row is. Correct when a row has its object, an object
  without a row is only what a named failure leaves, and a rejected batch
  stores nothing.
* Body limit: the limit is hit at any point of a request whose response may have
  begun. Correct when exactly one complete response goes out.

The hazards are listed one by one, each at its line, in `PROJECT.json`.

## 2. Plan

| Step | Modules | Status |
|---|---|---|
| 1 | `JobRunner` and its contracts, `JobAdmission` for the runner and `JobLife` for a job; proofs of every safety property | done |
| 2 | `ReviewLifecycle`: handlers, jobs, processes and time on one review row; proofs | done |
| 3 | `ReviewPipeline`: one job's coroutine and its Gemini thread against the deadline; proofs | done |
| 4 | `PlanLifecycle`: a plan row, its workouts and its review; proofs | done |
| 5 | `BodyLimit`, `MediaStore` over it, and the contract `MediaLibrary`: an upload from its first byte to its response, deletions, the session's end, players; proofs | done |
| 6 | The smaller services where two requests meet (get-or-create of a profile) | not done: a check and an insert, which the primary key keeps right |
| 7 | Operators on data (`normalise_scores`, the three tips, `_clamp_round`, JSON clean-up) | not done: each is a few lines without state, within reach of unit tests |
| 8 | Pool of database connections: uploads that hold one through moderation, failing jobs that need a second | not done: how many requests use the database at once is bounded nowhere in the code, so a model would show only that a pool can be exhausted (see section 6) |
| 9 | Liveness from the proved safety halves, in a prover with the rules for it | left to TLC: `JobsEnd` needs only weak fairness of the steps `CanMove` names |

`JobRunner` composes the runner, the task shell and the route's rejection path,
since a cancellation travels through all three. `ReviewLifecycle` sees the
runner from outside: it accepts or rejects, and a job ends completed, failed or
without record. `JobLife` says that in a dozen lines and `JobRunner` implements
it, so what the lifecycles assume of a job's order of events is a theorem; that a
job ends within `Lag` of its deadline is what `JobsEnd` and `ReviewPipeline` are
about. `PlanLifecycle` does the same, and takes from `ReviewLifecycle` that no
owner of an attempt outlives the threshold, which is `StaleMeansLost` there. `MediaStore` composes the middleware, the
route and everyone else who touches the session's media.

## 3. Modules

### JobRunner, JobAdmission, JobLife

A `Job` is one submission with a row of its own, already in `processing`. `pc[j]`
says where its task is suspended:

| `pc` | in the code |
|---|---|
| `created` | the task exists and has not taken its first step |
| `queued`, `granted`, `dropped` | suspended in `_slots.acquire()`; the future is pending, resolved, cancelled |
| `unstarted` | `_mark_never_started` |
| `working`, `committed` | `fn`, before and after the commit of `mark_completed` |
| `failing`, `cancelling` | the `except Exception` and the `except CancelledError` block of the task function |
| `leaving` | the end of `async with SessionLocal()`, then the rest of `_run` |
| `rejected` | the route's `mark_*_failed` after `JobRunnerBusyError` or `JobRunnerClosedError` |

An action is one uninterrupted stretch of one task, a timer, or a write taking
effect. `hit` holds the tasks with a requested and undelivered cancellation;
`cause` who has requested one. `mark[j]` is a failure write in flight: a shielded
one survives its waiter, the one of the except block does not. A call of
`mark_failed` that raises may have written the row or not, since it commits and
then reads the row again (`MarkRaises`). `Ends` is what fn can end with, closing
its session included, and `OutcomesOf` the event `_run` makes of it: an error that
escapes fn is `failed`, or `run_timeout` if it is a TimeoutError of its own, which
`_run` cannot tell from the deadline's. `_tasks` and
`_closed` are derived (`Live`, `Closed`), as is the done callback that discards a
task. The semaphore is that of CPython 3.12: `locked()` looks at the queue, and
`release` hands the slot to the first pending waiter.

Properties: `SlotsConserved`, `AdmissionBounds`, `NoLostWakeup`, `NoOvertaking`,
`TruthfulMessages` (each message appears only for its own reason),
`NoSilentLoss` (how a row may be left in `processing`: an exception of its own
followed by a cancellation, a write that raised, or both a timer and `close()`),
`OutcomeAgrees` (event against row; a `run_timeout` is the deadline alone or an
error that escaped), `EventLostOnlyTwiceCancelled` (a submission
without an event was refused by `close()`, or cancelled by both its timer and
`close()`), `NobodyIsStuck` (until a job is over it has a next step that waits for
no other job and no answer of Gemini: no cancellation is lost or swallowed),
`JobsAdvance` (whatever changes a job raises its `Rank`, so there is no way back),
`JobsEnd`, `CloseReturns`, and `ImplementsAdmission`: with `queue <- In(WaitPc)`, `active <- running`, the
runner implements `JobAdmission`, which has no semaphore, counter or task and
says: bounded queue, bounded running set, refusals only for a full queue or a
closing runner, no start once `close()` has cancelled the queue.

`JobLife` is one job as its row sees it: refused or taken, started, completed at
most once, failed at most once and last, or gone without record. `ImplementsLife`
maps each job of the runner to one. A failure write belongs to the job even after
its task has ended, since a shielded one goes on alone, so `LifePhase` has a job
over only when its task is and nothing of it is in flight.

### ReviewLifecycle

One session, its review `row` (key, status, age of the attempt), handlers
`req[r]`, jobs `job[j]`, the processes `serving`. A handler is split at its
commits: `CreateRead`, `CreateDelete`, `CreateInsert`, `Submit`, `RejectMark`;
`RetryRead`, `Reset`; `PollRead`, `StaleMark`. A repository call in a session of
its own (`mark_review_failed`, the sweep) is one step. `job[j].saw` is the status
the job loaded: because sessions keep objects after a commit, `mark_completed`
writes only the columns that differ from it. `DeleteSession` removes the row by
cascade. `HandlerBreaks` is a database error in a handler: `get_db` rolls back and
the client gets a 500, which after the commit of a create or a retry leaves a row
without a job. `Crash` drops what a process held, `Boot` sweeps, or fails to, and
serves; two processes may serve at once, as in a deploy. `Tick` ages the row and
the jobs.

`lost` is a history variable: an owner of the current attempt was killed or broke
on the database, or its failure write raised. Keys that nothing holds are reused, and ages stop at
`Threshold + 1`, so the state space is finite without cutting behaviours.

Properties: `NoOrphanProcessing` (a row in `processing` has a handler that will
submit or reject it, or a job that will end it, or its owner was lost),
`StaleMeansLost` (a row the sweep or a read would fail by its age has no live job
and no handler that is to submit one, in any process; `SweepSparesLiveJobs` is
what follows for the sweep), `CompletedIsFinal` (whoever undoes a completed review
held it before it was complete; what begins later cannot), `StuckRowsSettle`.

### ReviewPipeline

The coroutine `process_review` (`coro`) and the pool thread it awaits
(`thread`): a download or extraction (`fetching`), a call waiting for a pool
worker (`queued`), and the retry loop (`checking`, `calling`, `sleeping`).
`Expire` and `Interrupt` cancel the coroutine at its deadline or at any moment;
a queued thread is dropped, a started one goes on. The budget check, the clamp
of the attempt's timeout, the number of attempts, the backoff with its jitter
and the rule that refuses a sleep are those of `_generate_content_with_retry`.
httpx applies a timeout to each phase of a request, so a call may overrun its
timeout by `Slack`.

Properties: `ThreadStops` (no call is in progress later than margin before the
deadline plus `Slack`, no backoff sleeps into the last `MinAttempt`),
`ScoredReviewIsKept` (pass two leads to the save, however it ends, unless the
process closes, the pool never started it, or `Slack >= Margin`), `ThreadEnds`.

### PlanLifecycle

One session's `review` (or none) and the `row` of its plan: key, status, the
sequence numbers of its workouts, and a bit `old` in the place of the clock of
`ReviewLifecycle`: the attempt has lasted longer than the threshold. `Age` sets
it when no job of the plan and no handler that is to submit one is left, which is
what `StaleMeansLost` says of the attempts of `ReviewLifecycle`. `at[a]` says where a handler or job is, which keys
it holds, and what its repository call has loaded.

| Actions | in the code |
|---|---|
| `CreateRead`, `CreateDelete`, `CreateInsert` | `enqueue_training_plan`: read, delete by key, insert |
| `RetryRead`, `ResetLoad`, `ResetWrite` | retry, and the two halves of `reset_for_retry` |
| `Submit`, `ReadStale` | `_submit_plan_job`, `_fail_if_stale` |
| `MarkLoad`, `MarkWrite` | the two halves of `mark_failed`, whoever calls it |
| `JobLoad`, `JobSaveLoad`, `JobSave`, `JobBreak`, `JobEnd`, `JobVanish` | `process_training_plan_task` and `process_training_plan` |
| `HandlerBreaks` | a database error in a handler |
| `NewReview`, `DropReview`, `Sweep`, `Crash`, `Age` | the cascade from the review, the boot sweep, a kill, time |

A repository call of plans loads the row afresh (`populate_existing`, no lock) and
commits the columns that differ from what it loaded, so two calls may overlap
between the halves; `Update` is that rule. `Conflict` is `uq_workouts_plan_seq`.
`Answer` holds the sets of sequence numbers Gemini may give. The prompt shows a plan
numbered from 1, but the code checks how many workouts there are
(`app/services/ai.py:637`) and a number may be any integer, so nothing is assumed
of them: two answers may collide or not. The history variable `crossed` says that
an attempt at the plan saved while another handler or job held the plan, or was
failed after its commit. These are the two ways to a second attempt on a plan
that has workouts.

Properties: `NoOrphanPlan` (a plan in `processing` has an owner, or lost it),
`PlanIsWhole` (a completed plan whose history is not crossed has the workouts of
exactly one attempt), `LeftoversAreCrossed` (a plan in `failed` or `processing` has
workouts only if its history is), `CompletedIsFinal` (as for reviews: status and
workouts stay until the review goes).

### BodyLimit, MediaStore, MediaLibrary

`BodyLimit` is `BodySizeLimitMiddleware` around any ASGI application: `phase` says
how far the request has come, `received`, `exceeded` and `forwarded` are the
variables of `limited_receive` and `limited_send`, `wire` the messages sent.
FastAPI reads the whole body and then runs the route (`running`); a router miss
(404, which stands for 405 and the host check too) and the rate limiter (429)
answer without a read and may receive more between their messages.

`MediaStore` supplies the route and the world around it. `pc` follows
`upload_media` and `upload_batch` phase by phase (spool, count, authorize,
validate, store, partition, insert, close), `put[p]` one PUT: waiting for a
permit, in a thread, stored, `failed` (a `StorageUploadFailedError`, which may
have left its object) or `broken` (any other exception). `eraser[e]` is a
`delete_media` between its object and its row, `player[p]` a stream between its
ownership check and its last byte, `upstream` and `lent` what it holds.
`DeleteSession` takes the rows by cascade and leaves every object. `faults` is a
history of the five events that may leave an object without a row.

The database session of a stream is function-scoped: it closes when the route
returns (`app/api/media.py:51`), which is after `stream_range` has opened the
upstream and before the first byte; `Release` is that moment.

`MediaLibrary` is the contract: a set of visible files to which one batch is added
at once, from which files are withdrawn for good, and which closes. `MediaStore`
implements it with `visible <- rows \cap objects`, `batch <- inserted`,
`open <- session`.

Properties: `OneResponse`, `OversizedRefused`; `RowsHaveObjects` and
`ObjectsHaveRows` (which difference between table and bucket can be there, and
what caused it), `RefusedStoresNothing`, `AnswerAgrees` (201, 207 and 502 against
the rows), `SpoolsOutlivePuts`, `StreamsHoldNoConnection`, `ImplementsLibrary`,
`UploadEnds`.

### MC modules

`MCJobRunner`, `MCReviewLifecycle` and `MCPlanLifecycle` define the finite sets, the
symmetry and, in the first, a state constraint. `ReviewPipeline` and `MediaStore`
have numbers and sets of model values, which their configurations give. In every
module a definition `X_Suffix` before `X` is a deliberately faulty form of it,
used to see that a property notices.

## 4. Runs

| Run | Instance | Shows |
|---|---|---|
| `runner_admission` | 3 jobs, 1 slot, 2 places; the drain may expire | limits, the admission contract |
| `runner_two_slots` | 4 jobs, 2 slots, 2 places, no shutdown, no write failures | conservation, wake-ups and order with two slots free at once |
| `runner_records` | 2 jobs, 1 slot, 1 place, the database may fail; fairness, no symmetry | messages, losses, events, progress, the life of a job; every job ends, `close()` returns |
| `review_safety` | 2 handlers, 2 jobs, 2 keys, 2 processes; Timeout 1, Lag 1, Threshold 3 | ownership, staleness, completed reviews |
| `review_liveness` | 2 handlers, 1 job, 1 process, fairness | rows settle |
| `pipeline` | JobTimeout 14, MaxWait 3, RequestTimeout 5, MinAttempt 2, Margin 2, 3 attempts, BaseDelay 1, Slack 1; fairness | threads stop and end, scores are kept |
| `plans` | 2 handlers, 2 jobs, 2 plan keys, 2 review keys; answers {1, 2}, {1, 3} and {3, 4} | ownership, whole plans, leftovers, completed plans |
| `media` | Limit 1, MaxBody 2; 4 files, 2 to 3 photos, 1 video, 2 permits, 1 deletion, 1 player; fairness | responses, table against bucket, ends |
| `runner_own_path`, `review_sweep`, `review_stale_read`, `plan_retry` | as small as the disagreement allows | section 6 |

Why the bounds are enough. Runner: with one slot and three jobs one runs, one is
handed the slot and one waits behind it, and a queue of two is full when the
first has not yet taken its slot; the second slot of `runner_two_slots` is what
it takes for a free slot and a granted waiter to exist together, and four jobs
let a new one arrive at that moment. Shutdown is left out of that run because
`runner_admission` has it, and the proofs have both. What becomes of a row is
between its own task, its timer, `close()`, its writes and one more job to take
the slot from or to wait behind, so `runner_records` has two jobs, and the
failures of the database, which multiply the states and do not touch the limits,
are in that run only. Reviews: every conflict is
between two writers, so two handlers and two jobs cover each pair, and the
second process is the other side of a deploy; `Threshold = Timeout + 2 Lag` is
the tightest gap the assumption allows. Pipeline: the numbers let all three
attempts and both backoff sleeps happen, let a check fail for lack of time, let
the clamp cut a timeout, and let the job start late. Plans: as for reviews; of
the three answers two share a number and two do not, so that a second attempt may
be refused or mix with the first, and a second key of each kind is what a deletion
under a running job takes. Media: with four parts and two permits some wait, some run and some have
ended, and every mixture of stored, failed and broken is reached; four parts are
also what it takes to have too many photos; two to three photos and one video
make every count error possible. The deletion of the session is the second
deleter. A body of two units over a limit of one comes in one piece or two, and
a body is never empty, since an upload is a form.

The only state constraint is `NoShutdown`. `Horizon` bounds time in
`ReviewPipeline`, and lies beyond the end of any call, so that a thread that
never ended would still be seen.

## 5. Fairness

* `JobRunner`: the event loop runs ready tasks and fires due timers; a database
  write returns or raises; `close()` resumes after its waits. There is none on
  `Complete` or `Raise` (Gemini may hang), on `Submit` or on `CloseStart`.
  `CloseReturns` is checked without the drain expiring, so it does not depend on
  `CANCEL_DRAIN_SEC`.
* `ReviewLifecycle`: time passes, handlers and jobs take their steps (for jobs
  this is `JobsEnd`), and a dead process is restarted. Strong fairness for the
  poll and its write says the client keeps asking and gets through some time; the
  process may still die between the two any number of times. Without a poll a
  row may stay for ever: the sweep runs only at boot and may miss it.
* `ReviewPipeline`: time passes, due timeouts fire, what is ready runs. Not that
  Gemini or the storage answers, nor that the pool has a free worker.
* `MediaStore`: the upload's coroutine and its worker threads go on (the storage
  client has timeouts, and a thread ends by an answer or an exception), and the
  application's messages are sent. None on the client, who may stop sending its
  body, on deletions, players or a crash. There is nothing to starve within the
  upload, so weak fairness of its steps together is enough.

## 6. Where code and documents disagree

* `runner_own_path`: the failure write of the `except Exception` block is not
  shielded. A run deadline or `close()` during it leaves the row in
  `processing`, though "a submitted job always reaches a terminal state through
  its own path".
* `review_sweep`: a process restarted within the threshold boots with rows too
  young for its sweep, though "every row the dead process left behind" is
  promised. The check on reads catches them later.
* `review_stale_read`: two reads find the row stale, the first fails it, the user
  retries, and the second read's write fails the row of the live job.
* `plan_retry`: the deadline or `close()` cancels a plan's job after
  `mark_completed` has committed; the plan is marked failed with its workouts in
  place, though "a user can retry a failed review multiple times until it succeeds"
  and plans follow it. A retry whose answer has one of their numbers (with plans
  numbered from 1, every retry) violates `uq_workouts_plan_seq` and fails; one
  whose answer has none completes a plan of both attempts' workouts.
  `LeftoversAreCrossed` and `PlanIsWhole` say which histories lead there.

Three more statements turned out to be narrower than they read, without a run of
their own. "Exactly one event per submitted job" (`app/core/jobs.py:257`) misses
the job that its timer cancels while it waits and `close()` while that is being
written, and the one `close()` refuses: `EventLostOnlyTwiceCancelled` is what
holds. And `StreamsHoldNoConnection` has to leave out the client that goes away
between the opening of the upstream and the first run of the body's generator,
whose `finally` then never closes it.
The third is the rule for the size of the pool, `JOBS_MAX_CONCURRENT` plus the
HTTP use (`docs/DEPLOY.md:110`): it counts one connection for each running job,
but a job that fails while its session has one (its row is gone, its save is
refused) asks for a second in `mark_*_failed` before it closes the first, and a
job that is failed while it waits in the queue uses one too.

## 7. Proofs

`tlapm` checks all of them for every value of the constants under the named
assumptions of each module. Every invariant and action property of a passing run
is proved; the liveness properties are not.

* `JobRunner_proofs` (assumes positive limits). `SlotsConserved` and
  `AdmissionBounds` are counting statements and share one inductive invariant,
  `Counts`: `_waiting` is the cardinality of the jobs in `WaitPc`, `running` is the
  set of the jobs in `RunPc`, and the semaphore's value and the jobs that hold a
  slot make `MaxConcurrent`. It needs `TypeOK` and gives it: neither counter goes
  negative because it is a cardinality, or what is left of one. A few lemmas say
  how each helper (`WakeNext`, `ReturnSlot`, `Cancel`) moves jobs between these
  sets. `RunnerImplementsAdmission` also needs `Drained`: once `close()` has
  cancelled the queue no job is unstarted or waiting for a slot, and one that has
  been handed a slot has a cancellation to meet first, so none starts.
* `JobQueue_proofs`. `NoLostWakeup` and `NoOvertaking` rest on the order of the
  semaphore's queue, `QueueInv`: each waiting task's future stands in it once, and
  those that were handed a slot stand before those that were not. Removing a
  future keeps the order of the others (`ForgetEffect`), one that joins stands
  last (`AppendEffect`), and a pending future implies a first one, so a release
  never finds nobody to wake while somebody sleeps.
* `JobRecords_proofs`. The four properties about what a job leaves behind speak of
  jobs that are over, when what they may say was decided at the delivery of each
  cancellation. `Record(j)` follows one job: who has cancelled it and which
  cancellation it has yet to meet, which message its failure write carries while
  in flight, and how fn ended. A step of another job only hands this one a slot
  (`RecordFrame`), and `close()` cancels nobody twice (`Cancelled`), which is what
  tells "its deadline" from "the shutdown" in message and event.
* `JobProgress_proofs`. Three theorems over the records. `NeverStuck`: a job is
  over or `CanMove`, where each disjunct names a step of the job itself, its timer
  or its write; a job nobody has cancelled has its timer, and one that was
  cancelled has met the cancellation or has it in `hit`. `AlwaysForward`: a step
  of the job, a cancellation that is new to it (`CancelsAreNew`) or a slot handed
  to it raises its `Rank`, four times its stage plus the cancellations it has had
  plus one when no write is in flight; `RankIsBounded` by 35. Together they are the
  safety half of `JobsEnd`: a job not yet over can move, and it can move at most 35
  times. What is left to TLC is that a step `CanMove` names is enabled (it speaks
  of ENABLED) and is taken (a rule of fairness). `RunnerImplementsLife`: one step
  of the runner moves at most one job in `JobLife` (`NextLife`), and a job that
  only changes its place in the queue has not moved (`NotMoved`).
* `ReviewLifecycle_proofs` (assumes `Timeout + 2 * Lag <= Threshold`).
  `NoOrphanProcessing` is inductive together with `TypeOK`. `StaleRowsAreLost` and
  its corollary `SweepIsSafe` need `Young`: the row of a handler that has yet to submit is no older than the
  handler's wait, and the row of a live job at most `Lag` older than the job.
  No job is older than `Timeout + Lag`, so its row is at most
  `Timeout + 2 * Lag` old and neither sweep nor read finds it stale.
  `CompletedStaysCompleted` follows each handler: one that holds the key of a
  completed row held it before, and one that begins finds the row completed and
  turns away.
* `ReviewPipeline_proofs` (assumes what `_job_budgets_are_consistent` validates).
  `ThreadStops` says when a call is in progress but not for how long it may go
  on (it is to `ThreadEnds` what `RankIsBounded` is to `JobsEnd`: the time by which
  the thread has stopped); `InTime` adds where `until` lies, and `Waits` that a coroutine waiting
  for Gemini has a thread it will hear of. `ScoresAreKept` is then a statement
  about the only step that could break it, `Expire`.
* `PlanLifecycle_proofs` (assumes nothing of Gemini's answers). A call that loaded
  the status it is to write writes none, so owning an attempt means more than being
  at work on it: `Owned` adds `Ends`. `PlanIsWhole` and `LeftoversAreCrossed` are two
  sides of `Whole`: until the history is crossed a plan has workouts only when it is
  completed, by then nobody but a job that has saved holds it, and before that
  nobody has seen it completed, so that the job which saves writes the status
  too. `CompletedStaysCompleted` is the argument of the reviews, with calls
  split at their load.
* `MediaStore_proofs` (assumes positive limits and photo bounds the settings accept).
  `BodyInv` relates the middleware's three variables to the wire in each phase;
  `FlowInv` says which PUTs, files and rows an upload may have at each of its steps
  (`Places`, `Puts`) and what its outcome then says (`Outcomes`); `StoreInv` says why
  a key that is in the bucket or in the table is there, and `Accounted` that every
  object without a row has its event; `PlayerInv` is about the streams. The
  refinement follows: the insert is the only step that publishes, and an object
  that was removed is not stored again, since a part's key is fresh.

Only model-checked: the liveness properties (`JobsEnd`, `CloseReturns`,
`StuckRowsSettle`, `ThreadEnds`, `UploadEnds`), which the proof system does not
reach: it has no rule that turns fairness of a step and a bounded rank into
an end, and cannot expand ENABLED.

## 8. Assumptions and what is left out

* `Lag` bounds the time from a row's commit to the submit of its job, and from a
  deadline to the end of its job. `STUCK_JOB_THRESHOLD_SEC` has a comment that
  it must exceed `JOB_TIMEOUT_SEC`; no validator says so, and by how much is what
  the assumption of `ReviewLifecycle` makes precise.
* In `ReviewPipeline` local computation takes no time, so a due timer fires at
  its tick. `Slack` is a parameter, not a claim about the network.
* Messages are modelled as their kinds. Prompts, schemas, log fields and ownership
  checks, which change no state, are not modelled; HTTP statuses only where
  `MediaStore` is about them. The `error_message` column is left out of the
  lifecycles: `mark_completed` does not write it where it loaded none, so a
  completed row may carry the message of a failure it overlapped.
* Media: a review that downloads a file while it is deleted fails like one whose
  download fails, which `ReviewLifecycle` has. `os.remove` of a temporary file is
  taken to succeed. `stream_range` leaks its client when the request is cancelled
  while it waits for the upstream's headers; that wait is one step here.
  Listings change nothing. A PUT that fails has settled when it raises: one the
  storage completes after the clean-up has removed its key would be a sixth way
  to an object without a row. `UPLOAD_CONCURRENCY` is taken to be positive, which
  no validator says; with 0 permits an upload would wait for ever.
* `BodyLimit` is about routes that read their body before they answer, or answer
  without it from outside the route; a POST route that takes no body (the retries)
  never asks for it, so the limit is not met there.
* `ReviewLifecycle` and `PlanLifecycle` have a write that commits and then raises as
  the write and the end of its caller; it differs from a success only in the
  response or the event, which `JobRunner` has.
* Not modelled: profiles and surfboards, the pool of connections and computed values
  (section 2, steps 6 to 8); JWT and media tokens (calls of a library), frame
  extraction (OpenCV on one file), error mapping, logging, what the rate limiter
  counts, and health, which keep no state of this program.
