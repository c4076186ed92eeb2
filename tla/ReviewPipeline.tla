---------------------------- MODULE ReviewPipeline ----------------------------
(***************************************************************************)
(* One review job from the slot it was given to its last write: the        *)
(* coroutine process_review, the pool thread it waits for at each step, and*)
(* the retry loop that thread runs (_generate_content_with_retry), all in  *)
(* app/services/ai.py, against the job's deadline (JOB_DEADLINE).          *)
(*                                                                         *)
(* Cancelling the coroutine does not stop its thread.  A thread that has   *)
(* not started is taken out of the pool's queue; one that has goes on.     *)
(*                                                                         *)
(* Time is counted in ticks from the job's submit.  Loading, downloading,  *)
(* waiting in the pool's queue, calling, sleeping and saving take time; a  *)
(* check, a wake-up and the delivery of a result or a due timer take none. *)
(*                                                                         *)
(* A definition named X_Suffix stands before X and is a faulty form of it, *)
(* used to check that a property can tell the difference.                  *)
(***************************************************************************)
EXTENDS Integers

CONSTANTS JobTimeout,      \* JOB_TIMEOUT_SEC: the deadline
          MaxWait,         \* JOB_MAX_WAIT_SEC
          RequestTimeout,  \* GEMINI_REQUEST_TIMEOUT_SEC
          MinAttempt,      \* GEMINI_MIN_ATTEMPT_SEC
          Margin,          \* GEMINI_DEADLINE_MARGIN_SEC
          MaxAttempts,     \* GEMINI_MAX_ATTEMPTS
          BaseDelay,       \* GEMINI_RETRY_BASE_DELAY_SEC
          Slack            \* how far a call overruns its timeout, which httpx
                           \* applies to each phase of the request

\* What _job_budgets_are_consistent accepts when the settings load.
BudgetsAreConsistent ==
  /\ MaxWait < JobTimeout
  /\ MinAttempt + Margin <= JobTimeout - MaxWait
  /\ MinAttempt <= RequestTimeout

ASSUME BudgetAssumption ==
  /\ JobTimeout \in Nat /\ MaxWait \in Nat /\ RequestTimeout \in Nat
  /\ MinAttempt \in Nat /\ Margin \in Nat
  /\ BudgetsAreConsistent
ASSUME RetryAssumption == MaxAttempts \in Int /\ BaseDelay \in Nat
ASSUME SlackAssumption == Slack \in Nat

VARIABLES now,      \* ticks since submit
          coro,     \* where the coroutine is, or how it ended
          personal, \* will there be a second pass? (session.notes, two-pass mode)
          thread,   \* the thread the coroutine last started
          attempt,  \* number of the attempt in the retry loop
          until     \* when the call's timeout or the backoff sleep is over

vars == <<now, coro, personal, thread, attempt, until>>

Active == {"loading", "preparing", "scoring", "refining", "saving"}
Ended == {"completed", "failed", "expired", "interrupted"}
Thread == {"none", "fetching", "queued", "checking", "calling", "sleeping",
           "answered", "raised"}

Smaller(a, b) == IF a < b THEN a ELSE b
Attempts == IF MaxAttempts < 1 THEN 1 ELSE MaxAttempts

\* The number of the attempt stays in its range, every time is a tick.
TypeOK == /\ now \in Nat
          /\ coro \in Active \cup Ended
          /\ personal \in BOOLEAN
          /\ thread \in Thread
          /\ attempt \in 0..Attempts
          /\ until \in Nat

\* The job has waited for its slot, MaxWait at the most.
Init == /\ now \in 0..MaxWait
        /\ coro = "loading"
        /\ personal \in BOOLEAN
        /\ thread = "none"
        /\ attempt = 0
        /\ until = 0

-----------------------------------------------------------------------------
(* The coroutine.                                                          *)

\* asyncio.to_thread of a Gemini method.
Ask(pass) == coro' = pass /\ thread' = "queued" /\ attempt' = 0

\* Review, session, media, profile and surfboard rows; or one is missing.
Load == /\ coro = "loading"
        /\ coro' \in {"preparing", "failed"}
        /\ UNCHANGED <<now, personal, thread, attempt, until>>

\* One media item: a download, then for a video the extraction of its frames.
Fetch == /\ coro = "preparing"
         /\ thread = "none"
         /\ thread' = "fetching"
         /\ UNCHANGED <<now, coro, personal, attempt, until>>

\* The storage answers, which has no deadline of ours, or the thread raises.
FetchEnds == /\ thread = "fetching"
             /\ thread' = "none"
             /\ \/ coro' = coro
                \/ coro = "preparing" /\ coro' = "failed"
             /\ UNCHANGED <<now, personal, attempt, until>>

\* Score the frames; without any, the job fails.
Prepared == /\ coro = "preparing"
            /\ thread = "none"
            /\ \/ Ask("scoring")
               \/ coro' = "failed" /\ UNCHANGED <<thread, attempt>>
            /\ UNCHANGED <<now, personal, until>>

TakeAnswer == /\ thread = "answered"
              /\ \/ coro = "scoring" /\ personal /\ Ask("refining")
                 \/ /\ coro = IF personal THEN "refining" ELSE "scoring"
                    /\ coro' = "saving"
                    /\ thread' = "none"
                    /\ UNCHANGED attempt
              /\ UNCHANGED <<now, personal, until>>

\* A failed scoring fails the job; a failed personalisation is dropped.
TakeError == /\ thread = "raised"
             /\ coro \in {"scoring", "refining"}
             /\ coro' = IF coro = "scoring" THEN "failed" ELSE "saving"
             /\ thread' = "none"
             /\ UNCHANGED <<now, personal, attempt, until>>

Save == /\ coro = "saving"
        /\ coro' \in {"completed", "failed"}
        /\ UNCHANGED <<now, personal, thread, attempt, until>>

\* asyncio.timeout around the job, or close() after its grace.
Stop(how) == /\ coro \in Active
             /\ coro' = how
             /\ thread' = IF thread = "queued" THEN "none" ELSE thread
             /\ UNCHANGED <<now, personal, attempt, until>>

Expire == now >= JobTimeout /\ Stop("expired")
Interrupt == Stop("interrupted")

-----------------------------------------------------------------------------
(* The thread: _generate_content_with_retry.                               *)

Remaining == JobTimeout - now - Margin

\* The pool has a free worker.
Dequeue == /\ thread = "queued"
           /\ thread' = "checking"
           /\ attempt' = 1
           /\ UNCHANGED <<now, coro, personal, until>>

AttemptTimeout_NoMargin == Smaller(RequestTimeout, JobTimeout - now)
AttemptTimeout == Smaller(RequestTimeout, Remaining)

\* Start the attempt, or give up because too little time is left for it.
Check == /\ thread = "checking"
         /\ \/ /\ Remaining >= MinAttempt
               /\ thread' = "calling"
               /\ until' = now + AttemptTimeout
            \/ /\ Remaining < MinAttempt
               /\ thread' = "raised"
               /\ UNCHANGED until
         /\ UNCHANGED <<now, coro, personal, attempt>>

\* Gemini answers, with text that parses or does not, or fails for good.
CallEnds == /\ thread = "calling"
            /\ thread' \in {"answered", "raised"}
            /\ UNCHANGED <<now, coro, personal, attempt, until>>

Backoff == BaseDelay * 2 ^ (attempt - 1)

SleepFits_Always(delay) == TRUE
SleepFits(delay) == delay < JobTimeout - now - MinAttempt

MayRetry_OneMore == attempt <= Attempts
MayRetry == attempt < Attempts

\* The jitter adds up to a quarter of the delay.
Sleep == /\ MayRetry
         /\ \E delay \in 0..JobTimeout :
               /\ Backoff <= delay /\ 4 * delay <= 5 * Backoff
               /\ SleepFits(delay)
               /\ until' = now + delay
         /\ thread' = "sleeping"

GiveUp == /\ \/ ~MayRetry
             \/ 5 * Backoff >= 4 * (JobTimeout - now - MinAttempt)
          /\ thread' = "raised"
          /\ UNCHANGED until

\* A transient failure, the call's own timeout among them.
CallFails == /\ thread = "calling"
             /\ Sleep \/ GiveUp
             /\ UNCHANGED <<now, coro, personal, attempt>>

WakeUp == /\ thread = "sleeping"
          /\ now >= until
          /\ thread' = "checking"
          /\ attempt' = attempt + 1
          /\ UNCHANGED <<now, coro, personal, until>>

-----------------------------------------------------------------------------

\* The call's timeout has passed, overrun included.
CallOverdue_Never == FALSE
CallOverdue == thread = "calling" /\ now >= until + Slack

\* Bound on time, beyond the end of any call that starts before the deadline.
Horizon == JobTimeout + RequestTimeout + Slack

\* Time stops when nothing is left that could notice it.
Tick == /\ now < Horizon
        /\ coro \in Active \/ thread \in {"calling", "sleeping"}
        /\ coro \in Active => now < JobTimeout
        /\ coro \in {"scoring", "refining"} => thread \notin {"answered", "raised"}
        /\ thread # "checking"
        /\ ~CallOverdue
        /\ thread = "sleeping" => now < until
        /\ now' = now + 1
        /\ UNCHANGED <<coro, personal, thread, attempt, until>>

\* Nothing is left to do, or only a download that nobody waits for.
Over == /\ coro \in Ended
        /\ thread \in {"none", "answered", "raised", "fetching"}
        /\ UNCHANGED vars

ThreadStep == Check \/ WakeUp \/ (CallOverdue /\ CallFails)
Continue == Load \/ TakeAnswer \/ TakeError \/ Save \/ Expire

Next == \/ Load \/ Fetch \/ FetchEnds \/ Prepared \/ TakeAnswer \/ TakeError
        \/ Save \/ Expire \/ Interrupt
        \/ Dequeue \/ Check \/ CallEnds \/ CallFails \/ WakeUp
        \/ Tick \/ Over

Spec == Init /\ [][Next]_vars

\* Time passes, due timers fire and what is ready runs.  The storage and Gemini
\* may never answer, and the pool may never have a free worker.
FairSpec == /\ Spec
            /\ WF_vars(Tick)
            /\ WF_vars(ThreadStep)
            /\ WF_vars(Continue)

-----------------------------------------------------------------------------
(* Properties.                                                             *)

\* Whatever Gemini does and whenever the coroutine is cancelled, no call is in
\* progress later than Margin before the deadline plus the overrun of its last
\* timeout, and no thread sleeps into the last MinAttempt
\* (docs/SPEC_BACKEND_Job_Queue_Hardening.md:265-269).
ThreadStops == /\ thread = "calling" => now <= JobTimeout - Margin + Slack
               /\ thread = "sleeping" => now < JobTimeout - MinAttempt

\* A review that has been scored is not lost to its personalisation: pass two
\* leads to the save, however it ends, unless the process closes, the pool did
\* not start it in time, or calls overrun by the whole margin.
ScoredReviewIsKept ==
  [][coro = "refining" /\ coro' \notin {"refining", "saving", "interrupted"}
       => /\ coro' = "expired"
          /\ Slack < Margin => thread \in {"queued", "checking", "raised"}]_vars

\* Every thread that calls Gemini ends, even when the job that started it is
\* gone and Gemini never answers.
ThreadEnds == thread = "calling" ~> thread \in {"none", "answered", "raised"}
==============================================================================
