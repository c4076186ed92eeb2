------------------------- MODULE ReviewPipeline_proofs -------------------------
(***************************************************************************)
(* Proofs about ReviewPipeline for every budget that the configuration     *)
(* accepts, every number of attempts and every overrun.                    *)
(*                                                                         *)
(* ThreadStops is not inductive: it says when a call is in progress, not   *)
(* how long it may still go on.  InTime adds where `until' lies, and Waits *)
(* what the thread of a waiting coroutine can be.                          *)
(***************************************************************************)
EXTENDS ReviewPipeline, TLAPS

\* A call's timeout ends Margin before the deadline, a sleep MinAttempt before,
\* and time passes neither without their ending; an answer is taken at once.
InTime ==
  /\ thread = "calling" => until <= JobTimeout - Margin /\ now <= until + Slack
  /\ thread = "sleeping" => /\ until < JobTimeout - MinAttempt
                            /\ now <= until
                            /\ attempt < Attempts
  /\ thread = "answered" /\ coro \in {"scoring", "refining"}
        => now <= JobTimeout - Margin + Slack

\* A coroutine that waits for Gemini has a thread that will be heard of.
Waits == coro \in {"scoring", "refining"}
           => thread \in {"queued", "checking", "calling", "sleeping",
                          "answered", "raised"}

IInv == TypeOK /\ InTime /\ Waits

\* There is always a first attempt.
LEMMA OneAttempt == Attempts \in Nat /\ 1 <= Attempts
BY RetryAssumption DEF Attempts

\* The timeout of an attempt that is started fits into the budget.
LEMMA AttemptFits ==
  ASSUME now \in Nat, Remaining >= MinAttempt
  PROVE  AttemptTimeout \in Nat /\ now + AttemptTimeout <= JobTimeout - Margin
BY BudgetAssumption DEF BudgetsAreConsistent, Remaining, AttemptTimeout, Smaller

LEMMA Initially == Init => IInv
BY BudgetAssumption, OneAttempt
   DEF BudgetsAreConsistent, Init, IInv, TypeOK, InTime, Waits, Active, Ended, Thread

LEMMA Inductive == IInv /\ [Next]_vars => IInv'
<1> SUFFICES ASSUME IInv, [Next]_vars PROVE IInv'
  OBVIOUS
<1> USE BudgetAssumption, SlackAssumption, OneAttempt
    DEF BudgetsAreConsistent, IInv, TypeOK, InTime, Waits, Active, Ended, Thread
<1>1. CASE Load
  BY <1>1 DEF Load
<1>2. CASE Fetch
  BY <1>2 DEF Fetch
<1>3. CASE FetchEnds
  BY <1>3 DEF FetchEnds
<1>4. CASE Prepared
  BY <1>4 DEF Prepared, Ask
<1>5. CASE TakeAnswer
  BY <1>5 DEF TakeAnswer, Ask
<1>6. CASE TakeError
  BY <1>6 DEF TakeError
<1>7. CASE Save
  BY <1>7 DEF Save
<1>8. CASE Expire
  BY <1>8 DEF Expire, Stop
<1>9. CASE Interrupt
  BY <1>9 DEF Interrupt, Stop
<1>10. CASE Dequeue
  BY <1>10 DEF Dequeue
<1>11. CASE Check
  <2>1. CASE Remaining >= MinAttempt
    <3>1. /\ thread' = "calling" /\ until' = now + AttemptTimeout
          /\ UNCHANGED <<now, coro, personal, attempt>>
      BY <1>11, <2>1 DEF Check, Remaining
    <3> QED
      BY <2>1, <3>1, AttemptFits
  <2>2. CASE ~(Remaining >= MinAttempt)
    BY <1>11, <2>2 DEF Check
  <2> QED
    BY <2>1, <2>2
<1>12. CASE CallEnds
  BY <1>12 DEF CallEnds
<1>13. CASE CallFails
  <2>1. CASE Sleep
    <3>1. PICK delay \in 0..JobTimeout : SleepFits(delay) /\ until' = now + delay
      BY <2>1 DEF Sleep
    <3>2. delay \in Nat /\ now + delay < JobTimeout - MinAttempt
      BY <3>1 DEF SleepFits
    <3>3. /\ thread' = "sleeping" /\ attempt < Attempts
          /\ UNCHANGED <<now, coro, personal, attempt>>
      BY <1>13, <2>1 DEF CallFails, Sleep, MayRetry
    <3> QED
      BY <3>1, <3>2, <3>3
  <2>2. CASE GiveUp
    BY <1>13, <2>2 DEF CallFails, GiveUp
  <2> QED
    BY <1>13, <2>1, <2>2 DEF CallFails
<1>14. CASE WakeUp
  BY <1>14 DEF WakeUp
<1>15. CASE Tick
  BY <1>15 DEF Tick, CallOverdue
<1>16. CASE UNCHANGED vars
  BY <1>16 DEF vars
<1> QED
  BY <1>1, <1>2, <1>3, <1>4, <1>5, <1>6, <1>7, <1>8, <1>9, <1>10, <1>11,
     <1>12, <1>13, <1>14, <1>15, <1>16 DEF Next, Over

THEOREM Invariance == Spec => []IInv
BY Initially, Inductive, PTL DEF Spec

\* The attempts stay within GEMINI_MAX_ATTEMPTS and all times are ticks.
THEOREM TypeCorrect == Spec => []TypeOK
BY Invariance, PTL DEF IInv

\* No call and no backoff sleep outlives its job, for every accepted budget.
THEOREM ThreadStopsInTime == Spec => []ThreadStops
<1>1. IInv => ThreadStops
  BY BudgetAssumption, SlackAssumption DEF BudgetsAreConsistent, IInv, TypeOK, InTime, ThreadStops
<1> QED
  BY <1>1, Invariance, PTL

\* Where a step of the coroutine leads from its second pass.
KeptStep == coro = "refining" /\ coro' \notin {"refining", "saving", "interrupted"}
              => /\ coro' = "expired"
                 /\ Slack < Margin => thread \in {"queued", "checking", "raised"}

\* Pass two never costs a scored review, if calls overrun by less than the margin.
THEOREM ScoresAreKept == Spec => ScoredReviewIsKept
<1>1. ASSUME IInv, [Next]_vars PROVE KeptStep
  <2>1. CASE Expire
    <3>1. coro' = "expired" /\ now >= JobTimeout
      BY <2>1 DEF Expire, Stop
    <3>2. coro = "refining" /\ Slack < Margin
            => thread \notin {"calling", "sleeping", "answered"}
      BY <1>1, <3>1, BudgetAssumption, SlackAssumption DEF BudgetsAreConsistent, IInv, TypeOK, InTime
    <3> QED
      BY <1>1, <3>1, <3>2 DEF KeptStep, IInv, Waits
  <2>2. CASE ~Expire
    BY <1>1, <2>2 DEF KeptStep, Next, vars, Load, Fetch, FetchEnds, Prepared,
       TakeAnswer, TakeError, Save, Interrupt, Stop, Dequeue, Check, CallEnds,
       CallFails, WakeUp, Tick, Over, Ask
  <2> QED
    BY <2>1, <2>2
<1>2. IInv /\ [Next]_vars => [KeptStep]_vars
  BY <1>1
<1> QED
  BY <1>2, Invariance, PTL DEF Spec, ScoredReviewIsKept, KeptStep
==============================================================================
