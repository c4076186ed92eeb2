------------------------------- MODULE JobLife -------------------------------
(***************************************************************************)
(* One job as its row sees it, without tasks, slots, timers or messages:   *)
(* what ReviewLifecycle and PlanLifecycle take a job to be.  JobRunner     *)
(* implements it.                                                          *)
(***************************************************************************)
CONSTANT Job

VARIABLES phase,  \* "idle", "rejecting", "pending", "working", "committed", "over"
          status  \* what the job has made of its row

lVars == <<phase, status>>

LInit == /\ phase = [j \in Job |-> "idle"]
         /\ status = [j \in Job |-> "processing"]

Go(j, from, to) == phase[j] \in from /\ phase' = [phase EXCEPT ![j] = to]
Write(j, s) == status' = [status EXCEPT ![j] = s]

\* submit takes the job or refuses it, and the route then fails the row.
LSubmit(j) == /\ Go(j, {"idle"}, "pending") \/ Go(j, {"idle"}, "rejecting")
              /\ UNCHANGED status
LReject(j) == Go(j, {"rejecting"}, "over") /\ Write(j, "failed")

LStart(j) == Go(j, {"pending"}, "working") /\ UNCHANGED status
LComplete(j) == Go(j, {"working"}, "committed") /\ Write(j, "completed")
LEnd(j) == Go(j, {"committed"}, "over") /\ UNCHANGED status

\* A deadline, a shutdown or an exception, the last also after the commit.
LFail(j) == /\ Go(j, {"pending", "working", "committed"}, "over")
            /\ Write(j, "failed")

\* A failure that is not recorded.
LVanish(j) == /\ Go(j, {"rejecting", "pending", "working", "committed"}, "over")
              /\ UNCHANGED status

LNext == \E j \in Job : \/ LSubmit(j) \/ LReject(j) \/ LStart(j) \/ LComplete(j)
                        \/ LEnd(j) \/ LFail(j) \/ LVanish(j)

LSpec == LInit /\ [][LNext]_lVars
==============================================================================
