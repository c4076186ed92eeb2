--------------------------- MODULE MCPlanLifecycle ---------------------------
(* Instances of PlanLifecycle: every pair of actors, two keys of each kind. *)
EXTENDS PlanLifecycle, TLC

CONSTANTS v1, v2, w1, w2, r1, r2, j1, j2

TwoPlans == {v1, v2}
TwoReviews == {w1, w2}
TwoRequests == {r1, r2}
TwoJobs == {j1, j2}

\* Two workouts each: answers that share a number and answers that do not.
Answers == {{1, 2}, {1, 3}, {3, 4}}

Symmetric == Permutations(Plan) \cup Permutations(Review)
             \cup Permutations(Request) \cup Permutations(Job)
==============================================================================
