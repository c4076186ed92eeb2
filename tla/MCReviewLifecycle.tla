-------------------------- MODULE MCReviewLifecycle --------------------------
(***************************************************************************)
(* Instances of ReviewLifecycle for TLC.                                   *)
(***************************************************************************)
EXTENDS ReviewLifecycle, TLC

CONSTANTS v1, v2, r1, r2, j1, j2, p1, p2

TwoReviews == {v1, v2}
TwoRequests == {r1, r2}
TwoJobs == {j1, j2}
OneJob == {j1}
TwoProcesses == {p1, p2}
OneProcess == {p1}

Symmetric == Permutations(Review) \cup Permutations(Request)
             \cup Permutations(Job) \cup Permutations(Process)
==============================================================================
