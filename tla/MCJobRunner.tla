----------------------------- MODULE MCJobRunner -----------------------------
(* Small instances of JobRunner: one slot or two, and fewer places than jobs. *)
EXTENDS JobRunner, TLC

CONSTANTS j1, j2, j3, j4

TwoJobs == {j1, j2}
ThreeJobs == {j1, j2, j3}
FourJobs == {j1, j2, j3, j4}

\* Bound of the run with two slots: the process is not shut down.
NoShutdown == closer = "open"

Symmetric == Permutations(Job)
=============================================================================
