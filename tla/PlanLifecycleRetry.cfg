SPECIFICATION Spec
CONSTANTS
  v1 = v1
  v2 = v2
  w1 = w1
  w2 = w2
  r1 = r1
  r2 = r2
  j1 = j1
  j2 = j2
  None = None
  Plan <- TwoPlans
  Review <- TwoReviews
  Request <- TwoRequests
  Job <- TwoJobs
  Answer <- Answers
SYMMETRY Symmetric
INVARIANTS RetryCanComplete
