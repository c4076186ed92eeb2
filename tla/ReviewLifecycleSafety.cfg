SPECIFICATION Spec
CONSTANTS
  v1 = v1
  v2 = v2
  r1 = r1
  r2 = r2
  j1 = j1
  j2 = j2
  p1 = p1
  p2 = p2
  None = None
  Review <- TwoReviews
  Request <- TwoRequests
  Job <- TwoJobs
  Process <- TwoProcesses
  Timeout = 1
  Lag = 1
  Threshold = 3
SYMMETRY Symmetric
INVARIANTS TypeOK NoOrphanProcessing StaleMeansLost
PROPERTIES CompletedIsFinal
