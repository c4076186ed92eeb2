CONSTANTS
  j1 = j1
  j2 = j2
  j3 = j3
  j4 = j4
  Job <- TwoJobs
  MaxConcurrent = 1
  MaxQueued = 1
  DBMayFail = FALSE
  DrainMayExpire = FALSE
SPECIFICATION Spec
INVARIANT OwnPath
