CONSTANTS
  j1 = j1
  j2 = j2
  j3 = j3
  j4 = j4
  Job <- TwoJobs
  MaxConcurrent = 1
  MaxQueued = 1
  DBMayFail = TRUE
  DrainMayExpire = FALSE
SPECIFICATION FairSpec
INVARIANTS
  TruthfulMessages
  NoSilentLoss
  OutcomeAgrees
  EventLostOnlyTwiceCancelled
  NobodyIsStuck
PROPERTIES
  JobsAdvance
  ImplementsLife
  JobsEnd
  CloseReturns
