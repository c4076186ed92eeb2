CONSTANTS
  j1 = j1
  j2 = j2
  j3 = j3
  j4 = j4
  Job <- FourJobs
  MaxConcurrent = 2
  MaxQueued = 2
  DBMayFail = FALSE
  DrainMayExpire = FALSE
SPECIFICATION Spec
CONSTRAINT NoShutdown
SYMMETRY Symmetric
INVARIANTS
  SlotsConserved
  NoLostWakeup
PROPERTIES
  NoOvertaking
