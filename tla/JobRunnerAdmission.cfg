CONSTANTS
  j1 = j1
  j2 = j2
  j3 = j3
  j4 = j4
  Job <- ThreeJobs
  MaxConcurrent = 1
  MaxQueued = 2
  DBMayFail = FALSE
  DrainMayExpire = TRUE
SPECIFICATION Spec
SYMMETRY Symmetric
INVARIANTS
  TypeOK
  AdmissionBounds
PROPERTIES
  ImplementsAdmission
