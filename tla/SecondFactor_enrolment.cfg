SPECIFICATION Spec
CONSTANTS
  Requests = {r1, r2}
  None = None
  BatchSize = 2
  MaxFailures = 2
  MaxSecrets = 2
  MaxBatches = 2
  MaxStep = 1
CHECK_DEADLOCK FALSE
SYMMETRY RequestSymmetry
INVARIANTS TypeOK AcceptedOnce EnrolmentWhole
