SPECIFICATION Spec
CONSTANTS
  j1 = j1
  j2 = j2
  w1 = w1
  w2 = w2
  NoJob = NoJob
  Jobs <- TwoJobs
  Workers <- TwoWorkers
  MaxAttempts <- MixedAttempts
  Disabled <- OnlyJ1
  MaxFaults = 1
  MaxLapses = 2
  MaxEnds = 1
SYMMETRY Symmetry
INVARIANTS
  TypeOK
  EnqueuedJobsExist
  OutcomesAreCommitted
  NoJobStranded
  FailureReachesDlq
  ExclusiveExecution
CHECK_DEADLOCK FALSE
