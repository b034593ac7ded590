SPECIFICATION WatchSpec
CONSTANTS
  j1 = j1
  j2 = j2
  w1 = w1
  w2 = w2
  NoJob = NoJob
  Jobs <- TwoJobs
  Workers <- TwoWorkers
  MaxAttempts <- MixedAttempts
  Disabled <- Nothing
  WatchedJob = j2
  MaxFaults = 0
  MaxLapses = 0
  MaxEnds = 1
INVARIANTS
  ToldOutcomeStands
PROPERTIES
  ProcessingDrains
  ImplementsLifecycle
  WaiterIsAnswered
CHECK_DEADLOCK FALSE
