SPECIFICATION Spec
CONSTANTS
  j1 = j1
  j2 = j2
  w1 = w1
  w2 = w2
  NoJob = NoJob
  Jobs <- OneJob
  Workers <- TwoWorkers
  MaxAttempts <- TwoAttempts
  Disabled <- Nothing
  MaxFaults = 0
  MaxLapses = 0
  MaxEnds = 0
INVARIANTS
  InFlightTracked
CHECK_DEADLOCK FALSE
