SPECIFICATION Spec
CONSTANTS
  j1 = j1
  j2 = j2
  w1 = w1
  w2 = w2
  NoJob = NoJob
  Jobs <- OneJob
  Workers <- TwoWorkers
  MaxAttempts <- TwoAttempts
  Disabled <- Nothing
  MaxFaults = 0
  MaxLapses = 1
  MaxEnds = 0
PROPERTIES
  SettledIsFinal
CHECK_DEADLOCK FALSE
