SPECIFICATION FairSpec
CONSTANTS
  j1 = j1
  j2 = j2
  w1 = w1
  w2 = w2
  NoJob = NoJob
  Jobs <- OneJob
  Workers <- OneWorker
  MaxAttempts <- OneAttempt
  Disabled <- Nothing
  MaxFaults = 1
  MaxLapses = 3
  MaxEnds = 1
PROPERTIES
  RunningJobSettles
CHECK_DEADLOCK FALSE
