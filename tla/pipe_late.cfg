SPECIFICATION FairSpec
CONSTANTS
  j1 = j1
  j2 = j2
  w1 = w1
  w2 = w2
  NoJob = NoJob
  Jobs <- OneJob
  Workers <- TwoWorkers
  MaxAttempts <- TwoAttempts
  Disabled <- Nothing
  MaxFaults = 1
  MaxLapses = 2
  MaxEnds = 1
PROPERTIES
  CalmJobSettles
  FullRestartRecovers
  FollowsLifecycle
CHECK_DEADLOCK FALSE
