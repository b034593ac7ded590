SPECIFICATION ServerSpec
CONSTANTS
  Calls = {c1, c2, c3}
  a1 = a1
  k1 = k1
  k2 = k2
  e1 = e1
  Addresses = {a1}
  Keys = {k1, k2}
  SeedKeys = {k1}
  Experiments = {e1}
  Requests <- AllRequests
  NoExperiment = NoExperiment
  DEFAULT_LIMIT = 2
  MaxFaults = 1
SYMMETRY Symmetry
INVARIANTS
  CounterExpires
  RevokedKeyIsRefused
  NoVersionGaps
  LaterVersionIsHigher
PROPERTIES
  RevocationIsFinal
CHECK_DEADLOCK FALSE
