SPECIFICATION ListSpec
CONSTANTS
  a = a
  b = b
  c0 = c0
  k = k
  empty = empty
  NoKey = NoKey
  EmptyKey = empty
  Clients <- ThreeClients
  Keys <- TwoKeys
  idempotency_key <- SharedKey
  MaxTries = 2
  MaxFaults = 1
  PageSize = 1
INVARIANTS
  OneJobPerKey
  AnswersAgree
  AnsweredJobIsQueued
  NoRowMissed
PROPERTIES
  EveryRequestEnds
CHECK_DEADLOCK FALSE
