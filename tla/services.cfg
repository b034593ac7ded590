SPECIFICATION Spec
CONSTANTS
  j1 = j1
  j2 = j2
  j3 = j3
  b1 = b1
  b2 = b2
  team = team
  aer = aer
  ionq = ionq
  rigetti = rigetti
  c1 = c1
  Jobs <- ThreeJobs
  Budgets <- TwoBudgets
  NoBudget = NoBudget
  Scopes <- OneScope
  JobScope <- TeamJobs
  BudgetScope <- TeamBudgets
  Cost <- JobCosts
  Limit <- Limits
  Threshold = 80
  ExecutionProvider <- ThreeProviders
  Posts <- OnePost
  PostProvider <- PostIonq
  NoRow = NoRow
  MaxCycles = 3
  MaxFaults = 2
INVARIANTS
  SpendNeverExceedsRecords
  SerialSpendIsExact
  ThresholdIsAnnounced
  CycleHasNoGaps
  GaugesAreFresh
PROPERTIES
  GaugesNeverGoBack
  MeasuredProvidersShown
CHECK_DEADLOCK FALSE
