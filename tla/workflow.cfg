SPECIFICATION Spec
CONSTANTS
  StepNames <- ThreeNames
  KNOWN_ACTIONS <- Known
  OtherActions <- Unknown
  Definitions <- AllDefinitions
INVARIANTS
  RecursionIsBounded
  AcyclicRunsInOrder
  EachNameRunsOnce
  OnlyFinishedRunsAreVisible
CHECK_DEADLOCK FALSE
