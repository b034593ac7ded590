SPECIFICATION RequestSpec
CONSTANTS
  Programs <- Circuits
  Names <- Registers
  Gates <- AllGates
  SUPPORTED_GATES <- Supported
  MAX_QUBITS = 30
  GATE_KEYWORDS <- Keywords
  SELF_INVERSE <- SelfInverse
  Strategies <- AllStrategies
  Options <- RouteOptions
INVARIANTS
  TypeOK
  AcceptedOperandsExist
  MetadataMatches
  OptimisedIsEquivalent
  MappingIsPermutation
  RoutedProviderRuns
CHECK_DEADLOCK FALSE
