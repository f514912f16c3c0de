\* The pipeline over the requests of MCAnalysisPipeline; up to two files damaged.
SPECIFICATION Spec
CONSTANTS
  Inputs <- MCInputs
  MaxFaults = 2
INVARIANTS
  ExactlyTheEligibleChains
  ChainComplete
  NothingFromDamagedData
  NothingLostWithoutDamage
  FailureStaysInItsChain
  NoFalseAvailability
  StatusMatchesOutcomes
PROPERTIES
  ImplementsAuthority
