\* One dimension and one dependency; two calls, and one failed write or damaged record.
SPECIFICATION Spec
CONSTANTS
  Dimensions = {dimension}
  Dependencies = {dependency}
  dimension = dimension
  dependency = dependency
  Inputs <- MCInputs
  Directly <- MCDirectly
  MaxCalls = 2
  MaxFaults = 1
INVARIANTS
  LineageBeforeHypothesis
  OutcomeIsHonest
  OnlyFaultsBreakPersistence
  EligibleOnlyOnGovernedEvidence
CHECK_DEADLOCK FALSE
