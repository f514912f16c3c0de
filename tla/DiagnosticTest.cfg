\* Weeks of two days and a minimum of two in each period; two calls.
SPECIFICATION Spec
CONSTANTS
  WeekDays = 2
  MinWeeks = 4
  MinBaseline = 2
  MinComparison = 2
  Periods <- MCPeriods
  Datasets <- MCDatasets
  Rewrites <- MCRewrites
  Requests <- MCRequests
  MaxCalls = 2
  MaxAlterations = 1
  MaxDamage = 1
INVARIANTS
  OutcomeHasItsLineage
  OneOutcomePerRequest
  DisagreementMeansMisreading
  AnswerIsTheDatasets
CHECK_DEADLOCK FALSE
