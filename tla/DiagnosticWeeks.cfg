\* The same instance, against what the decision record says of too few weeks.
SPECIFICATION Spec
CONSTANTS
  WeekDays = 2
  MinWeeks = 4
  MinBaseline = 2
  MinComparison = 2
  Periods <- MCPeriods
  Datasets <- MCDatasets
  Rewrites <- MCRewrites
  Requests <- MCRequests
  MaxCalls = 1
  MaxAlterations = 1
  MaxDamage = 1
INVARIANTS
  TooFewWeeksAreInconclusive
CHECK_DEADLOCK FALSE
