\* Two calls over the same stores, three versions of the file and three instants.
SPECIFICATION Spec
CONSTANTS
  a = a
  b = b
  v1 = v1
  v2 = v2
  v3 = v3
  Calls = {a, b}
  Preparing = {a}
  Contents = {v1, v2, v3}
  Headers <- MCHeaders
  Unreadable = {v3}
  Intents <- MCIntents
  Manifests <- MCManifests
  Ids = {1, 2, 3}
  NewIds = {1}
  Cutoffs = {1}
  MaxTime = 2
INVARIANTS
  OneCoverageUnlessRaced
  AnalysedAsConfirmed
  RetriesAreAdmitted
  AnswersNameTheirCoverage
CHECK_DEADLOCK FALSE
