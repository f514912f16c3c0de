\* Two writers, one claim candidate, two evaluations, one indexed artifact.
SPECIFICATION Spec
CONSTANTS
  None = None
  Writers = {w1, w2}
  Paths = {candidate, decision1, decision2, artifact}
  Candidates = {candidate}
  Decisions = {decision1, decision2}
  Indexed = {artifact}
  Versions = {"v1", "v2", "admissible", "inadmissible", "unbound"}
INVARIANTS
  RowsVerify
  AdmissibleHasCandidate
  RefusesOnlyConflicts
PROPERTIES
  ImplementsWriteOnce
