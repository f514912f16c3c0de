\* One writer is enough to persist a decision and then its candidate.
SPECIFICATION Spec
CONSTANTS
  None = None
  Writers = {w1}
  Paths = {candidate, decision1}
  Candidates = {candidate}
  Decisions = {decision1}
  Indexed = {}
  Versions = {"v1", "admissible", "inadmissible", "unbound"}
INVARIANT
  DecisionsStayVerifiable
