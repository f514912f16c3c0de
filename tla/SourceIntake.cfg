\* One analysis at a time, in any number, while the user edits the source.
SPECIFICATION Spec
CONSTANTS
  None = None
  Torn = Torn
  Processes = {p}
  Versions = {v1, v2, v3}
  Rewritten = {v2, v3}
INVARIANTS
  RegisteredSnapshotsIntact
  ResultsComeFromTheirSource
  LineageComplete
  RefusalsExplained
