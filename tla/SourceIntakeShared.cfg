\* Two analyses share the stores.
SPECIFICATION Spec
CONSTANTS
  None = None
  Torn = Torn
  Processes = {p1, p2}
  Versions = {v1, v2}
  Rewritten = {}
PROPERTY
  SnapshotsAreImmutable
