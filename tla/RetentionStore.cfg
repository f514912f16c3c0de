\* A delete_run and a verify_run beside the session and the reader.
SPECIFICATION StoreSpec
CONSTANTS
  None = None
  Context = {}
  Declaration = declaration
  Evidence = {}
  Result = result
  Response = response
  MaxFaults = 1
  MaxDeletes = 1
INVARIANTS
  DeletedStaysDeleted
PROPERTIES
  DamagedNeverValid
CHECK_DEADLOCK FALSE
