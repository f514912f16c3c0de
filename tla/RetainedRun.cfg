\* One session with up to two faults and a crash anywhere, and one reader;
\* the session keeps running unless it is killed.
SPECIFICATION FairSpec
CONSTANTS
  None = None
  Context = {intent, canonicalization}
  Declaration = declaration
  Evidence = {dataset, evidence}
  Result = result
  Response = response
  MaxFaults = 2
INVARIANTS
  CompleteMeansVerifiable
  ReaderNeverFooled
  ExitAgreesWithStores
  SingleFaultIsRecorded
PROPERTIES
  NeverUpgraded
  ImplementsPublication
  EventuallyDecided
\* Every session ends.
CHECK_DEADLOCK FALSE
