\* The Parquet file changes up to four times, one other file is damaged.
SPECIFICATION Spec
CONSTANTS
  Contents <- MCContents
  Broken <- MCBroken
  MaxAlterations = 4
  MaxDamage = 1
INVARIANTS
  LoadedDecompositionReconciles
  LoadedDecompositionIsTheDatasets
  ValidatedHasItsChain
CHECK_DEADLOCK FALSE
