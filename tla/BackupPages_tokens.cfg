SPECIFICATION Spec
CONSTANTS
  a = a
  b = b
  i1 = i1
  i2 = i2
  n1 = n1
  n2 = n2
  Workers <- TwoWorkers
  Ids <- TwoSets
  Nonces <- TwoTokens
  Old <- FirstSet
  None = None
  NoDir = NoDir
INVARIANTS
  DamagedExplained
PROPERTIES
  RepeatsOnlyForgotten
  UploadsReplaceNothing
SYMMETRY Symmetric
\* A broken database leaves nothing to do.
CHECK_DEADLOCK FALSE
