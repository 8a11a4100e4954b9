\* Every field of a living process is read as what it is: violated.
SPECIFICATION Spec
CONSTANTS
  UINT = 64
  ULL = 4096
  RlimMax = 3
  RlimitFails = FALSE
  NULL = NULL
  Pids = {1, 2}
  MaxGen = 1
  Kinds <- MCTwoWords
  Options <- MCOptions
INVARIANT FieldsAreOwn
