\* Two ids, each given to a second process at any time.
SPECIFICATION FairSpec
CONSTANTS
  UINT = 64
  ULL = 4096
  RlimMax = 3
  RlimitFails = FALSE
  NULL = NULL
  Pids = {1, 2}
  MaxGen = 2
  Kinds <- MCKinds
  Options <- MCOptions
INVARIANTS
  TypeOK
  LooksInOrder
  OwnerMatchesExecutable
  DisplayOrder
  AllOrNothing
  LiveProcessesDescribed
PROPERTY ImplementsDescription
