\* Every file lsof reports is reachable through its entry: violated.
SPECIFICATION Spec
CONSTANTS
  UINT = 64
  ULL = 4096
  RlimMax = 3
  RlimitFails = FALSE
  NULL = NULL
  Reports <- MCReports
  Pending <- MCNothingPending
  Garbage <- MCOneText
  PipeCap = 2
  Faults = {}
INVARIANT EveryFileReachable
