\* lsof runs to its end, or the pipe, the fork or the exec fails.
SPECIFICATION FairSpec
CONSTANTS
  UINT = 64
  ULL = 4096
  RlimMax = 3
  RlimitFails = FALSE
  NULL = NULL
  Reports <- MCReports
  Pending <- MCNothingPending
  Garbage <- MCOneText
  PipeCap = 2
  Faults = {"pipe", "fork", "exec"}
INVARIANTS
  TypeOK
  ListingMatchesReport
  DoneMeansDrained
  PathsAgree
  OrdinaryFilesReachable
PROPERTIES
  Terminates
  ImplementsInventory
