\* lsof can also be killed at any point of its report, and cphf can have text
\* of its own buffered when it forks.
SPECIFICATION FairSpec
CONSTANTS
  UINT = 64
  ULL = 4096
  RlimMax = 3
  RlimitFails = FALSE
  NULL = NULL
  Reports <- MCFewReports
  Pending <- MCPending
  Garbage <- MCSomeText
  PipeCap = 2
  Faults = {"exec", "kill"}
INVARIANTS
  DamageBounded
  NullDereferenceNeedsPendingText
PROPERTIES
  EntriesKept
  Terminates
