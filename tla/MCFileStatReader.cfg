\* Three files of two processes, whose links and names change under the reader.
SPECIFICATION FairSpec
CONSTANTS
  UINT = 64
  ULL = 4096
  RlimMax = 3
  RlimitFails = FALSE
  NULL = NULL
  Files = {f, g}
  Listed <- MCListed
  NameLengths = {1, 4}
  Options <- MCOptions
  FilenameLength = 1
  MemoryCanFail = TRUE
  MaxChanges = 2
INVARIANTS
  TypeOK
  FromItsLink
  OneStatPerFile
  NameWhole
  BufferBounded
PROPERTIES
  ImplementsDescription
