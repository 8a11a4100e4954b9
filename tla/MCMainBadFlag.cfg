\* One bad flag is enough for cphf to abort: violated.
SPECIFICATION Spec
CONSTANTS
  Characters <- MCCharacters
  Argvs <- MCArgvs
  WildIds <- MCWildIds
  CharIsSigned = TRUE
INVARIANT BadFlagAborts
